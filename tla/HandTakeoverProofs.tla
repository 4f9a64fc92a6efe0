--------------------------- MODULE HandTakeoverProofs ---------------------------
(***************************************************************************)
(* What HandTakeover promises, for any number of watchers and any number   *)
(* of generations: the record never routes a request past the owner, and   *)
(* lock, record and endpoint implement the ownership of HandOwner.         *)
(***************************************************************************)
EXTENDS HandTakeover, TLAPS

Watcher ==
    [pc : {"off", "try", "run"} \cup Contending \cup Publishing \cup Releasing,
     takeover : BOOLEAN, gen : 0..MaxGen, listening : BOOLEAN, asked : BOOLEAN,
     signal : BOOLEAN, target : 0..MaxGen, done : SUBSET (1..MaxGen),
     reply : {"none", "ok"}, end : Ends]

(* The lock is held by the process that is somewhere between taking it and   *)
(* releasing it, and by no other.                                            *)
Owning == Publishing \cup {"run"} \cup Releasing
LockIsHeld == \A p \in Watchers : lock = p <=> w[p].pc \in Owning

(* A generation is had from the endpoint on, and the endpoint is closed      *)
(* before the handlers are waited for.                                       *)
GenIsOwners ==
    \A p \in Watchers :
      /\ w[p].gen # 0 <=> w[p].pc \in {"record", "check", "run"} \cup Releasing
      /\ w[p].listening <=> (w[p].gen # 0 /\ w[p].pc # "drain")

(* A record says whose it is, and what a process publishes or runs with is   *)
(* its own record or none.                                                   *)
RecordIsCurrent ==
    /\ record.gen = 0 => record = NoRecord
    /\ \A p \in Watchers :
         w[p].pc \in {"listen", "record", "check", "run"} => record.gen \in {0, w[p].gen}

(* A request on its way was read off the record by the contender that makes  *)
(* it.                                                                       *)
RequestsAreNamed ==
    /\ \A h \in handlers : h.gen \in named
    /\ \A p \in Watchers :
         /\ w[p].pc \in {"dial", "write", "wait"} => w[p].target \in named
         /\ w[p].asked => w[p].gen \in named

IndInv ==
    /\ TakeoverTypeOK
    /\ LockIsHeld
    /\ GenIsOwners
    /\ RecordIsCurrent
    /\ RequestsAreNamed


-----------------------------------------------------------------------------
LEMMA InitKeepsInv == TakeoverInit => IndInv
BY TakeoverAssumption DEF TakeoverInit, IndInv, TakeoverTypeOK, LockIsHeld, GenIsOwners, RecordIsCurrent,
   RequestsAreNamed, Off, NoRecord, Publishing, Releasing, Contending, Owning, Ends


LEMMA OffRow ==
  Off \in Watcher /\ Off.gen = 0 /\ Off.pc = "off" /\ ~Off.listening /\ ~Off.asked
<1>1. {} \in SUBSET (1..MaxGen) /\ 0 \in 0..MaxGen
  BY TakeoverAssumption
<1> QED BY <1>1 DEF Off, Watcher, Ends

LEMMA TakeLockKeeps ==
  ASSUME IndInv, NEW p \in Watchers, w[p].pc \in {"try", "poll"}, TakeLock(p)
  PROVE  IndInv'
<1>t. TakeoverTypeOK'
  <2>w. w \in [Watchers -> Watcher] /\ w[p] \in Watcher
    BY DEF IndInv, TakeoverTypeOK, Watcher
  <2>r. w'[p] \in Watcher
    <3>1. w'[p] = [Off EXCEPT !.pc = "clear", !.signal = w[p].signal]
      BY <2>w DEF TakeLock
    <3>2. w[p].signal \in BOOLEAN
      BY <2>w DEF Watcher
    <3> QED BY <3>1, <3>2, OffRow DEF Watcher, Publishing
  <2>q. \A q \in Watchers \ {p} : w'[q] = w[q]
    BY <2>w DEF TakeLock, Off, At
  <2>d. w' \in [Watchers -> Watcher]
    BY <2>w, <2>r, <2>q DEF TakeLock, Off, At
  <2> QED
    BY <2>d DEF IndInv, TakeoverTypeOK, TakeLock, Off, At, Watcher, NoRecord
<1>l. LockIsHeld'
  BY TakeoverAssumption DEF IndInv, TakeoverTypeOK, LockIsHeld, TakeLock, Off, At, Publishing, Releasing, Contending, Owning
<1>g. GenIsOwners'
  BY TakeoverAssumption DEF IndInv, TakeoverTypeOK, GenIsOwners, TakeLock, Off, At, Publishing, Releasing, Contending
<1>r. RecordIsCurrent'
  BY TakeoverAssumption DEF IndInv, TakeoverTypeOK, LockIsHeld, GenIsOwners, RecordIsCurrent, TakeLock, Off, At, Publishing, Releasing, Contending, Owning
<1>n. RequestsAreNamed'
  BY TakeoverAssumption DEF IndInv, TakeoverTypeOK, GenIsOwners, RequestsAreNamed, RecordIsCurrent, TakeLock, Off, At, Publishing, Releasing, Contending
<1> QED BY <1>t, <1>l, <1>g, <1>r, <1>n DEF IndInv

LEMMA ExitKeeps ==
  ASSUME IndInv, NEW p \in Watchers, w[p].pc \in {"try", "poll"}, Exit(p),
         UNCHANGED <<lock, record, issued, named>>
  PROVE  IndInv'
<1>t. TakeoverTypeOK'
  <2>w. w \in [Watchers -> Watcher] /\ w[p] \in Watcher
    BY DEF IndInv, TakeoverTypeOK, Watcher
  <2>r. w'[p] \in Watcher
    BY <2>w, TakeoverAssumption DEF Exit, At, Off, Watcher, Publishing, Releasing, Contending, Ends, IndInv, TakeoverTypeOK
  <2>q. \A q \in Watchers \ {p} : w'[q] = w[q]
    BY <2>w DEF Exit, Off, At
  <2>d. w' \in [Watchers -> Watcher]
    BY <2>w, <2>r, <2>q DEF Exit, Off, At
  <2> QED
    BY <2>d DEF IndInv, TakeoverTypeOK, Exit, Off, At, Watcher, NoRecord
<1>l. LockIsHeld'
  BY TakeoverAssumption DEF IndInv, TakeoverTypeOK, LockIsHeld, Exit, Off, At, Publishing, Releasing, Contending, Owning
<1>g. GenIsOwners'
  BY TakeoverAssumption DEF IndInv, TakeoverTypeOK, GenIsOwners, Exit, Off, At, Publishing, Releasing, Contending
<1>r. RecordIsCurrent'
  BY TakeoverAssumption DEF IndInv, TakeoverTypeOK, LockIsHeld, GenIsOwners, RecordIsCurrent, Exit, Off, At, Publishing, Releasing, Contending, Owning
<1>n. RequestsAreNamed'
  BY TakeoverAssumption DEF IndInv, TakeoverTypeOK, GenIsOwners, RequestsAreNamed, RecordIsCurrent, Exit, Off, At, Publishing, Releasing, Contending
<1> QED BY <1>t, <1>l, <1>g, <1>r, <1>n DEF IndInv

LEMMA LookAgainKeeps ==
  ASSUME IndInv, NEW p \in Watchers, w[p].pc \in {"try", "poll"}, Goto(p, "read"),
         UNCHANGED <<lock, record, issued, named, handlers>>
  PROVE  IndInv'
<1>t. TakeoverTypeOK'
  <2>w. w \in [Watchers -> Watcher] /\ w[p] \in Watcher
    BY DEF IndInv, TakeoverTypeOK, Watcher
  <2>r. w'[p] \in Watcher
    BY <2>w, TakeoverAssumption DEF Goto, At, Watcher, Publishing, Releasing, Contending, Ends, IndInv, TakeoverTypeOK
  <2>q. \A q \in Watchers \ {p} : w'[q] = w[q]
    BY <2>w DEF Goto, At
  <2>d. w' \in [Watchers -> Watcher]
    BY <2>w, <2>r, <2>q DEF Goto, At
  <2> QED
    BY <2>d DEF IndInv, TakeoverTypeOK, Goto, At, Watcher, NoRecord
<1>l. LockIsHeld'
  BY TakeoverAssumption DEF IndInv, TakeoverTypeOK, LockIsHeld, Goto, At, Publishing, Releasing, Contending, Owning
<1>g. GenIsOwners'
  BY TakeoverAssumption DEF IndInv, TakeoverTypeOK, GenIsOwners, Goto, At, Publishing, Releasing, Contending
<1>r. RecordIsCurrent'
  BY TakeoverAssumption DEF IndInv, TakeoverTypeOK, LockIsHeld, GenIsOwners, RecordIsCurrent, Goto, At, Publishing, Releasing, Contending, Owning
<1>n. RequestsAreNamed'
  BY TakeoverAssumption DEF IndInv, TakeoverTypeOK, GenIsOwners, RequestsAreNamed, RecordIsCurrent, Goto, At, Publishing, Releasing, Contending
<1> QED BY <1>t, <1>l, <1>g, <1>r, <1>n DEF IndInv

LEMMA TryLockKeeps == ASSUME IndInv, NEW p \in Watchers, TryLock(p) PROVE IndInv'
<1>1. CASE TakeLock(p)
  BY <1>1, TakeLockKeeps DEF TryLock, At
<1>2. CASE Goto(p, "read") /\ UNCHANGED <<lock, record, issued, named, handlers>>
  BY <1>2, LookAgainKeeps DEF TryLock, At
<1>3. CASE Exit(p) /\ UNCHANGED <<lock, record, issued, named>>
  BY <1>3, ExitKeeps DEF TryLock, At
<1> QED BY <1>1, <1>2, <1>3 DEF TryLock


LEMMA ReadRecordKeeps == ASSUME IndInv, NEW p \in Watchers, ReadRecord(p) PROVE IndInv'
<1>t. TakeoverTypeOK'
  BY TakeoverAssumption DEF IndInv, TakeoverTypeOK, GenIsOwners, RecordIsCurrent, ReadRecord, At, Goto, NoRecord, Publishing, Releasing, Contending, Ends
<1>l. LockIsHeld'
  BY TakeoverAssumption DEF IndInv, TakeoverTypeOK, LockIsHeld, ReadRecord, At, Goto, NoRecord, Publishing, Releasing, Contending, Owning
<1>g. GenIsOwners'
  BY TakeoverAssumption DEF IndInv, TakeoverTypeOK, GenIsOwners, ReadRecord, At, Goto, Releasing
<1>r. RecordIsCurrent'
  BY TakeoverAssumption DEF IndInv, TakeoverTypeOK, LockIsHeld, GenIsOwners, RecordIsCurrent, ReadRecord, At, Goto, NoRecord, Publishing, Releasing, Contending, Owning
<1>n. RequestsAreNamed'
  BY TakeoverAssumption DEF IndInv, TakeoverTypeOK, GenIsOwners, RequestsAreNamed, RecordIsCurrent, ReadRecord, At, Goto, NoRecord, Publishing, Releasing, Contending
<1> QED BY <1>t, <1>l, <1>g, <1>r, <1>n DEF IndInv


LEMMA DialKeeps == ASSUME IndInv, NEW p \in Watchers, Dial(p) PROVE IndInv'
<1>t. TakeoverTypeOK'
  <2>w. w \in [Watchers -> Watcher] /\ w[p] \in Watcher
    BY DEF IndInv, TakeoverTypeOK, Watcher
  <2>r. w'[p] \in Watcher
    BY <2>w, TakeoverAssumption DEF Dial, At, Endpoint, Watcher, Publishing, Releasing, Contending, Ends, IndInv, TakeoverTypeOK
  <2>q. \A q \in Watchers \ {p} : w'[q] = w[q]
    BY <2>w DEF Dial, Endpoint, At
  <2>d. w' \in [Watchers -> Watcher]
    BY <2>w, <2>r, <2>q DEF Dial, Endpoint, At
  <2>h. handlers' \subseteq [from : Watchers, gen : 1..MaxGen, line : BOOLEAN]
    <3>1. \A q \in Endpoint(w[p].target) : w[q].gen \in 1..MaxGen
      BY <2>w, TakeoverAssumption DEF Endpoint, IndInv, GenIsOwners, Watcher
    <3>2. CASE Endpoint(w[p].target) = {}
      BY <3>2 DEF IndInv, TakeoverTypeOK, Dial
    <3>3. CASE Endpoint(w[p].target) # {}
      <4>1. PICK q \in Endpoint(w[p].target) :
              handlers' = handlers \cup {[from |-> p, gen |-> w[q].gen, line |-> FALSE]}
        BY <3>3 DEF Dial
      <4>2. [from |-> p, gen |-> w[q].gen, line |-> FALSE] \in [from : Watchers, gen : 1..MaxGen, line : BOOLEAN]
        BY <3>1
      <4> QED BY <4>1, <4>2 DEF IndInv, TakeoverTypeOK
    <3> QED BY <3>2, <3>3
  <2> QED
    BY <2>d, <2>h DEF IndInv, TakeoverTypeOK, Dial, Endpoint, At, Watcher, GenIsOwners
<1>l. LockIsHeld'
  BY TakeoverAssumption DEF IndInv, TakeoverTypeOK, LockIsHeld, Dial, At, Endpoint, Publishing, Releasing, Contending, Owning
<1>g. GenIsOwners'
  BY TakeoverAssumption DEF IndInv, TakeoverTypeOK, GenIsOwners, Dial, At, Endpoint, Publishing, Releasing, Contending
<1>r. RecordIsCurrent'
  BY TakeoverAssumption DEF IndInv, TakeoverTypeOK, LockIsHeld, GenIsOwners, RecordIsCurrent, Dial, At, Endpoint, Publishing, Releasing, Contending, Owning
<1>n. RequestsAreNamed'
  BY TakeoverAssumption DEF IndInv, TakeoverTypeOK, GenIsOwners, RequestsAreNamed, RecordIsCurrent, Dial, At, Endpoint, Publishing, Releasing, Contending
<1> QED BY <1>t, <1>l, <1>g, <1>r, <1>n DEF IndInv


LEMMA WriteLineKeeps == ASSUME IndInv, NEW p \in Watchers, WriteLine(p) PROVE IndInv'
<1>t. TakeoverTypeOK'
  <2>w. w \in [Watchers -> Watcher] /\ w[p] \in Watcher
    BY DEF IndInv, TakeoverTypeOK, Watcher
  <2>r. w'[p] \in Watcher
    <3>1. w'[p] = [w[p] EXCEPT !.pc = "poll", !.target = 0] \/ w'[p] = [w[p] EXCEPT !.pc = "wait"]
      BY <2>w DEF WriteLine
    <3>2. 0 \in 0..MaxGen
      BY TakeoverAssumption
    <3> QED BY <3>1, <3>2, <2>w DEF Watcher, Contending
  <2>q. \A q \in Watchers \ {p} : w'[q] = w[q]
    BY <2>w DEF WriteLine, Mine, At
  <2>d. w' \in [Watchers -> Watcher]
    BY <2>w, <2>r, <2>q DEF WriteLine, Mine, At
  <2>h. handlers' \subseteq [from : Watchers, gen : 1..MaxGen, line : BOOLEAN]
    <3>1. \A h \in handlers : [h EXCEPT !.line = TRUE] \in [from : Watchers, gen : 1..MaxGen, line : BOOLEAN]
      BY DEF IndInv, TakeoverTypeOK
    <3> QED BY <3>1 DEF IndInv, TakeoverTypeOK, WriteLine, Mine
  <2> QED
    BY <2>d, <2>h DEF IndInv, TakeoverTypeOK, WriteLine, Watcher
<1>l. LockIsHeld'
  BY TakeoverAssumption DEF IndInv, TakeoverTypeOK, LockIsHeld, WriteLine, At, Mine, Publishing, Releasing, Contending, Owning
<1>g. GenIsOwners'
  BY TakeoverAssumption DEF IndInv, TakeoverTypeOK, GenIsOwners, WriteLine, At, Mine, Publishing, Releasing, Contending
<1>r. RecordIsCurrent'
  BY TakeoverAssumption DEF IndInv, TakeoverTypeOK, LockIsHeld, GenIsOwners, RecordIsCurrent, WriteLine, At, Mine, Publishing, Releasing, Contending, Owning
<1>n. RequestsAreNamed'
  BY TakeoverAssumption DEF IndInv, TakeoverTypeOK, GenIsOwners, RequestsAreNamed, RecordIsCurrent, WriteLine, At, Mine, Publishing, Releasing, Contending
<1> QED BY <1>t, <1>l, <1>g, <1>r, <1>n DEF IndInv


LEMMA ReadReplyKeeps == ASSUME IndInv, NEW p \in Watchers, ReadReply(p) PROVE IndInv'
<1>t. TakeoverTypeOK'
  <2>w. w \in [Watchers -> Watcher] /\ w[p] \in Watcher
    BY DEF IndInv, TakeoverTypeOK, Watcher
  <2>r. w'[p] \in Watcher
    <3>1. PICK heard \in {w[p].reply, "late"} \ {"none"} :
            w' = [w EXCEPT ![p].pc = "poll", ![p].reply = "none", ![p].target = 0,
                           ![p].done = IF heard = "ok" THEN @ \cup {w[p].target} ELSE @]
      BY DEF ReadReply
    <3>2. heard = "ok" => w[p].target \in 1..MaxGen
      BY <2>w, <3>1 DEF IndInv, TakeoverTypeOK, RequestsAreNamed, ReadReply, At
    <3>3. 0 \in 0..MaxGen
      BY TakeoverAssumption
    <3>4. (IF heard = "ok" THEN w[p].done \cup {w[p].target} ELSE w[p].done) \in SUBSET (1..MaxGen)
      BY <2>w, <3>2 DEF Watcher
    <3> QED BY <3>1, <3>3, <3>4, <2>w DEF Watcher, Contending
  <2>q. \A q \in Watchers \ {p} : w'[q] = w[q]
    BY <2>w DEF ReadReply, At
  <2>d. w' \in [Watchers -> Watcher]
    BY <2>w, <2>r, <2>q DEF ReadReply, At
  <2> QED
    BY <2>d DEF IndInv, TakeoverTypeOK, ReadReply, At, Watcher
<1>l. LockIsHeld'
  BY TakeoverAssumption DEF IndInv, TakeoverTypeOK, LockIsHeld, ReadReply, At, Publishing, Releasing, Contending, Owning
<1>g. GenIsOwners'
  BY TakeoverAssumption DEF IndInv, TakeoverTypeOK, GenIsOwners, ReadReply, At, Publishing, Releasing, Contending
<1>r. RecordIsCurrent'
  BY TakeoverAssumption DEF IndInv, TakeoverTypeOK, LockIsHeld, GenIsOwners, RecordIsCurrent, ReadReply, At, Publishing, Releasing, Contending, Owning
<1>n. RequestsAreNamed'
  BY TakeoverAssumption DEF IndInv, TakeoverTypeOK, GenIsOwners, RequestsAreNamed, RecordIsCurrent, ReadReply, At, Publishing, Releasing, Contending
<1> QED BY <1>t, <1>l, <1>g, <1>r, <1>n DEF IndInv


LEMMA PollKeeps == ASSUME IndInv, NEW p \in Watchers, Poll(p) PROVE IndInv'
<1>1. CASE TakeLock(p)
  BY <1>1, TakeLockKeeps DEF Poll, At
<1>2. CASE Goto(p, "read") /\ UNCHANGED <<lock, record, issued, named, handlers>>
  BY <1>2, LookAgainKeeps DEF Poll, At
<1>3. CASE Exit(p) /\ UNCHANGED <<lock, record, issued, named>>
  BY <1>3, ExitKeeps DEF Poll, At
<1> QED BY <1>1, <1>2, <1>3 DEF Poll


LEMMA ClearRecordKeeps == ASSUME IndInv, NEW p \in Watchers, ClearRecord(p) PROVE IndInv'
<1>t. TakeoverTypeOK'
  <2>w. w \in [Watchers -> Watcher] /\ w[p] \in Watcher
    BY DEF IndInv, TakeoverTypeOK, Watcher
  <2>r. w'[p] \in Watcher
    <3>1. w'[p] = Off \/ w'[p] = [w[p] EXCEPT !.pc = "listen"]
      BY <2>w DEF ClearRecord, Goto, Unlock, Exit
    <3> QED BY <3>1, <2>w, OffRow DEF Watcher, Publishing
  <2>q. \A q \in Watchers \ {p} : w'[q] = w[q]
    BY <2>w DEF ClearRecord, Goto, Unlock, Exit, Off, At
  <2>d. w' \in [Watchers -> Watcher]
    BY <2>w, <2>r, <2>q DEF ClearRecord, Goto, Unlock, Exit, Off, At
  <2> QED
    BY <2>d, TakeoverAssumption DEF IndInv, TakeoverTypeOK, ClearRecord, Goto, Unlock, Exit, At, Watcher, NoRecord
<1>l. LockIsHeld'
  BY TakeoverAssumption DEF IndInv, TakeoverTypeOK, LockIsHeld, ClearRecord, At, Goto, Unlock, Exit, Off, NoRecord, Publishing, Releasing, Contending, Owning
<1>g. GenIsOwners'
  BY TakeoverAssumption DEF IndInv, TakeoverTypeOK, GenIsOwners, ClearRecord, At, Goto, Unlock, Exit, Off, NoRecord, Publishing, Releasing, Contending
<1>r. RecordIsCurrent'
  BY TakeoverAssumption DEF IndInv, TakeoverTypeOK, LockIsHeld, GenIsOwners, RecordIsCurrent, ClearRecord, At, Goto, Unlock, Exit, Off, NoRecord, Publishing, Releasing, Contending, Owning
<1>n. RequestsAreNamed'
  BY TakeoverAssumption DEF IndInv, TakeoverTypeOK, GenIsOwners, RequestsAreNamed, RecordIsCurrent, ClearRecord, At, Goto, Unlock, Exit, Off, NoRecord, Publishing, Releasing, Contending
<1> QED BY <1>t, <1>l, <1>g, <1>r, <1>n DEF IndInv


LEMMA ListenKeeps == ASSUME IndInv, NEW p \in Watchers, Listen(p) PROVE IndInv'
<1>t. TakeoverTypeOK'
  BY TakeoverAssumption DEF IndInv, TakeoverTypeOK, GenIsOwners, RecordIsCurrent, Listen, At, Publishing, Releasing, Contending, Ends
<1>l. LockIsHeld'
  BY TakeoverAssumption DEF IndInv, TakeoverTypeOK, LockIsHeld, Listen, At, Publishing, Releasing, Contending, Owning
<1>g. GenIsOwners'
  BY TakeoverAssumption DEF IndInv, TakeoverTypeOK, GenIsOwners, Listen, At, Publishing, Releasing, Contending
<1>r. RecordIsCurrent'
  BY TakeoverAssumption DEF IndInv, TakeoverTypeOK, LockIsHeld, GenIsOwners, RecordIsCurrent, Listen, At, Publishing, Releasing, Contending, Owning
<1>n. RequestsAreNamed'
  BY TakeoverAssumption DEF IndInv, TakeoverTypeOK, GenIsOwners, RequestsAreNamed, RecordIsCurrent, Listen, At, Publishing, Releasing, Contending
<1> QED BY <1>t, <1>l, <1>g, <1>r, <1>n DEF IndInv


LEMMA ListenFailsKeeps == ASSUME IndInv, NEW p \in Watchers, ListenFails(p) PROVE IndInv'
<1>t. TakeoverTypeOK'
  BY TakeoverAssumption DEF IndInv, TakeoverTypeOK, GenIsOwners, RecordIsCurrent, ListenFails, At, Unlock, Exit, Off, Publishing, Releasing, Contending, Ends
<1>l. LockIsHeld'
  BY TakeoverAssumption DEF IndInv, TakeoverTypeOK, LockIsHeld, ListenFails, At, Unlock, Exit, Off, Publishing, Releasing, Contending, Owning
<1>g. GenIsOwners'
  BY TakeoverAssumption DEF IndInv, TakeoverTypeOK, GenIsOwners, ListenFails, At, Unlock, Exit, Off, Publishing, Releasing, Contending
<1>r. RecordIsCurrent'
  BY TakeoverAssumption DEF IndInv, TakeoverTypeOK, LockIsHeld, GenIsOwners, RecordIsCurrent, ListenFails, At, Unlock, Exit, Off, Publishing, Releasing, Contending, Owning
<1>n. RequestsAreNamed'
  BY TakeoverAssumption DEF IndInv, TakeoverTypeOK, GenIsOwners, RequestsAreNamed, RecordIsCurrent, ListenFails, At, Unlock, Exit, Off, Publishing, Releasing, Contending
<1> QED BY <1>t, <1>l, <1>g, <1>r, <1>n DEF IndInv


LEMMA PublishRecordKeeps == ASSUME IndInv, NEW p \in Watchers, PublishRecord(p) PROVE IndInv'
<1>t. TakeoverTypeOK'
  BY TakeoverAssumption DEF IndInv, TakeoverTypeOK, GenIsOwners, RecordIsCurrent, PublishRecord, At, Goto, NoRecord, Publishing, Releasing, Contending, Ends
<1>l. LockIsHeld'
  BY TakeoverAssumption DEF IndInv, TakeoverTypeOK, LockIsHeld, PublishRecord, At, Goto, NoRecord, Publishing, Releasing, Contending, Owning
<1>g. GenIsOwners'
  BY TakeoverAssumption DEF IndInv, TakeoverTypeOK, GenIsOwners, PublishRecord, At, Goto, NoRecord, Publishing, Releasing, Contending
<1>r. RecordIsCurrent'
  BY TakeoverAssumption DEF IndInv, TakeoverTypeOK, LockIsHeld, GenIsOwners, RecordIsCurrent, PublishRecord, At, Goto, NoRecord, Publishing, Releasing, Contending, Owning
<1>n. RequestsAreNamed'
  BY TakeoverAssumption DEF IndInv, TakeoverTypeOK, GenIsOwners, RequestsAreNamed, RecordIsCurrent, PublishRecord, At, Goto, NoRecord, Publishing, Releasing, Contending
<1> QED BY <1>t, <1>l, <1>g, <1>r, <1>n DEF IndInv


LEMMA AcquiredKeeps == ASSUME IndInv, NEW p \in Watchers, Acquired(p) PROVE IndInv'
<1>t. TakeoverTypeOK'
  <2>w. w \in [Watchers -> Watcher] /\ w[p] \in Watcher
    BY DEF IndInv, TakeoverTypeOK, Watcher
  <2>r. w'[p] \in Watcher
    BY <2>w, TakeoverAssumption DEF Acquired, At, Interrupted, Watcher, Publishing, Releasing, Contending, Ends, IndInv, TakeoverTypeOK
  <2>q. \A q \in Watchers \ {p} : w'[q] = w[q]
    BY <2>w DEF Acquired, Interrupted, At
  <2>d. w' \in [Watchers -> Watcher]
    BY <2>w, <2>r, <2>q DEF Acquired, Interrupted, At
  <2> QED
    BY <2>d DEF IndInv, TakeoverTypeOK, Acquired, Interrupted, At, Watcher
<1>l. LockIsHeld'
  BY TakeoverAssumption DEF IndInv, TakeoverTypeOK, LockIsHeld, Acquired, At, Interrupted, Publishing, Releasing, Contending, Owning
<1>g. GenIsOwners'
  BY TakeoverAssumption DEF IndInv, TakeoverTypeOK, GenIsOwners, Acquired, At, Interrupted, Publishing, Releasing, Contending
<1>r. RecordIsCurrent'
  BY TakeoverAssumption DEF IndInv, TakeoverTypeOK, LockIsHeld, GenIsOwners, RecordIsCurrent, Acquired, At, Interrupted, Publishing, Releasing, Contending, Owning
<1>n. RequestsAreNamed'
  BY TakeoverAssumption DEF IndInv, TakeoverTypeOK, GenIsOwners, RequestsAreNamed, RecordIsCurrent, Acquired, At, Interrupted, Publishing, Releasing, Contending
<1> QED BY <1>t, <1>l, <1>g, <1>r, <1>n DEF IndInv


LEMMA UnpublishKeeps == ASSUME IndInv, NEW p \in Watchers, Unpublish(p) PROVE IndInv'
<1>t. TakeoverTypeOK'
  BY TakeoverAssumption DEF IndInv, TakeoverTypeOK, GenIsOwners, RecordIsCurrent, Unpublish, At, Goto, NoRecord, Publishing, Releasing, Contending, Ends
<1>l. LockIsHeld'
  BY TakeoverAssumption DEF IndInv, TakeoverTypeOK, LockIsHeld, Unpublish, At, Goto, NoRecord, Publishing, Releasing, Contending, Owning
<1>g. GenIsOwners'
  BY TakeoverAssumption DEF IndInv, TakeoverTypeOK, GenIsOwners, Unpublish, At, Goto, NoRecord, Publishing, Releasing, Contending
<1>r. RecordIsCurrent'
  BY TakeoverAssumption DEF IndInv, TakeoverTypeOK, LockIsHeld, GenIsOwners, RecordIsCurrent, Unpublish, At, Goto, NoRecord, Publishing, Releasing, Contending, Owning
<1>n. RequestsAreNamed'
  BY TakeoverAssumption DEF IndInv, TakeoverTypeOK, GenIsOwners, RequestsAreNamed, RecordIsCurrent, Unpublish, At, Goto, NoRecord, Publishing, Releasing, Contending
<1> QED BY <1>t, <1>l, <1>g, <1>r, <1>n DEF IndInv


LEMMA CloseEndpointKeeps == ASSUME IndInv, NEW p \in Watchers, CloseEndpoint(p) PROVE IndInv'
<1>t. TakeoverTypeOK'
  BY TakeoverAssumption DEF IndInv, TakeoverTypeOK, GenIsOwners, RecordIsCurrent, CloseEndpoint, At, Publishing, Releasing, Contending, Ends
<1>l. LockIsHeld'
  BY TakeoverAssumption DEF IndInv, TakeoverTypeOK, LockIsHeld, CloseEndpoint, At, Publishing, Releasing, Contending, Owning
<1>g. GenIsOwners'
  BY TakeoverAssumption DEF IndInv, TakeoverTypeOK, GenIsOwners, CloseEndpoint, At, Publishing, Releasing, Contending
<1>r. RecordIsCurrent'
  BY TakeoverAssumption DEF IndInv, TakeoverTypeOK, LockIsHeld, GenIsOwners, RecordIsCurrent, CloseEndpoint, At, Publishing, Releasing, Contending, Owning
<1>n. RequestsAreNamed'
  BY TakeoverAssumption DEF IndInv, TakeoverTypeOK, GenIsOwners, RequestsAreNamed, RecordIsCurrent, CloseEndpoint, At, Publishing, Releasing, Contending
<1> QED BY <1>t, <1>l, <1>g, <1>r, <1>n DEF IndInv


LEMMA DrainAndUnlockKeeps == ASSUME IndInv, NEW p \in Watchers, DrainAndUnlock(p) PROVE IndInv'
<1>t. TakeoverTypeOK'
  BY TakeoverAssumption DEF IndInv, TakeoverTypeOK, GenIsOwners, RecordIsCurrent, DrainAndUnlock, At, Unlock, Exit, Off, Publishing, Releasing, Contending, Ends
<1>l. LockIsHeld'
  BY TakeoverAssumption DEF IndInv, TakeoverTypeOK, LockIsHeld, DrainAndUnlock, At, Unlock, Exit, Off, Publishing, Releasing, Contending, Owning
<1>g. GenIsOwners'
  BY TakeoverAssumption DEF IndInv, TakeoverTypeOK, GenIsOwners, DrainAndUnlock, At, Unlock, Exit, Off, Publishing, Releasing, Contending
<1>r. RecordIsCurrent'
  BY TakeoverAssumption DEF IndInv, TakeoverTypeOK, LockIsHeld, GenIsOwners, RecordIsCurrent, DrainAndUnlock, At, Unlock, Exit, Off, Publishing, Releasing, Contending, Owning
<1>n. RequestsAreNamed'
  BY TakeoverAssumption DEF IndInv, TakeoverTypeOK, GenIsOwners, RequestsAreNamed, RecordIsCurrent, DrainAndUnlock, At, Unlock, Exit, Off, Publishing, Releasing, Contending
<1> QED BY <1>t, <1>l, <1>g, <1>r, <1>n DEF IndInv


LEMMA GiveUpKeeps == ASSUME IndInv, NEW p \in Watchers, GiveUp(p) PROVE IndInv'
BY ExitKeeps DEF GiveUp, At


LEMMA SignalKeeps == ASSUME IndInv, NEW p \in Watchers, Signal(p) PROVE IndInv'
<1>t. TakeoverTypeOK'
  <2>w. w \in [Watchers -> Watcher] /\ w[p] \in Watcher
    BY DEF IndInv, TakeoverTypeOK, Watcher
  <2>r. w'[p] \in Watcher
    BY <2>w, TakeoverAssumption DEF Signal, At, Watcher, Publishing, Releasing, Contending, Ends, IndInv, TakeoverTypeOK
  <2>q. \A q \in Watchers \ {p} : w'[q] = w[q]
    BY <2>w DEF Signal, At
  <2>d. w' \in [Watchers -> Watcher]
    BY <2>w, <2>r, <2>q DEF Signal, At
  <2> QED
    BY <2>d DEF IndInv, TakeoverTypeOK, Signal, At, Watcher
<1>l. LockIsHeld'
  BY TakeoverAssumption DEF IndInv, TakeoverTypeOK, LockIsHeld, Signal, At, Publishing, Releasing, Contending, Owning
<1>g. GenIsOwners'
  BY TakeoverAssumption DEF IndInv, TakeoverTypeOK, GenIsOwners, Signal, At, Publishing, Releasing, Contending
<1>r. RecordIsCurrent'
  BY TakeoverAssumption DEF IndInv, TakeoverTypeOK, LockIsHeld, GenIsOwners, RecordIsCurrent, Signal, At, Publishing, Releasing, Contending, Owning
<1>n. RequestsAreNamed'
  BY TakeoverAssumption DEF IndInv, TakeoverTypeOK, GenIsOwners, RequestsAreNamed, RecordIsCurrent, Signal, At, Publishing, Releasing, Contending
<1> QED BY <1>t, <1>l, <1>g, <1>r, <1>n DEF IndInv


LEMMA CancelKeeps == ASSUME IndInv, NEW p \in Watchers, Cancel(p) PROVE IndInv'
<1>t. TakeoverTypeOK'
  <2>w. w \in [Watchers -> Watcher] /\ w[p] \in Watcher
    BY DEF IndInv, TakeoverTypeOK, Watcher
  <2>r. w'[p] \in Watcher
    BY <2>w, TakeoverAssumption DEF Cancel, At, Watcher, Publishing, Releasing, Contending, Ends, IndInv, TakeoverTypeOK
  <2>q. \A q \in Watchers \ {p} : w'[q] = w[q]
    BY <2>w DEF Cancel, At
  <2>d. w' \in [Watchers -> Watcher]
    BY <2>w, <2>r, <2>q DEF Cancel, At
  <2> QED
    BY <2>d DEF IndInv, TakeoverTypeOK, Cancel, At, Watcher
<1>l. LockIsHeld'
  BY TakeoverAssumption DEF IndInv, TakeoverTypeOK, LockIsHeld, Cancel, At, Publishing, Releasing, Contending, Owning
<1>g. GenIsOwners'
  BY TakeoverAssumption DEF IndInv, TakeoverTypeOK, GenIsOwners, Cancel, At, Publishing, Releasing, Contending
<1>r. RecordIsCurrent'
  BY TakeoverAssumption DEF IndInv, TakeoverTypeOK, LockIsHeld, GenIsOwners, RecordIsCurrent, Cancel, At, Publishing, Releasing, Contending, Owning
<1>n. RequestsAreNamed'
  BY TakeoverAssumption DEF IndInv, TakeoverTypeOK, GenIsOwners, RequestsAreNamed, RecordIsCurrent, Cancel, At, Publishing, Releasing, Contending
<1> QED BY <1>t, <1>l, <1>g, <1>r, <1>n DEF IndInv


LEMMA FinishKeeps == ASSUME IndInv, NEW p \in Watchers, Finish(p) PROVE IndInv'
<1>t. TakeoverTypeOK'
  <2>w. w \in [Watchers -> Watcher] /\ w[p] \in Watcher
    BY DEF IndInv, TakeoverTypeOK, Watcher
  <2>r. w'[p] \in Watcher
    BY <2>w, TakeoverAssumption DEF Finish, At, Watcher, Publishing, Releasing, Contending, Ends, IndInv, TakeoverTypeOK
  <2>q. \A q \in Watchers \ {p} : w'[q] = w[q]
    BY <2>w DEF Finish, At
  <2>d. w' \in [Watchers -> Watcher]
    BY <2>w, <2>r, <2>q DEF Finish, At
  <2> QED
    BY <2>d DEF IndInv, TakeoverTypeOK, Finish, At, Watcher
<1>l. LockIsHeld'
  BY TakeoverAssumption DEF IndInv, TakeoverTypeOK, LockIsHeld, Finish, At, Publishing, Releasing, Contending, Owning
<1>g. GenIsOwners'
  BY TakeoverAssumption DEF IndInv, TakeoverTypeOK, GenIsOwners, Finish, At, Publishing, Releasing, Contending
<1>r. RecordIsCurrent'
  BY TakeoverAssumption DEF IndInv, TakeoverTypeOK, LockIsHeld, GenIsOwners, RecordIsCurrent, Finish, At, Publishing, Releasing, Contending, Owning
<1>n. RequestsAreNamed'
  BY TakeoverAssumption DEF IndInv, TakeoverTypeOK, GenIsOwners, RequestsAreNamed, RecordIsCurrent, Finish, At, Publishing, Releasing, Contending
<1> QED BY <1>t, <1>l, <1>g, <1>r, <1>n DEF IndInv


LEMMA CrashKeeps == ASSUME IndInv, NEW p \in Watchers, Crash(p) PROVE IndInv'
<1>w. w \in [Watchers -> Watcher]
  BY DEF IndInv, TakeoverTypeOK, Watcher
<1>p. w'[p] = Off
  BY <1>w DEF Crash, Reset
<1>q. ASSUME NEW q \in Watchers, q # p
      PROVE  /\ w'[q] \in Watcher
             /\ w'[q].gen = w[q].gen /\ w'[q].listening = w[q].listening /\ w'[q].asked = w[q].asked
             /\ w'[q].pc = w[q].pc \/ (w[q].pc \in {"write", "wait"} /\ w'[q].pc = "poll")
             /\ w'[q].target = w[q].target \/ w'[q].pc = "poll"
  <2>1. w[q] \in Watcher
    BY <1>w
  <2>2. w'[q] = IF w[q].pc \in {"write", "wait"} /\ w[q].target = w[p].gen
                THEN [w[q] EXCEPT !.pc = "poll", !.target = 0, !.reply = "none"] ELSE w[q]
    BY <1>w, <1>q DEF Crash, Reset
  <2>3. 0 \in 0..MaxGen
    BY TakeoverAssumption
  <2> QED BY <2>1, <2>2, <2>3 DEF Watcher, Contending
<1>t. TakeoverTypeOK'
  <2>d. w' \in [Watchers -> Watcher]
    <3>1. w' = [q \in Watchers |-> w'[q]]
      BY <1>w DEF Crash, Reset
    <3> QED BY <3>1, <1>p, <1>q, OffRow
  <2> QED BY <2>d DEF IndInv, TakeoverTypeOK, Crash, Watcher
<1>l. LockIsHeld'
  <2>1. LockIsHeld /\ lock \in Watchers \cup {Nobody}
    BY DEF IndInv, TakeoverTypeOK
  <2>2. lock' = IF lock = p THEN Nobody ELSE lock
    BY DEF Crash
  <2>3. ASSUME NEW q \in Watchers PROVE lock' = q <=> w'[q].pc \in Owning
    BY <2>1, <2>2, <1>p, <1>q, OffRow, TakeoverAssumption DEF LockIsHeld, Owning, Publishing, Releasing
  <2> QED BY <2>3 DEF LockIsHeld
<1>g. GenIsOwners'
  <2>1. ASSUME NEW q \in Watchers
        PROVE  /\ w'[q].gen # 0 <=> w'[q].pc \in {"record", "check", "run"} \cup Releasing
               /\ w'[q].listening <=> (w'[q].gen # 0 /\ w'[q].pc # "drain")
    BY <1>p, <1>q, OffRow DEF IndInv, GenIsOwners, Releasing
  <2> QED BY <2>1 DEF GenIsOwners
<1>r. RecordIsCurrent'
  <2>1. record' = record
    BY DEF Crash
  <2>2. ASSUME NEW q \in Watchers, w'[q].pc \in {"listen", "record", "check", "run"}
        PROVE  record.gen \in {0, w'[q].gen}
    BY <2>2, <1>p, <1>q, OffRow DEF IndInv, RecordIsCurrent
  <2> QED BY <2>1, <2>2 DEF IndInv, RecordIsCurrent
<1>n. RequestsAreNamed'
  <2>1. named' = named /\ handlers' \subseteq handlers
    BY DEF Crash
  <2>2. ASSUME NEW q \in Watchers
        PROVE  /\ w'[q].pc \in {"dial", "write", "wait"} => w'[q].target \in named
               /\ w'[q].asked => w'[q].gen \in named
    BY <1>p, <1>q, OffRow DEF IndInv, RequestsAreNamed
  <2> QED BY <2>1, <2>2 DEF IndInv, RequestsAreNamed
<1> QED BY <1>t, <1>l, <1>g, <1>r, <1>n DEF IndInv

LEMMA StartKeeps ==
  ASSUME IndInv, NEW p \in Watchers, NEW takeover \in BOOLEAN, Start(p, takeover) PROVE IndInv'
<1>w. w \in [Watchers -> Watcher]
  BY DEF IndInv, TakeoverTypeOK, Watcher
<1>p. /\ w'[p] \in Watcher
      /\ w'[p].gen = 0 /\ w'[p].pc = "try" /\ ~w'[p].listening /\ ~w'[p].asked
  <2>1. w'[p] = [Off EXCEPT !.pc = "try", !.takeover = takeover]
    BY <1>w DEF Start
  <2> QED BY <2>1, OffRow DEF Watcher
<1>q. \A q \in Watchers \ {p} : w'[q] = w[q]
  BY <1>w DEF Start
<1>u. UNCHANGED <<lock, record, issued, named, handlers>>
  BY DEF Start
<1>t. TakeoverTypeOK'
  <2>d. w' \in [Watchers -> Watcher]
    BY <1>w, <1>p, <1>q DEF Start
  <2> QED BY <2>d, <1>u DEF IndInv, TakeoverTypeOK, Watcher
<1>l. LockIsHeld'
  BY <1>p, <1>q, <1>u DEF IndInv, LockIsHeld, Start, At, Owning, Publishing, Releasing
<1>g. GenIsOwners'
  BY <1>p, <1>q, <1>u DEF IndInv, GenIsOwners, Releasing
<1>r. RecordIsCurrent'
  BY <1>p, <1>q, <1>u DEF IndInv, RecordIsCurrent
<1>n. RequestsAreNamed'
  BY <1>p, <1>q, <1>u DEF IndInv, RequestsAreNamed
<1> QED BY <1>t, <1>l, <1>g, <1>r, <1>n DEF IndInv

(* What a handler does to a row: nothing, the request passed on to the owner *)
(* of the generation, or the reply to the contender that waits for it.       *)
LEMMA HandleKeeps == ASSUME IndInv, NEW h \in handlers, Handle(h) PROVE IndInv'
<1>w. w \in [Watchers -> Watcher]
  BY DEF IndInv, TakeoverTypeOK, Watcher
<1>q. ASSUME NEW q \in Watchers
      PROVE  /\ w'[q] \in Watcher
             /\ w'[q].gen = w[q].gen /\ w'[q].listening = w[q].listening
             /\ w'[q].pc = w[q].pc /\ w'[q].target = w[q].target
             /\ w'[q].asked = w[q].asked \/ w[q].gen = h.gen
  <2>1. w'[q] \in {w[q], [w[q] EXCEPT !.asked = TRUE], [w[q] EXCEPT !.reply = "ok"]}
    BY DEF Handle
  <2>2. w'[q] = [w[q] EXCEPT !.asked = TRUE] => w[q].gen = h.gen \/ w'[q].asked = w[q].asked
    BY <1>w DEF Handle, Watcher
  <2>3. w[q] \in Watcher
    BY <1>w
  <2> QED BY <2>1, <2>2, <2>3 DEF Watcher
<1>u. UNCHANGED <<lock, record, issued, named>> /\ handlers' \subseteq handlers
  BY DEF Handle
<1>t. TakeoverTypeOK'
  <2>d. w' \in [Watchers -> Watcher]
    <3>1. w' = [q \in Watchers |-> w'[q]]
      BY DEF Handle
    <3> QED BY <3>1, <1>q
  <2> QED BY <2>d, <1>u DEF IndInv, TakeoverTypeOK, Watcher
<1>l. LockIsHeld'
  BY <1>q, <1>u DEF IndInv, LockIsHeld
<1>g. GenIsOwners'
  BY <1>q, <1>u DEF IndInv, GenIsOwners
<1>r. RecordIsCurrent'
  BY <1>q, <1>u DEF IndInv, RecordIsCurrent
<1>n. RequestsAreNamed'
  <2>1. h.gen \in named
    BY DEF IndInv, RequestsAreNamed
  <2>2. ASSUME NEW q \in Watchers
        PROVE  /\ w'[q].pc \in {"dial", "write", "wait"} => w'[q].target \in named
               /\ w'[q].asked => w'[q].gen \in named
    BY <1>q, <2>1 DEF IndInv, RequestsAreNamed
  <2> QED BY <2>2, <1>u DEF IndInv, RequestsAreNamed
<1> QED BY <1>t, <1>l, <1>g, <1>r, <1>n DEF IndInv

LEMMA HandlerDeadlineKeeps == ASSUME IndInv, NEW h \in handlers, HandlerDeadline(h) PROVE IndInv'
BY DEF IndInv, TakeoverTypeOK, LockIsHeld, GenIsOwners, RecordIsCurrent, RequestsAreNamed, HandlerDeadline

LEMMA StepKeepsInv == IndInv /\ [TakeoverNext]_takeoverVars => IndInv'
<1> SUFFICES ASSUME IndInv, [TakeoverNext]_takeoverVars PROVE IndInv'
  OBVIOUS
<1>1. ASSUME NEW p \in Watchers, NEW takeover \in BOOLEAN, Start(p, takeover) PROVE IndInv'
  BY <1>1, StartKeeps
<1>2. ASSUME NEW p \in Watchers, Contend(p) PROVE IndInv'
  BY <1>2, TryLockKeeps, ReadRecordKeeps, DialKeeps, WriteLineKeeps, ReadReplyKeeps, PollKeeps DEF Contend
<1>3. ASSUME NEW p \in Watchers, Publish(p) PROVE IndInv'
  BY <1>3, ClearRecordKeeps, ListenKeeps, ListenFailsKeeps, PublishRecordKeeps, AcquiredKeeps DEF Publish
<1>4. ASSUME NEW p \in Watchers, Release(p) PROVE IndInv'
  BY <1>4, UnpublishKeeps, CloseEndpointKeeps, DrainAndUnlockKeeps DEF Release
<1>5. ASSUME NEW p \in Watchers, GiveUp(p) \/ Signal(p) \/ Cancel(p) \/ Finish(p) \/ Crash(p) PROVE IndInv'
  BY <1>5, GiveUpKeeps, SignalKeeps, CancelKeeps, FinishKeeps, CrashKeeps
<1>6. ASSUME Serve PROVE IndInv'
  BY <1>6, HandleKeeps, HandlerDeadlineKeeps DEF Serve
<1>7. CASE UNCHANGED takeoverVars
  BY <1>7 DEF takeoverVars, IndInv, TakeoverTypeOK, LockIsHeld, GenIsOwners, RecordIsCurrent, RequestsAreNamed
<1> QED BY <1>1, <1>2, <1>3, <1>4, <1>5, <1>6, <1>7 DEF TakeoverNext

(* The named conjuncts together say that a generation is had by the holder   *)
(* of the lock alone, which is what the record needs.                        *)
LEMMA InvGivesTakeoverInv == IndInv => TakeoverInv
<1> SUFFICES ASSUME IndInv PROVE TakeoverInv
  OBVIOUS
<1>1. RecordIsOwners
  <2>1. ASSUME NEW p \in Watchers, w[p].gen # 0, w[p].pc # "drain"
        PROVE  lock = p /\ w[p].listening
    BY <2>1 DEF IndInv, LockIsHeld, GenIsOwners, Owning, Publishing
  <2> QED BY <2>1 DEF IndInv, RecordIsCurrent, RecordIsOwners
<1>2. OnlyTheNamedIsAsked
  BY DEF IndInv, RequestsAreNamed, OnlyTheNamedIsAsked
<1> QED BY <1>1, <1>2 DEF IndInv, TakeoverInv

LEMMA IndInvAlways == TakeoverSpec => []IndInv
<1>1. TakeoverInit => IndInv
  BY InitKeepsInv
<1>2. IndInv /\ [TakeoverNext]_takeoverVars => IndInv'
  BY StepKeepsInv
<1> QED BY <1>1, <1>2, PTL DEF TakeoverSpec

(* A watcher that takes over reaches the incumbent it read about or nobody   *)
(* (ownership.go, owner_record.go), for any number of watchers and however   *)
(* often they come, crash and leave their files behind.                      *)
THEOREM TakeoverInvAlways == TakeoverSpec => []TakeoverInv
<1>1. IndInv => TakeoverInv
  BY InvGivesTakeoverInv
<1> QED BY IndInvAlways, <1>1, PTL

-----------------------------------------------------------------------------
(* The ownership of HandOwner, step by step: taking the lock is Own, a       *)
(* request handled for the owner is Ask, whatever gives the lock back is     *)
(* Leave, and every other step leaves owner and request alone.               *)

LEMMA OwnerStutters ==
  ASSUME lock' = lock, \A p \in Watchers : lock = p => w'[p].asked = w[p].asked,
         lock \in Watchers \cup {Nobody}
  PROVE  UNCHANGED Owner!ownerVars
<1>1. CASE lock = Nobody
  BY <1>1 DEF Owner!ownerVars
<1>2. CASE lock \in Watchers
  <2>1. w'[lock'].asked = w[lock].asked
    BY <1>2
  <2> QED BY <2>1 DEF Owner!ownerVars
<1> QED BY <1>1, <1>2

LEMMA OwnerTakes ==
  ASSUME IndInv, NEW p \in Watchers, TakeLock(p)
  PROVE  Owner!OwnerNext
<1>1. w'[p].asked = FALSE
  BY DEF TakeLock, IndInv, TakeoverTypeOK, Off
<1>2. lock = Nobody /\ lock' = p
  BY DEF TakeLock
<1>3. Owner!Own(p)
  BY <1>1, <1>2 DEF Owner!Own
<1> QED BY <1>3 DEF Owner!OwnerNext

LEMMA OwnerLeaves ==
  ASSUME lock \in Watchers, lock' = Nobody
  PROVE  Owner!OwnerNext
<1>1. Owner!Leave
  BY TakeoverAssumption DEF Owner!Leave
<1> QED BY <1>1 DEF Owner!OwnerNext

LEMMA OwnerSteps ==
  IndInv /\ [TakeoverNext]_takeoverVars => [Owner!OwnerNext]_(Owner!ownerVars)
<1> SUFFICES ASSUME IndInv, [TakeoverNext]_takeoverVars
             PROVE  Owner!OwnerNext \/ UNCHANGED Owner!ownerVars
  OBVIOUS
<1>t. lock \in Watchers \cup {Nobody} /\ w \in [Watchers -> Watcher]
  BY DEF IndInv, TakeoverTypeOK, Watcher
<1>q. ASSUME NEW p \in Watchers,
             \/ \E takeover \in BOOLEAN : Start(p, takeover)
             \/ ReadRecord(p) \/ Dial(p) \/ WriteLine(p) \/ ReadReply(p) \/ GiveUp(p)
             \/ Listen(p) \/ PublishRecord(p) \/ Acquired(p)
             \/ Unpublish(p) \/ CloseEndpoint(p) \/ Signal(p) \/ Cancel(p) \/ Finish(p)
      PROVE  UNCHANGED Owner!ownerVars
  <2>1. lock' = lock
    BY <1>q DEF Start, ReadRecord, Dial, WriteLine, ReadReply, GiveUp, Listen, PublishRecord, Acquired,
       Unpublish, CloseEndpoint, Signal, Cancel, Finish
  <2>2. \A q \in Watchers \ {p} : w'[q] = w[q]
    BY <1>q, <1>t DEF Start, ReadRecord, Dial, WriteLine, ReadReply, GiveUp, Listen, PublishRecord, Acquired,
       Unpublish, CloseEndpoint, Signal, Cancel, Finish, Goto, Exit
  <2>3. lock = p => w'[p].asked = w[p].asked
    <3>1. CASE \/ \E takeover \in BOOLEAN : Start(p, takeover)
               \/ GiveUp(p)
      BY <3>1 DEF IndInv, LockIsHeld, Owning, Publishing, Releasing, Start, GiveUp, At
    <3>2. CASE \/ ReadRecord(p) \/ Dial(p) \/ WriteLine(p) \/ ReadReply(p)
               \/ Listen(p) \/ PublishRecord(p) \/ Acquired(p)
               \/ Unpublish(p) \/ CloseEndpoint(p) \/ Signal(p) \/ Cancel(p) \/ Finish(p)
      BY <3>2, <1>t DEF Watcher, ReadRecord, Dial, WriteLine, ReadReply, Listen, PublishRecord, Acquired,
         Unpublish, CloseEndpoint, Signal, Cancel, Finish, Goto
    <3> QED BY <1>q, <3>1, <3>2
  <2> QED BY <1>t, <2>1, <2>2, <2>3, OwnerStutters
<1>x. ASSUME NEW p \in Watchers, w[p].pc \in {"try", "poll"},
             \/ TakeLock(p)
             \/ lock' = lock /\ (Goto(p, "read") \/ Exit(p))
      PROVE  Owner!OwnerNext \/ UNCHANGED Owner!ownerVars
  <2>1. lock # p
    BY <1>x DEF IndInv, LockIsHeld, Owning, Publishing, Releasing
  <2>2. CASE lock' = lock /\ (Goto(p, "read") \/ Exit(p))
    <3>1. \A q \in Watchers \ {p} : w'[q] = w[q]
      BY <2>2, <1>t DEF Goto, Exit
    <3> QED BY <1>t, <2>1, <2>2, <3>1, OwnerStutters
  <2> QED BY <1>x, <2>2, OwnerTakes
<1>u. ASSUME NEW p \in Watchers, w[p].pc \in Owning, Unlock(p)
      PROVE  Owner!OwnerNext
  BY <1>u, OwnerLeaves DEF Unlock, IndInv, LockIsHeld
<1>1. ASSUME NEW p \in Watchers, TryLock(p) \/ Poll(p)
      PROVE  Owner!OwnerNext \/ UNCHANGED Owner!ownerVars
  BY <1>1, <1>x DEF TryLock, Poll, At
<1>2. ASSUME NEW p \in Watchers, ClearRecord(p)
      PROVE  Owner!OwnerNext \/ UNCHANGED Owner!ownerVars
  <2>1. CASE lock' = lock /\ Goto(p, "listen")
    <3>1. \A q \in Watchers : w'[q].asked = w[q].asked
      BY <2>1, <1>t DEF Goto, Watcher
    <3> QED BY <1>t, <2>1, <3>1, OwnerStutters
  <2> QED BY <1>2, <2>1, <1>u DEF ClearRecord, At, Owning, Publishing
<1>3. ASSUME NEW p \in Watchers, ListenFails(p) \/ DrainAndUnlock(p)
      PROVE  Owner!OwnerNext
  BY <1>3, <1>u DEF ListenFails, DrainAndUnlock, At, Owning, Publishing, Releasing
<1>4. ASSUME NEW p \in Watchers, Crash(p)
      PROVE  Owner!OwnerNext \/ UNCHANGED Owner!ownerVars
  <2>1. CASE lock = p
    BY <1>4, <2>1, OwnerLeaves DEF Crash
  <2>2. CASE lock # p
    <3>1. \A q \in Watchers \ {p} : w'[q].asked = w[q].asked
      BY <1>4, <1>t DEF Crash, Reset, Watcher
    <3>2. lock' = lock
      BY <1>4, <2>2 DEF Crash
    <3> QED BY <1>t, <2>2, <3>1, <3>2, OwnerStutters
  <2> QED BY <2>1, <2>2
<1>5. ASSUME NEW h \in handlers, Handle(h)
      PROVE  Owner!OwnerNext \/ UNCHANGED Owner!ownerVars
  <2>1. lock' = lock
    BY <1>5 DEF Handle
  <2>2. CASE lock \in Watchers /\ w[lock].gen = h.gen
    <3>1. w'[lock].asked = TRUE
      BY <1>5, <1>t, <2>2 DEF Handle, Watcher
    <3>2. lock # Nobody
      BY <2>2, TakeoverAssumption
    <3>3. Owner!Ask
      BY <2>1, <3>1, <3>2 DEF Owner!Ask
    <3> QED BY <3>3 DEF Owner!OwnerNext
  <2>3. CASE ~(lock \in Watchers /\ w[lock].gen = h.gen)
    <3>1. \A q \in Watchers : w[q].gen # h.gen => w'[q].asked = w[q].asked
      BY <1>5, <1>t DEF Handle, Watcher
    <3> QED BY <1>t, <2>1, <2>3, <3>1, OwnerStutters
  <2> QED BY <2>2, <2>3
<1>6. ASSUME \/ UNCHANGED takeoverVars
             \/ \E h \in handlers : HandlerDeadline(h)
      PROVE  UNCHANGED Owner!ownerVars
  BY <1>6, <1>t, OwnerStutters DEF takeoverVars, HandlerDeadline
<1> QED
  BY <1>q, <1>1, <1>2, <1>3, <1>4, <1>5, <1>6 DEF TakeoverNext, Contend, Publish, Release, Serve

(* At most one watcher owns a home, nobody becomes the owner of a home that  *)
(* has one, and a request is a request of the owner that was asked: every    *)
(* behaviour of lock, record and endpoint is one of HandOwner, step by step  *)
(* (ownership.go:acquireLock, takeover.go:handle).                           *)
THEOREM TakeoverImplementsOwner ==
  TakeoverSpec => Owner!OwnerInit /\ [][Owner!OwnerNext]_(Owner!ownerVars)
<1>1. TakeoverInit => Owner!OwnerInit
  BY DEF TakeoverInit, Owner!OwnerInit
<1>2. IndInv /\ [TakeoverNext]_takeoverVars => [Owner!OwnerNext]_(Owner!ownerVars)
  BY OwnerSteps
<1> QED BY <1>1, <1>2, IndInvAlways, PTL DEF TakeoverSpec

=============================================================================
