------------------------------ MODULE HandIndex ------------------------------
(***************************************************************************)
(* hand search: every query first brings state/index.db up to date with    *)
(* the prose under data/, which agents and supervisors write meanwhile,    *)
(* and other queries do the same at the same time.                         *)
(*                                                                         *)
(* A file's text is the number of its last write, and so is its size and   *)
(* modification time, which tell two writes apart.                         *)
(***************************************************************************)
EXTENDS Naturals, FiniteSets

CONSTANTS
    Searches,   \* processes that search or rebuild
    Docs,       \* paths under data/
    MaxWrites,
    MaxRebuilds

IndexAssumption == MaxWrites \in Nat /\ MaxRebuilds \in Nat

VARIABLES
    corpus,     \* corpus[d]: the file's last write, 0 is no file
    index,      \* index[n][d]: the rows for d in doc and doc_fts of the n-th index.db
    live,       \* the index.db that the path names; an open one outlives its path
    search,     \* search[p]: where the command is, and its local variables
    writes

indexVars == <<corpus, index, live, search, writes>>

Indexes == 1..(MaxRebuilds + 1)

NoDoc == [stamp |-> 0, text |-> 0]
Idle  == [pc |-> "idle", of |-> 0, rebuild |-> FALSE, found |-> [d \in Docs |-> 0], todo |-> {}, gone |-> {}, doc |-> NoDoc]

IndexInit ==
    /\ corpus = [d \in Docs |-> 0]
    /\ index = [n \in Indexes |-> [d \in Docs |-> NoDoc]]
    /\ live = 1
    /\ search = [p \in Searches |-> Idle]
    /\ writes = 0

-----------------------------------------------------------------------------
Is(p, pc)   == search[p].pc = pc
SearchOnly  == UNCHANGED <<corpus, index, live, writes>>
Rows(p)     == index[search[p].of]

Write ==
    /\ writes < MaxWrites /\ writes' = writes + 1
    /\ \E d \in Docs :
         \/ corpus' = [corpus EXCEPT ![d] = writes + 1]
         \/ corpus[d] # 0 /\ corpus' = [corpus EXCEPT ![d] = 0]
    /\ UNCHANGED <<index, live, search>>

(* Rebuild: the index is removed and derived anew.                           *)
Rebuild(p) ==
    /\ Is(p, "idle") /\ live < MaxRebuilds + 1
    /\ live' = live + 1
    /\ search' = [search EXCEPT ![p].pc = "scan", ![p].of = live + 1, ![p].rebuild = TRUE]
    /\ UNCHANGED <<corpus, index, writes>>

OpenIndex(p) ==
    /\ Is(p, "idle")
    /\ search' = [search EXCEPT ![p].pc = "scan", ![p].of = live]
    /\ SearchOnly

(* scanCorpus.                                                               *)
Scan(p) ==
    /\ Is(p, "scan")
    /\ search' = [search EXCEPT ![p].found = corpus, ![p].pc = "known"]
    /\ SearchOnly

(* Refresh, what the index knows: the files that differ from it are indexed, *)
(* the ones that were not found are dropped.                                 *)
Known(p) ==
    /\ Is(p, "known")
    /\ search' = [search EXCEPT
         ![p].todo = {d \in Docs : search[p].found[d] \notin {0, Rows(p)[d].stamp}},
         ![p].gone = {d \in Docs : search[p].found[d] = 0 /\ Rows(p)[d] # NoDoc},
         ![p].pc = "refresh"]
    /\ SearchOnly

(* indexFile reads the file as it is now, with the stamp of the scan; one    *)
(* that is gone by now fails the command.                                    *)
ReadFile(p) ==
    /\ Is(p, "refresh")
    /\ \E d \in search[p].todo :
         IF corpus[d] = 0
         THEN search' = [search EXCEPT ![p] = Idle]
         ELSE search' = [search EXCEPT
                ![p].pc = "index", ![p].todo = @ \ {d},
                ![p].doc = [path |-> d, stamp |-> search[p].found[d], text |-> corpus[d]]]
    /\ SearchOnly

(* Mutant: the row is stamped with what the file is when it is written.      *)
IndexFileLate(p) ==
    LET doc == search[p].doc IN
    /\ Is(p, "index")
    /\ index' = [index EXCEPT ![search[p].of][doc.path] = [stamp |-> corpus[doc.path], text |-> doc.text]]
    /\ search' = [search EXCEPT ![p].pc = "refresh", ![p].doc = NoDoc]
    /\ UNCHANGED <<corpus, live, writes>>

(* One transaction for both rows.                                            *)
IndexFile(p) ==
    LET doc == search[p].doc IN
    /\ Is(p, "index")
    /\ index' = [index EXCEPT ![search[p].of][doc.path] = [stamp |-> doc.stamp, text |-> doc.text]]
    /\ search' = [search EXCEPT ![p].pc = "refresh", ![p].doc = NoDoc]
    /\ UNCHANGED <<corpus, live, writes>>

DeleteDoc(p) ==
    /\ Is(p, "refresh") /\ search[p].todo = {}
    /\ \E d \in search[p].gone :
         /\ index' = [index EXCEPT ![search[p].of][d] = NoDoc]
         /\ search' = [search EXCEPT ![p].gone = @ \ {d}]
    /\ UNCHANGED <<corpus, live, writes>>

Refreshed(p) == Is(p, "refresh") /\ search[p].todo = {} /\ search[p].gone = {}

(* A rebuild closes what it derived; the query opens what is there by then.  *)
Reopen(p) ==
    /\ Refreshed(p) /\ search[p].rebuild
    /\ search' = [search EXCEPT ![p].of = live, ![p].rebuild = FALSE]
    /\ SearchOnly

(* Search: the answer is the index.                                          *)
Answer(p) ==
    /\ Refreshed(p) /\ ~search[p].rebuild
    /\ search' = [search EXCEPT ![p] = Idle]
    /\ SearchOnly

Crash(p) ==
    /\ ~Is(p, "idle")
    /\ search' = [search EXCEPT ![p] = Idle]
    /\ SearchOnly

IndexNext ==
    \/ Write
    \/ \E p \in Searches :
          \/ Rebuild(p) \/ OpenIndex(p) \/ Scan(p) \/ Known(p) \/ ReadFile(p)
          \/ IndexFile(p) \/ DeleteDoc(p) \/ Reopen(p) \/ Answer(p) \/ Crash(p)

IndexSpec == IndexInit /\ [][IndexNext]_indexVars

-----------------------------------------------------------------------------
(* No row hides a file (index.go:146): one whose stamp says that the file is *)
(* indexed has the file's text, although the file may be written between the *)
(* scan and the read and a slower query may write the row last; whatever     *)
(* else is wrong with the index, the next query sees and repairs.            *)
StampMeansText ==
    \A n \in Indexes, d \in Docs :
        index[n][d].stamp # 0 /\ index[n][d].stamp = corpus[d] => index[n][d].text = corpus[d]

(* What index.go:88 says: a query never answers from an index that the       *)
(* corpus has left behind; every file that is as the query found it is in    *)
(* its answer.                                                               *)
AnswersFromTheCorpus ==
    [][\A p \in Searches : Is(p, "refresh") /\ Answer(p) =>
          \A d \in Docs : search[p].found[d] # 0 /\ corpus[d] = search[p].found[d]
                            => Rows(p)[d].text = corpus[d]]_indexVars

=============================================================================
