----------------------------- MODULE SearchIndex -----------------------------
(* How the requests of niss write an index: SearchController.index of the     *)
(* search library (lib/ref/searcher_8.11.jar) runs a job in the thread of the *)
(* request, under a lock of its own and, from the first write on, the write   *)
(* lock of Lucene's IndexWriter.  The library is modelled as src/ uses it:    *)
(*   - a job waits ten seconds for the lock and then goes on without it; at   *)
(*     its end the unlock throws, and the request fails;                      *)
(*   - an exception of the job is printed, what it did not commit is rolled   *)
(*     back, and the call returns null as if nothing had happened.            *)
EXTENDS Integers, FiniteSets

CONSTANTS
  Indexes,    \* the indexes
  Requests,   \* request threads
  None        \* no thread; no draft

ASSUME NoneIsNoThread == None \notin Requests

VARIABLES
  index,      \* what the last commit of each index holds
  lock,       \* SearchController.locker: who holds the write lock
  writer,     \* whose IndexWriter has the directory
  draft       \* what that IndexWriter would commit

ixvars == <<index, lock, writer, draft>>

IndexTypes(Content) ==
  /\ index \in [Indexes -> Content]
  /\ lock \in [Indexes -> Requests \cup {None}]
  /\ writer \in [Indexes -> Requests \cup {None}]
  /\ draft \in [Indexes -> Content \cup {None}]

IndexInit(content) ==
  /\ index = [i \in Indexes |-> content]
  /\ lock = [i \in Indexes |-> None]
  /\ writer = [i \in Indexes |-> None]
  /\ draft = [i \in Indexes |-> None]

Owns(r, i)     == lock[i] = r
CanWrite(r, i) == writer[i] \in {None, r}

(* The content that the session of r sees of its own. *)
Session(r, i) == IF writer[i] = r THEN draft[i] ELSE index[i]

TakeLock(r, i) ==
  /\ lock[i] = None
  /\ lock' = [lock EXCEPT ![i] = r]
  /\ UNCHANGED <<index, writer, draft>>

(* tryLock(10, SECONDS): its answer is dropped. *)
GiveUpLock(r, i) ==
  /\ lock[i] \notin {None, r}
  /\ UNCHANGED ixvars

(* updateDocument, insertDocument, deleteTerm. *)
Change(r, i, content) ==
  /\ CanWrite(r, i)
  /\ writer' = [writer EXCEPT ![i] = r]
  /\ draft' = [draft EXCEPT ![i] = content]
  /\ UNCHANGED <<index, lock>>

(* ... followed by commit, or continueUnit. *)
ChangeAndCommit(r, i, content) ==
  /\ CanWrite(r, i)
  /\ writer' = [writer EXCEPT ![i] = r]
  /\ draft' = [draft EXCEPT ![i] = content]
  /\ index' = [index EXCEPT ![i] = content]
  /\ UNCHANGED lock

(* Variant: an exception leaves the lock, as without the finally.             *)
LetGoKeepsLock(r, i) ==
  /\ writer' = [writer EXCEPT ![i] = IF @ = r THEN None ELSE @]
  /\ draft' = [draft EXCEPT ![i] = IF writer[i] = r THEN None ELSE @]
  /\ UNCHANGED lock

(* forceClose and unlock. *)
LetGo(r, i) ==
  /\ lock' = [lock EXCEPT ![i] = IF @ = r THEN None ELSE @]
  /\ writer' = [writer EXCEPT ![i] = IF @ = r THEN None ELSE @]
  /\ draft' = [draft EXCEPT ![i] = IF writer[i] = r THEN None ELSE @]

(* The job returned: commit. *)
CloseSession(r, i, content) ==
  /\ CanWrite(r, i)
  /\ index' = [index EXCEPT ![i] = content]
  /\ LetGo(r, i)

(* The job threw: rollback. *)
AbortSession(r, i) == LetGo(r, i) /\ UNCHANGED index

(* The controller is closed: the lock is that of the next one, the writer of a *)
(* closed directory can commit nothing.                                       *)
CloseController(i) ==
  /\ lock' = [lock EXCEPT ![i] = None]
  /\ writer' = [writer EXCEPT ![i] = None]
  /\ draft' = [draft EXCEPT ![i] = None]
  /\ UNCHANGED index

(* The process dies: the locks go with it, the commits stay. *)
IndexCrash ==
  /\ lock' = [i \in Indexes |-> None]
  /\ writer' = [i \in Indexes |-> None]
  /\ draft' = [i \in Indexes |-> None]
  /\ UNCHANGED index
==============================================================================
