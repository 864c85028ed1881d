----------------------------- MODULE PopularQuery -----------------------------
(* webapp/searchers/PopularQueryEntry.java and the requests of SearcherWeb   *)
(* that read and edit a searcher's popular queries.                          *)
(*                                                                           *)
(* A view asks a Guava cache.  The first view of a searcher loads it: it     *)
(* reads the stored template and the stored text, hands a task to a pool,    *)
(* and takes the stored text, or waits for the task when there is none.  The *)
(* task renders the template the load read, stores the text and puts it into *)
(* the cache, all under the write lock.  An edit stores a new template and   *)
(* then invalidates the cache.                                               *)
(*                                                                           *)
(* A template is its version, 0 the default one; a text is the version it    *)
(* renders, or Failed, the text of an exception.                             *)
EXTENDS Naturals

CONSTANTS
  Sids,      \* searcher ids
  Requests,  \* request threads
  Slots,     \* bound: tasks that are in the pool at once
  MaxEdits,  \* bound: edits of templates
  Broken,    \* versions the template engine rejects
  Blank,     \* no stored text
  Failed     \* the text of a task that ended in an exception

ASSUME MaxEditsIsNat == MaxEdits \in Nat
Versions == 0..MaxEdits
ASSUME DefaultRenders == 0 \notin Broken
ASSUME TextsDistinct == Blank \notin Versions /\ Failed \notin Versions /\ Blank # Failed
ASSUME FreeIsNoSid == "none" \notin Sids

VARIABLES
  tmpl,    \* /searchers/{sid}/popularquery, property template
  stored,  \* the same node, property transformed
  edits,   \* the last version that was handed out
  cache,   \* scache
  req,     \* what each request thread is doing
  task     \* the tasks of the pool

vars == <<tmpl, stored, edits, cache, req, task>>
node == <<tmpl, stored, edits>>

Texts == Versions \cup {Failed}

NoEntry       == [is |-> "none"]
Loading(r)    == [is |-> "loading", by |-> r]
Held(t, put)  == [is |-> "held", text |-> t, put |-> put]
Entries == {NoEntry} \cup {Loading(r) : r \in Requests}
           \cup {Held(t, put) : t \in Texts, put \in BOOLEAN}

(* load: loading, nothing read yet; await: in future.get(); store: about to  *)
(* hand its text to the cache; wait: another thread loads; invalidate: the   *)
(* edit is committed.                                                        *)
IdleReq == [at |-> "idle", sid |-> "none", text |-> Blank, slot |-> "none"]
Reqs == {IdleReq}
  \cup [at : {"load", "wait", "invalidate"}, sid : Sids, text : {Blank}, slot : {"none"}]
  \cup [at : {"await"}, sid : Sids, text : {Blank}, slot : Slots]
  \cup [at : {"store"}, sid : Sids, text : Texts, slot : {"none"}]
Req(at, s) == [at |-> at, sid |-> s, text |-> Blank, slot |-> "none"]

(* merged: the text is in the store; put: it is in the cache as well; both   *)
(* with the write lock held.  failed, rendered: over, with a waiting load.   *)
FreeTask == [at |-> "free", sid |-> "none", tmpl |-> 0, awaited |-> FALSE]
Tasks == {FreeTask}
  \cup [at : {"queued", "merged", "put", "failed", "rendered"}, sid : Sids,
        tmpl : Versions, awaited : BOOLEAN]

TypeOK ==
  /\ tmpl \in [Sids -> Versions]
  /\ stored \in [Sids -> Versions \cup {Blank}]
  /\ edits \in Versions
  /\ cache \in [Sids -> Entries]
  /\ req \in [Requests -> Reqs]
  /\ task \in [Slots -> Tasks]

Init ==
  /\ tmpl = [s \in Sids |-> 0]
  /\ stored = [s \in Sids |-> Blank]
  /\ edits = 0
  /\ cache = [s \in Sids |-> NoEntry]
  /\ req = [r \in Requests |-> IdleReq]
  /\ task = [k \in Slots |-> FreeTask]

(* Variant: the transaction ends with the merge, the put comes after it. *)
LockUntilMerge == TRUE

(* The write lock of the workspace. *)
LockFree == \A k \in Slots : task[k].at \notin {"merged", "put"}
------------------------------------------------------------------------------
(* The cache (library): how LocalCache answers get, put and invalidate.      *)

(* Variant: only the thread that loads is told. *)
WokenNone(s) == req

(* Requests that wait for the entry of s get its value. *)
Woken(s) == [q \in Requests |-> IF req[q].at = "wait" /\ req[q].sid = s THEN IdleReq ELSE req[q]]

(* Variant: the loaded text always goes in. *)
StoreAlways(s, text) == cache' = [cache EXCEPT ![s] = Held(text, FALSE)]

(* storeLoadedValue: a value that was put while the load ran stays.          *)
StoreLoaded(s, text) ==
  IF cache[s].is = "held" THEN UNCHANGED cache
  ELSE cache' = [cache EXCEPT ![s] = Held(text, FALSE)]

(* invalidate: an entry that is being loaded is left alone. *)
Drop(s) ==
  IF cache[s].is = "held" THEN cache' = [cache EXCEPT ![s] = NoEntry]
  ELSE UNCHANGED cache

(* expireAfterWrite *)
Expire(s) ==
  /\ cache[s].is = "held" /\ Drop(s)
  /\ UNCHANGED <<node, req, task>>
------------------------------------------------------------------------------
(* viewPopularQuery; a view of a held entry changes nothing.                 *)

View(r, s) ==
  /\ req[r] = IdleReq
  /\ \/ /\ cache[s].is = "none"
        /\ cache' = [cache EXCEPT ![s] = Loading(r)]
        /\ req' = [req EXCEPT ![r] = Req("load", s)]
     \/ /\ cache[s].is = "loading"
        /\ req' = [req EXCEPT ![r] = Req("wait", s)]
        /\ UNCHANGED cache
  /\ UNCHANGED <<node, task>>

(* Variant: a load that finds a text does not renew it. *)
LoadStoredOnly(r) ==
  LET s == req[r].sid
  IN /\ req[r].at = "load"
     /\ \/ /\ stored[s] # Blank
           /\ req' = [req EXCEPT ![r] = [Req("store", s) EXCEPT !.text = stored[s]]]
           /\ UNCHANGED task
        \/ /\ stored[s] = Blank
           /\ \E k \in Slots :
                /\ task[k] = FreeTask
                /\ task' = [task EXCEPT ![k] = [at |-> "queued", sid |-> s, tmpl |-> tmpl[s],
                                                awaited |-> TRUE]]
                /\ req' = [req EXCEPT ![r] = [Req("await", s) EXCEPT !.slot = k]]
     /\ UNCHANGED <<node, cache>>

(* One read of the node gives the task its template and the load its text.   *)
Load(r) ==
  LET s == req[r].sid
      blank == stored[s] = Blank
  IN /\ req[r].at = "load"
     /\ \E k \in Slots :
          /\ task[k] = FreeTask
          /\ task' = [task EXCEPT ![k] = [at |-> "queued", sid |-> s, tmpl |-> tmpl[s],
                                          awaited |-> blank]]
          /\ req' = [req EXCEPT ![r] =
                       IF blank THEN [Req("await", s) EXCEPT !.slot = k]
                       ELSE [Req("store", s) EXCEPT !.text = stored[s]]]
     /\ UNCHANGED <<node, cache>>

(* Variant: a failed task has no text. *)
ResultOrBlank(t) == IF t.at = "failed" THEN Blank ELSE t.tmpl

ResultOf(t) == IF t.at = "failed" THEN Failed ELSE t.tmpl

(* future.get() returns. *)
Await(r) ==
  LET k == req[r].slot
  IN /\ req[r].at = "await" /\ task[k].at \in {"failed", "rendered"}
     /\ req' = [req EXCEPT ![r] = [Req("store", req[r].sid) EXCEPT !.text = ResultOf(task[k])]]
     /\ task' = [task EXCEPT ![k] = FreeTask]
     /\ UNCHANGED <<node, cache>>

(* The load is over; its text answers the views that waited for it.          *)
Store(r) ==
  LET s == req[r].sid
  IN /\ req[r].at = "store"
     /\ StoreLoaded(s, req[r].text)
     /\ req' = [Woken(s) EXCEPT ![r] = IdleReq]
     /\ UNCHANGED <<node, task>>
------------------------------------------------------------------------------
(* The task. *)

(* Over: the result is kept only for a load that waits for it. *)
Over(k, at) == task' = [task EXCEPT ![k] = IF task[k].awaited THEN [task[k] EXCEPT !.at = at] ELSE FreeTask]

(* transform, and merge of the property. *)
TaskMerges(k) ==
  /\ task[k].at = "queued" /\ LockFree /\ task[k].tmpl \notin Broken
  /\ stored' = [stored EXCEPT ![task[k].sid] = task[k].tmpl]
  /\ task' = [task EXCEPT ![k].at = "merged"]
  /\ UNCHANGED <<tmpl, edits, cache, req>>

(* Variant: the exception ends the worker and the future never completes. *)
TaskFailsSilently(k) ==
  /\ task[k].at = "queued" /\ LockFree /\ task[k].tmpl \in Broken /\ ~ task[k].awaited
  /\ task' = [task EXCEPT ![k] = FreeTask]
  /\ UNCHANGED <<node, cache, req>>

TaskFails(k) ==
  /\ task[k].at = "queued" /\ LockFree /\ task[k].tmpl \in Broken
  /\ Over(k, "failed")
  /\ UNCHANGED <<node, cache, req>>

(* scache.put: also ends the wait for a load that still runs. *)
TaskPuts(k) ==
  /\ task[k].at = "merged"
  /\ cache' = [cache EXCEPT ![task[k].sid] = Held(task[k].tmpl, TRUE)]
  /\ req' = Woken(task[k].sid)
  /\ task' = [task EXCEPT ![k].at = "put"]
  /\ UNCHANGED node

TaskCommits(k) ==
  /\ task[k].at = "put" /\ Over(k, "rendered")
  /\ UNCHANGED <<node, cache, req>>
------------------------------------------------------------------------------
(* editPopularQuery: the transaction, then the cache. *)

Edit(r, s) ==
  /\ req[r] = IdleReq /\ LockFree /\ edits < MaxEdits
  /\ edits' = edits + 1
  /\ tmpl' = [tmpl EXCEPT ![s] = edits + 1]
  /\ req' = [req EXCEPT ![r] = Req("invalidate", s)]
  /\ UNCHANGED <<stored, cache, task>>

Invalidate(r) ==
  /\ req[r].at = "invalidate"
  /\ Drop(req[r].sid)
  /\ req' = [req EXCEPT ![r] = IdleReq]
  /\ UNCHANGED <<node, task>>

(* removeSearcher takes the node with it and does not touch the cache. *)
RemoveSearcher(s) ==
  /\ LockFree
  /\ tmpl' = [tmpl EXCEPT ![s] = 0]
  /\ stored' = [stored EXCEPT ![s] = Blank]
  /\ UNCHANGED <<edits, cache, req, task>>

Next ==
  \/ \E r \in Requests, s \in Sids : View(r, s) \/ Edit(r, s)
  \/ \E r \in Requests : Load(r) \/ Await(r) \/ Store(r) \/ Invalidate(r)
  \/ \E k \in Slots : TaskMerges(k) \/ TaskFails(k) \/ TaskPuts(k) \/ TaskCommits(k)
  \/ \E s \in Sids : Expire(s) \/ RemoveSearcher(s)

(* Threads run.  The pool has no limit, so a load always gets its task in;   *)
(* and the write lock does not pass one task over for ever.                  *)
Fairness ==
  /\ \A r \in Requests : /\ WF_vars(Await(r)) /\ WF_vars(Store(r)) /\ WF_vars(Invalidate(r))
                         /\ SF_vars(Load(r))
  /\ \A k \in Slots : /\ SF_vars(TaskMerges(k)) /\ SF_vars(TaskFails(k))
                      /\ WF_vars(TaskPuts(k)) /\ WF_vars(TaskCommits(k))
  /\ \A s \in Sids : WF_vars(Expire(s))

Spec == Init /\ [][Next]_vars
FairSpec == Spec /\ Fairness
------------------------------------------------------------------------------
(* Properties. *)

(* Cache and store agree on what a task rendered: two tasks of one searcher, *)
(* in whatever order they end, leave the same text in both, because the put  *)
(* happens inside the transaction.  Only between the two, and once the       *)
(* searcher was removed, they differ.                                        *)
PutIsStored ==
  \A s \in Sids :
    cache[s].is = "held" /\ stored[s] # Blank =>
      \/ ~ cache[s].put
      \/ cache[s].text = stored[s]
      \/ \E k \in Slots : task[k].at = "merged" /\ task[k].sid = s

(* A view that finds no text waits; while a task has stored its text and not *)
(* yet put it, its transaction is under way and the text counts as shown.    *)
Merging(s) == {k \in Slots : task[k].at = "merged" /\ task[k].sid = s}

ShownNow(s) ==
  IF Merging(s) # {} THEN Held(task[CHOOSE k \in Merging(s) : TRUE].tmpl, TRUE)
  ELSE IF cache[s].is = "held" THEN cache[s] ELSE NoEntry

Asked(k) ==
  IF task[k].at = "queued" THEN [sid |-> task[k].sid, tmpl |-> task[k].tmpl]
  ELSE [sid |-> "none", tmpl |-> 0]

(* PopularQueryEntry.java:43-115: loads, tasks, edits and expiry in any order *)
(* amount to renderings that reach store and cache at once, and to views that *)
(* fill in a text where there is none; no text that does not render is stored *)
(* or shown.                                                                  *)
AtOnce == INSTANCE PopularTexts
            WITH shown <- [s \in Sids |-> ShownNow(s)], job <- [k \in Slots |-> Asked(k)]
RendersAtOnce == AtOnce!Spec

(* A load that read the store before its own task renewed it never brings    *)
(* the older text back over the newer one.                                   *)
LoadYieldsToTask ==
  [][\A s \in Sids : cache[s].is = "held" /\ cache'[s].is = "held" /\ cache'[s] # cache[s]
                       => cache'[s].put]_vars

(* A view waits only while some thread really loads its searcher: neither    *)
(* the put of a task, nor an edit, nor the expiry in between strands it.     *)
WaitHasLoad ==
  \A s \in Sids :
    /\ cache[s].is = "loading" =>
         /\ req[cache[s].by].at \in {"load", "await", "store"}
         /\ req[cache[s].by].sid = s
    /\ (\E r \in Requests : req[r] = Req("wait", s)) => cache[s].is = "loading"

(* Every view is answered, also when the template does not render.           *)
EveryViewAnswers ==
  \A r \in Requests : req[r].at \in {"load", "wait", "await", "store"} ~> req[r] = IdleReq

(* A stale text does not stay: whatever the order of loads, tasks and edits, *)
(* the cache ends up with the current template's text, if that renders.      *)
SettlesOnCurrent ==
  <>[](\A s \in Sids : cache[s].is = "held" =>
         cache[s].text = tmpl[s] \/ tmpl[s] \in Broken)
==============================================================================
