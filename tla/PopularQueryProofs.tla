-------------------------- MODULE PopularQueryProofs --------------------------
(* Theorems about PopularQuery, for any searchers, threads, tasks and edits. *)
EXTENDS PopularQuery, TLAPS

(* The request and the task records, field by field. *)
LEMMA ReqFields ==
  ASSUME NEW q \in Reqs
  PROVE  /\ q.at = "idle" => q = IdleReq
         /\ q.at # "idle" => q.sid \in Sids
         /\ q.at \in {"idle", "load", "wait", "invalidate", "await", "store"}
         /\ q.at = "store" => q.text \in Texts
         /\ q.at = "await" => q.slot \in Slots
BY DEF Reqs, IdleReq

LEMMA TaskFields ==
  ASSUME NEW t \in Tasks, t.at # "free"
  PROVE  /\ t \in [at : {"queued", "merged", "put", "failed", "rendered"}, sid : Sids,
                   tmpl : Versions, awaited : BOOLEAN]
         /\ t.at \in {"queued", "merged", "put", "failed", "rendered"}
         /\ t.sid \in Sids /\ t.tmpl \in Versions /\ t.awaited \in BOOLEAN
BY DEF Tasks, FreeTask

LEMMA ReqTyped ==
  /\ IdleReq \in Reqs
  /\ \A at \in {"load", "wait", "invalidate"}, s \in Sids : Req(at, s) \in Reqs
  /\ \A s \in Sids, k \in Slots : [Req("await", s) EXCEPT !.slot = k] \in Reqs
  /\ \A s \in Sids, t \in Texts : [Req("store", s) EXCEPT !.text = t] \in Reqs
BY DEF Reqs, Req, IdleReq

LEMMA WokenTyped ==
  ASSUME req \in [Requests -> Reqs], NEW s
  PROVE  Woken(s) \in [Requests -> Reqs]
BY ReqTyped DEF Woken

LEMMA EntryTyped ==
  /\ NoEntry \in Entries
  /\ \A r \in Requests : Loading(r) \in Entries
  /\ \A t \in Texts, put \in BOOLEAN : Held(t, put) \in Entries
BY DEF Entries

LEMMA EntryFields ==
  ASSUME NEW e \in Entries
  PROVE  /\ e.is \in {"none", "loading", "held"}
         /\ e.is = "loading" => e.by \in Requests
         /\ e.is = "held" => e.text \in Texts /\ e.put \in BOOLEAN
BY DEF Entries, NoEntry, Loading, Held

LEMMA DropTyped ==
  ASSUME cache \in [Sids -> Entries], NEW s, Drop(s)
  PROVE  cache' \in [Sids -> Entries]
BY EntryTyped DEF Drop

LEMMA StoreTyped ==
  ASSUME cache \in [Sids -> Entries], NEW s, NEW t \in Texts, StoreLoaded(s, t)
  PROVE  cache' \in [Sids -> Entries]
BY EntryTyped DEF StoreLoaded

LEMMA OverTyped ==
  ASSUME task \in [Slots -> Tasks], NEW k \in Slots, task[k].at # "free",
         NEW at \in {"failed", "rendered"}, Over(k, at)
  PROVE  task' \in [Slots -> Tasks]
<1>1. task[k] \in [at : {"queued", "merged", "put", "failed", "rendered"}, sid : Sids,
                   tmpl : Versions, awaited : BOOLEAN]
  BY TaskFields
<1>2. [task[k] EXCEPT !.at = at] \in Tasks
  BY <1>1 DEF Tasks
<1> QED BY <1>2 DEF Over, Tasks

LEMMA TypeInit == Init => TypeOK
BY MaxEditsIsNat, EntryTyped, ReqTyped
   DEF Init, TypeOK, Versions, Tasks

LEMMA TypeStep == TypeOK /\ [Next]_vars => TypeOK'
<1> SUFFICES ASSUME TypeOK, [Next]_vars PROVE TypeOK'
  OBVIOUS
<1> USE DEF TypeOK, node
<1>1. ASSUME NEW r \in Requests, NEW s \in Sids, View(r, s) PROVE TypeOK'
  BY <1>1, ReqTyped, EntryTyped DEF View
<1>2. ASSUME NEW r \in Requests, Load(r) PROVE TypeOK'
  <2> DEFINE s == req[r].sid
             blank == stored[s] = Blank
  <2>1. s \in Sids /\ req[r] \in Reqs
    BY <1>2, ReqFields DEF Load
  <2>2. PICK k \in Slots :
          /\ task' = [task EXCEPT ![k] = [at |-> "queued", sid |-> s, tmpl |-> tmpl[s], awaited |-> blank]]
          /\ req' = [req EXCEPT ![r] = IF blank THEN [Req("await", s) EXCEPT !.slot = k]
                                       ELSE [Req("store", s) EXCEPT !.text = stored[s]]]
    BY <1>2 DEF Load
  <2>3. [at |-> "queued", sid |-> s, tmpl |-> tmpl[s], awaited |-> blank] \in Tasks
    BY <2>1 DEF Tasks
  <2>4. task' \in [Slots -> Tasks]
    BY <2>2, <2>3
  <2>5. ~ blank => stored[s] \in Texts
    BY <2>1 DEF Texts
  <2>6. req' \in [Requests -> Reqs]
    BY <2>1, <2>2, <2>5, ReqTyped
  <2> QED BY <1>2, <2>4, <2>6 DEF Load
<1>3. ASSUME NEW r \in Requests, Await(r) PROVE TypeOK'
  <2>1. req[r].sid \in Sids /\ req[r].slot \in Slots
    BY <1>3, ReqFields DEF Await
  <2>2. ResultOf(task[req[r].slot]) \in Texts
    BY <1>3, <2>1, TaskFields DEF Await, ResultOf, Texts
  <2>3. req' \in [Requests -> Reqs]
    BY <1>3, <2>1, <2>2, ReqTyped DEF Await
  <2> QED BY <1>3, <2>3 DEF Await, Tasks
<1>4. ASSUME NEW r \in Requests, Store(r) PROVE TypeOK'
  <2>1. req[r].sid \in Sids /\ req[r].text \in Texts
    BY <1>4, ReqFields DEF Store
  <2>2. req' \in [Requests -> Reqs]
    BY <1>4, WokenTyped, ReqTyped DEF Store
  <2> QED BY <1>4, <2>1, <2>2, StoreTyped DEF Store
<1>5. ASSUME NEW r \in Requests, Invalidate(r) PROVE TypeOK'
  BY <1>5, DropTyped, ReqTyped DEF Invalidate
<1>6. ASSUME NEW k \in Slots, TaskMerges(k) PROVE TypeOK'
  <2>1. task[k] \in [at : {"queued", "merged", "put", "failed", "rendered"}, sid : Sids,
                     tmpl : Versions, awaited : BOOLEAN]
    BY <1>6, TaskFields DEF TaskMerges
  <2>2. [task[k] EXCEPT !.at = "merged"] \in Tasks
    BY <2>1 DEF Tasks
  <2> QED BY <1>6, <2>1, <2>2 DEF TaskMerges
<1>7. ASSUME NEW k \in Slots, TaskFails(k) PROVE TypeOK'
  BY <1>7, OverTyped DEF TaskFails
<1>8. ASSUME NEW k \in Slots, TaskPuts(k) PROVE TypeOK'
  <2>1. task[k] \in [at : {"queued", "merged", "put", "failed", "rendered"}, sid : Sids,
                     tmpl : Versions, awaited : BOOLEAN]
    BY <1>8, TaskFields DEF TaskPuts
  <2>2. [task[k] EXCEPT !.at = "put"] \in Tasks
    BY <2>1 DEF Tasks
  <2>3. Held(task[k].tmpl, TRUE) \in Entries
    BY <2>1, EntryTyped DEF Texts
  <2> QED BY <1>8, <2>2, <2>3, WokenTyped DEF TaskPuts
<1>9. ASSUME NEW k \in Slots, TaskCommits(k) PROVE TypeOK'
  BY <1>9, OverTyped DEF TaskCommits
<1>10. ASSUME NEW r \in Requests, NEW s \in Sids, Edit(r, s) PROVE TypeOK'
  <2>1. edits + 1 \in Versions
    BY <1>10, MaxEditsIsNat DEF Edit, Versions
  <2> QED BY <1>10, <2>1, ReqTyped DEF Edit
<1>11. ASSUME NEW s \in Sids, Expire(s) PROVE TypeOK'
  BY <1>11, DropTyped DEF Expire
<1>12. ASSUME NEW s \in Sids, RemoveSearcher(s) PROVE TypeOK'
  BY <1>12, MaxEditsIsNat DEF RemoveSearcher, Versions
<1>13. CASE UNCHANGED vars
  BY <1>13 DEF vars
<1> QED BY <1>1, <1>2, <1>3, <1>4, <1>5, <1>6, <1>7, <1>8, <1>9, <1>10, <1>11, <1>12, <1>13
        DEF Next

(* Templates, texts, cache, threads and tasks of PopularQueryEntry keep      *)
(* their types.                                                              *)
THEOREM TypeCorrect == Spec => []TypeOK
BY TypeInit, TypeStep, PTL DEF Spec
------------------------------------------------------------------------------
(* Cache and store.  One task at a time is inside its transaction, and what  *)
(* it has merged is what is stored.                                          *)

OneHolder ==
  \A k, l \in Slots :
    task[k].at \in {"merged", "put"} /\ task[l].at \in {"merged", "put"} => k = l

MergedIsStored ==
  \A k \in Slots : task[k].at = "merged" => stored[task[k].sid] = task[k].tmpl

StoreInv == TypeOK /\ OneHolder /\ MergedIsStored /\ PutIsStored

(* Over moves a task out of its transaction. *)
LEMMA OverLeaves ==
  ASSUME task \in [Slots -> Tasks], NEW k \in Slots, NEW at \in {"failed", "rendered"}, Over(k, at),
         task[k].at # "free"
  PROVE  /\ task'[k].at \notin {"merged", "put"}
         /\ \A l \in Slots \ {k} : task'[l] = task[l]
BY TaskFields DEF Over, FreeTask

(* A change of the cache that brings in nothing a task put. *)
LEMMA PutKept ==
  ASSUME PutIsStored, UNCHANGED stored,
         \A k \in Slots : task[k].at = "merged" => task'[k].at = "merged" /\ task'[k].sid = task[k].sid,
         \A s \in Sids : cache'[s].is = "held" => cache'[s] = cache[s] \/ ~ cache'[s].put
  PROVE  PutIsStored'
BY DEF PutIsStored

LEMMA DropKeeps ==
  ASSUME TypeOK, NEW s \in Sids, Drop(s)
  PROVE  \A t \in Sids : cache'[t].is = "held" => cache'[t] = cache[t]
BY DEF Drop, TypeOK, NoEntry

LEMMA LoadKeeps ==
  ASSUME TypeOK, NEW s \in Sids, NEW text \in Texts, StoreLoaded(s, text)
  PROVE  \A t \in Sids : /\ cache'[t].is = "held" => cache'[t] = cache[t] \/ ~ cache'[t].put
                        /\ cache[t].is = "held" => cache'[t] = cache[t]
BY DEF StoreLoaded, TypeOK, Held

LEMMA StoreInit == Init => StoreInv
BY TypeInit DEF Init, StoreInv, OneHolder, MergedIsStored, PutIsStored, FreeTask, NoEntry

LEMMA StoreStep == StoreInv /\ [Next]_vars => StoreInv'
<1> SUFFICES ASSUME StoreInv, [Next]_vars PROVE StoreInv'
  OBVIOUS
<1>t. TypeOK /\ TypeOK'
  BY TypeStep DEF StoreInv
<1>q. ASSUME UNCHANGED <<stored, cache, task>> PROVE StoreInv'
  BY <1>t, <1>q DEF StoreInv, OneHolder, MergedIsStored, PutIsStored
<1>1. ASSUME NEW r \in Requests, NEW s \in Sids, View(r, s) PROVE StoreInv'
  <2>1. \A t \in Sids : cache'[t].is = "held" => cache'[t] = cache[t]
    BY <1>1, <1>t DEF View, TypeOK, Loading
  <2>2. PutIsStored'
    BY <1>1, <2>1, PutKept DEF View, StoreInv, node
  <2> QED BY <1>1, <1>t, <2>2 DEF View, StoreInv, OneHolder, MergedIsStored, node
<1>2. ASSUME NEW r \in Requests, Load(r) PROVE StoreInv'
  <2>1. PICK k \in Slots :
          /\ task[k] = FreeTask
          /\ task'[k].at = "queued"
          /\ \A l \in Slots \ {k} : task'[l] = task[l]
    BY <1>2, <1>t DEF Load, TypeOK
  <2>2. UNCHANGED <<stored, cache>>
    BY <1>2 DEF Load, node
  <2>3. PutIsStored'
    BY <2>1, <2>2, PutKept DEF StoreInv, FreeTask
  <2> QED BY <1>t, <2>1, <2>2, <2>3 DEF StoreInv, OneHolder, MergedIsStored
<1>3. ASSUME NEW r \in Requests, Await(r) PROVE StoreInv'
  <2> DEFINE k == req[r].slot
  <2>1. k \in Slots /\ task[k].at \in {"failed", "rendered"}
    BY <1>3, <1>t, ReqFields DEF Await, TypeOK
  <2>2. task'[k].at = "free" /\ \A l \in Slots \ {k} : task'[l] = task[l]
    BY <1>3, <1>t, <2>1 DEF Await, TypeOK, FreeTask
  <2>3. UNCHANGED <<stored, cache>>
    BY <1>3 DEF Await, node
  <2>4. PutIsStored'
    BY <2>1, <2>2, <2>3, PutKept DEF StoreInv
  <2> QED BY <1>t, <2>1, <2>2, <2>3, <2>4 DEF StoreInv, OneHolder, MergedIsStored
<1>4. ASSUME NEW r \in Requests, Store(r) PROVE StoreInv'
  <2>1. req[r].sid \in Sids /\ req[r].text \in Texts
    BY <1>4, <1>t, ReqFields DEF Store, TypeOK
  <2>a. \A s \in Sids : cache'[s].is = "held" => cache'[s] = cache[s] \/ ~ cache'[s].put
    <3>1. StoreLoaded(req[r].sid, req[r].text)
      BY <1>4 DEF Store
    <3> QED BY <1>t, <2>1, <3>1 DEF StoreLoaded, TypeOK, Held
  <2>2. PutIsStored'
    BY <1>4, <2>a, PutKept DEF Store, StoreInv, node
  <2> QED BY <1>4, <1>t, <2>2 DEF Store, StoreInv, OneHolder, MergedIsStored, node
<1>5. ASSUME NEW r \in Requests, Invalidate(r) PROVE StoreInv'
  <2>1. req[r].sid \in Sids
    BY <1>5, <1>t, ReqFields DEF Invalidate, TypeOK
  <2>2. PutIsStored'
    BY <1>5, <1>t, <2>1, DropKeeps, PutKept DEF Invalidate, StoreInv, node
  <2> QED BY <1>5, <1>t, <2>2 DEF Invalidate, StoreInv, OneHolder, MergedIsStored, node
<1>6. ASSUME NEW k \in Slots, TaskMerges(k) PROVE StoreInv'
  <2>1. task[k].sid \in Sids
    BY <1>6, <1>t, TaskFields DEF TaskMerges, TypeOK
  <2>2. /\ task'[k].at = "merged" /\ task'[k].sid = task[k].sid /\ task'[k].tmpl = task[k].tmpl
        /\ \A l \in Slots \ {k} : task'[l] = task[l] /\ task[l].at \notin {"merged", "put"}
    <3>1. task[k] \in [at : {"queued", "merged", "put", "failed", "rendered"}, sid : Sids,
                      tmpl : Versions, awaited : BOOLEAN]
      BY <1>6, <1>t, TaskFields DEF TaskMerges, TypeOK
    <3> QED BY <1>6, <1>t, <3>1 DEF TaskMerges, TypeOK, LockFree
  <2>3. stored'[task[k].sid] = task[k].tmpl /\ \A s \in Sids \ {task[k].sid} : stored'[s] = stored[s]
    BY <1>6, <1>t, <2>1 DEF TaskMerges, TypeOK
  <2>4. PutIsStored'
    <3> SUFFICES ASSUME NEW s \in Sids, cache'[s].is = "held", stored'[s] # Blank, cache'[s].put,
                        cache'[s].text # stored'[s]
                 PROVE  \E l \in Slots : task'[l].at = "merged" /\ task'[l].sid = s
      BY DEF PutIsStored
    <3>1. CASE s = task[k].sid
      BY <3>1, <2>2
    <3>2. CASE s # task[k].sid
      <4>1. cache[s] = cache'[s] /\ stored[s] = stored'[s]
        BY <1>6, <3>2, <2>3 DEF TaskMerges
      <4>2. PICK l \in Slots : task[l].at = "merged"
        BY <4>1 DEF StoreInv, PutIsStored
      <4> QED BY <4>2, <2>2, <1>6 DEF TaskMerges
    <3> QED BY <3>1, <3>2
  <2> QED BY <1>t, <2>1, <2>2, <2>3, <2>4 DEF StoreInv, OneHolder, MergedIsStored
<1>7. ASSUME NEW k \in Slots, TaskFails(k) PROVE StoreInv'
  <2>1. /\ task'[k].at \notin {"merged", "put"} /\ task[k].at = "queued"
        /\ \A l \in Slots \ {k} : task'[l] = task[l]
    BY <1>7, <1>t, OverLeaves DEF TaskFails, TypeOK
  <2>2. UNCHANGED <<stored, cache>>
    BY <1>7 DEF TaskFails, node
  <2>3. PutIsStored'
    BY <2>1, <2>2, PutKept DEF StoreInv
  <2> QED BY <1>t, <2>1, <2>2, <2>3 DEF StoreInv, OneHolder, MergedIsStored
<1>8. ASSUME NEW k \in Slots, TaskPuts(k) PROVE StoreInv'
  <2>1. task[k] \in [at : {"queued", "merged", "put", "failed", "rendered"}, sid : Sids,
                      tmpl : Versions, awaited : BOOLEAN]
    BY <1>8, <1>t, TaskFields DEF TaskPuts, TypeOK
  <2>2. /\ task'[k].at = "put" /\ task[k].sid \in Sids
        /\ \A l \in Slots \ {k} : task'[l] = task[l]
    BY <1>8, <1>t, <2>1 DEF TaskPuts, TypeOK
  <2>3. stored' = stored /\ stored[task[k].sid] = task[k].tmpl
    BY <1>8 DEF TaskPuts, StoreInv, MergedIsStored, node
  <2>4. /\ cache'[task[k].sid].text = task[k].tmpl
        /\ \A s \in Sids \ {task[k].sid} : cache'[s] = cache[s]
    BY <1>8, <1>t, <2>2 DEF TaskPuts, TypeOK, Held
  <2>5. PutIsStored'
    <3> SUFFICES ASSUME NEW s \in Sids, cache'[s].is = "held", stored'[s] # Blank, cache'[s].put,
                        cache'[s].text # stored'[s]
                 PROVE  \E l \in Slots : task'[l].at = "merged" /\ task'[l].sid = s
      BY DEF PutIsStored
    <3>1. s # task[k].sid
      BY <2>3, <2>4
    <3>2. PICK l \in Slots : task[l].at = "merged" /\ task[l].sid = s
      BY <2>3, <2>4, <3>1 DEF StoreInv, PutIsStored
    <3> QED BY <3>1, <3>2, <2>2
  <2> QED BY <1>t, <1>8, <2>2, <2>3, <2>5 DEF TaskPuts, StoreInv, OneHolder, MergedIsStored
<1>9. ASSUME NEW k \in Slots, TaskCommits(k) PROVE StoreInv'
  <2>1. /\ task'[k].at \notin {"merged", "put"} /\ task[k].at = "put"
        /\ \A l \in Slots \ {k} : task'[l] = task[l]
    BY <1>9, <1>t, OverLeaves DEF TaskCommits, TypeOK
  <2>2. UNCHANGED <<stored, cache>>
    BY <1>9 DEF TaskCommits, node
  <2>3. PutIsStored'
    BY <2>1, <2>2, PutKept DEF StoreInv
  <2> QED BY <1>t, <2>1, <2>2, <2>3 DEF StoreInv, OneHolder, MergedIsStored
<1>10. ASSUME NEW r \in Requests, NEW s \in Sids, Edit(r, s) PROVE StoreInv'
  BY <1>10, <1>q DEF Edit
<1>11. ASSUME NEW s \in Sids, Expire(s) PROVE StoreInv'
  <2>1. PutIsStored'
    BY <1>11, <1>t, DropKeeps, PutKept DEF Expire, StoreInv, node
  <2> QED BY <1>11, <1>t, <2>1 DEF Expire, StoreInv, OneHolder, MergedIsStored, node
<1>12. ASSUME NEW s \in Sids, RemoveSearcher(s) PROVE StoreInv'
  <2>1. \A k \in Slots : task[k].at # "merged"
    BY <1>12 DEF RemoveSearcher, LockFree
  <2>2. PutIsStored'
    BY <1>12, <1>t, <2>1 DEF RemoveSearcher, StoreInv, PutIsStored, TypeOK
  <2> QED BY <1>12, <1>t, <2>1, <2>2 DEF RemoveSearcher, StoreInv, OneHolder, MergedIsStored
<1>13. CASE UNCHANGED vars
  BY <1>13, <1>q DEF vars
<1> QED BY <1>1, <1>2, <1>3, <1>4, <1>5, <1>6, <1>7, <1>8, <1>9, <1>10, <1>11, <1>12, <1>13
        DEF Next

LEMMA StoreInvariant == Spec => []StoreInv
BY StoreInit, StoreStep, PTL DEF Spec

(* Whatever tasks run in whatever order, the text one of them put into the   *)
(* cache is the stored one, but for the moment between merge and put.        *)
THEOREM CacheAgreesWithStore == Spec => []PutIsStored
BY StoreInvariant, PTL DEF StoreInv

(* A finished load never replaces a text that is in the cache: only a task's *)
(* put does.                                                                 *)
THEOREM LoadsYield == Spec => LoadYieldsToTask
<1> DEFINE Yield == \A s \in Sids : cache[s].is = "held" /\ cache'[s].is = "held" /\ cache'[s] # cache[s]
                                    => cache'[s].put
<1>1. TypeOK /\ [Next]_vars => [Yield]_vars
  <2> SUFFICES ASSUME TypeOK, Next PROVE Yield
    OBVIOUS
  <2>q. ASSUME UNCHANGED cache PROVE Yield
    BY <2>q
  <2>1. ASSUME NEW r \in Requests, NEW s \in Sids, View(r, s) PROVE Yield
    BY <2>1 DEF View, TypeOK, Loading
  <2>2. ASSUME NEW r \in Requests, Store(r) PROVE Yield
    <3>1. req[r].sid \in Sids /\ req[r].text \in Texts
      BY <2>2, ReqFields DEF Store, TypeOK
    <3>2. StoreLoaded(req[r].sid, req[r].text)
      BY <2>2 DEF Store
    <3> QED BY <3>1, <3>2, LoadKeeps
  <2>3. ASSUME NEW r \in Requests, Invalidate(r) PROVE Yield
    <3>1. req[r].sid \in Sids
      BY <2>3, ReqFields DEF Invalidate, TypeOK
    <3> QED BY <2>3, <3>1, DropKeeps DEF Invalidate
  <2>4. ASSUME NEW k \in Slots, TaskPuts(k) PROVE Yield
    BY <2>4 DEF TaskPuts, TypeOK, Held
  <2>5. ASSUME NEW s \in Sids, Expire(s) PROVE Yield
    BY <2>5, DropKeeps DEF Expire
  <2>6. CASE UNCHANGED cache
    BY <2>6, <2>q
  <2> QED BY <2>1, <2>2, <2>3, <2>4, <2>5, <2>6
          DEF Next, Edit, Load, Await, TaskMerges, TaskFails, TaskCommits, RemoveSearcher
<1> QED BY <1>1, TypeCorrect, PTL DEF Spec, LoadYieldsToTask
------------------------------------------------------------------------------
(* Waiting views. *)

Loads(r, s) == req[r].at \in {"load", "await", "store"} /\ req[r].sid = s

LoaderAlive == \A s \in Sids : cache[s].is = "loading" => Loads(cache[s].by, s)
WaiterLoads == \A r \in Requests : req[r].at = "wait" => cache[req[r].sid].is = "loading"

WaitInv == TypeOK /\ LoaderAlive /\ WaiterLoads

LEMMA WaitInit == Init => WaitInv
BY TypeInit DEF Init, WaitInv, LoaderAlive, WaiterLoads, IdleReq, NoEntry

(* What a wake-up leaves of the requests. *)
LEMMA WokenIs ==
  ASSUME TypeOK, NEW s \in Sids, NEW q \in Requests
  PROVE  /\ Woken(s)[q].at \notin {"idle", "wait"} => Woken(s)[q] = req[q]
         /\ req[q].at # "wait" => Woken(s)[q] = req[q]
         /\ Woken(s)[q].at = "wait" => Woken(s)[q] = req[q] /\ req[q].sid # s
BY DEF Woken, TypeOK, IdleReq

Kept(s) == cache'[s] = cache[s]
Lost(s) == cache[s].is = "held" /\ cache'[s].is = "none"

LEMMA DropLoses ==
  ASSUME TypeOK, NEW s \in Sids, Drop(s)
  PROVE  \A t \in Sids : Kept(t) \/ Lost(t)
BY DEF Drop, TypeOK, NoEntry, Kept, Lost

(* A step of one thread that neither loads, waits nor loses an entry.        *)
LEMMA OthersKept ==
  ASSUME WaitInv, NEW r \in Requests,
         \A q \in Requests \ {r} : req'[q] = req[q],
         req'[r].at # "wait",
         \/ req[r].at \notin {"load", "await", "store"}
         \/ req'[r].at \in {"load", "await", "store"} /\ req'[r].sid = req[r].sid,
         \A s \in Sids : Kept(s) \/ Lost(s),
         TypeOK
  PROVE  LoaderAlive' /\ WaiterLoads'
<1>1. LoaderAlive'
  <2> SUFFICES ASSUME NEW s \in Sids, cache'[s].is = "loading"
               PROVE  req'[cache'[s].by].at \in {"load", "await", "store"} /\ req'[cache'[s].by].sid = s
    BY DEF LoaderAlive, Loads
  <2>1. cache'[s] = cache[s]
    BY DEF Kept, Lost
  <2>2. cache[s].by \in Requests
    BY <2>1, EntryFields DEF TypeOK
  <2>3. req[cache[s].by].at \in {"load", "await", "store"} /\ req[cache[s].by].sid = s
    BY <2>1 DEF WaitInv, LoaderAlive, Loads
  <2> QED BY <2>1, <2>2, <2>3
<1>2. WaiterLoads'
  <2> SUFFICES ASSUME NEW q \in Requests, req'[q].at = "wait" PROVE cache'[req'[q].sid].is = "loading"
    BY DEF WaiterLoads
  <2>1. req'[q] = req[q]
    OBVIOUS
  <2>2. req[q].sid \in Sids /\ cache[req[q].sid].is = "loading"
    BY <2>1, ReqFields DEF TypeOK, WaitInv, WaiterLoads
  <2> QED BY <2>1, <2>2 DEF Kept, Lost
<1> QED BY <1>1, <1>2

LEMMA WaitStep == WaitInv /\ [Next]_vars => WaitInv'
<1> SUFFICES ASSUME WaitInv, [Next]_vars PROVE WaitInv'
  OBVIOUS
<1>t. TypeOK
  BY DEF WaitInv
<1>u. TypeOK'
  BY <1>t, TypeStep
<1>q. ASSUME UNCHANGED <<cache, req>> PROVE WaitInv'
  BY <1>u, <1>q DEF WaitInv, LoaderAlive, WaiterLoads, Loads
<1>1. ASSUME NEW r \in Requests, NEW s \in Sids, View(r, s) PROVE WaitInv'
  <2>1. CASE cache[s].is = "none"
    <3>1. /\ cache'[s].is = "loading" /\ cache'[s].by = r
          /\ \A t \in Sids \ {s} : cache'[t] = cache[t]
          /\ req'[r].at = "load" /\ req'[r].sid = s
          /\ \A q \in Requests \ {r} : req'[q] = req[q]
      BY <1>1, <1>t, <2>1 DEF View, TypeOK, Loading, Req
    <3>2. LoaderAlive'
      <4> SUFFICES ASSUME NEW t \in Sids, cache'[t].is = "loading"
                   PROVE  req'[cache'[t].by].at \in {"load", "await", "store"} /\ req'[cache'[t].by].sid = t
        BY DEF LoaderAlive, Loads
      <4>1. CASE t = s
        BY <4>1, <3>1
      <4>2. CASE t # s
        <5>1. cache'[t] = cache[t] /\ cache[t].by \in Requests
          BY <4>2, <3>1, <1>t, EntryFields DEF TypeOK
        <5>2. req[cache[t].by].at \in {"load", "await", "store"} /\ req[cache[t].by].sid = t
          BY <5>1 DEF WaitInv, LoaderAlive, Loads
        <5>3. req[r].at = "idle"
          BY <1>1 DEF View, IdleReq
        <5> QED BY <5>1, <5>2, <5>3, <3>1
      <4> QED BY <4>1, <4>2
    <3>3. WaiterLoads'
      <4> SUFFICES ASSUME NEW q \in Requests, req'[q].at = "wait" PROVE cache'[req'[q].sid].is = "loading"
        BY DEF WaiterLoads
      <4>1. req'[q] = req[q]
        BY <3>1
      <4>2. req[q].sid \in Sids /\ cache[req[q].sid].is = "loading"
        BY <4>1, <1>t, ReqFields DEF TypeOK, WaitInv, WaiterLoads
      <4> QED BY <4>1, <4>2, <3>1
    <3> QED BY <1>u, <3>2, <3>3 DEF WaitInv
  <2>2. CASE cache[s].is = "loading"
    <3>1. /\ cache' = cache
          /\ req'[r].at = "wait" /\ req'[r].sid = s /\ req[r].at = "idle"
          /\ \A q \in Requests \ {r} : req'[q] = req[q]
      BY <1>1, <1>t, <2>2 DEF View, TypeOK, Req, IdleReq
    <3>2. LoaderAlive'
      <4> SUFFICES ASSUME NEW t \in Sids, cache[t].is = "loading"
                   PROVE  req'[cache[t].by].at \in {"load", "await", "store"} /\ req'[cache[t].by].sid = t
        BY <3>1 DEF LoaderAlive, Loads
      <4>1. cache[t].by \in Requests
        BY <1>t, EntryFields DEF TypeOK
      <4>2. req[cache[t].by].at \in {"load", "await", "store"} /\ req[cache[t].by].sid = t
        BY DEF WaitInv, LoaderAlive, Loads
      <4> QED BY <4>1, <4>2, <3>1
    <3>3. WaiterLoads'
      BY <2>2, <3>1 DEF WaitInv, WaiterLoads
    <3> QED BY <1>u, <3>2, <3>3 DEF WaitInv
  <2> QED BY <1>1, <2>1, <2>2 DEF View
<1>2. ASSUME NEW r \in Requests, Load(r) PROVE WaitInv'
  <2>1. /\ req[r].at = "load" /\ cache' = cache
        /\ req'[r].at \in {"await", "store"} /\ req'[r].sid = req[r].sid
        /\ \A q \in Requests \ {r} : req'[q] = req[q]
    BY <1>2, <1>t DEF Load, TypeOK, Req
  <2>2. LoaderAlive' /\ WaiterLoads'
    <3>1. \A s \in Sids : Kept(s) \/ Lost(s)
      BY <2>1 DEF Kept
    <3> QED BY <2>1, <1>t, <3>1, OthersKept
  <2> QED BY <1>u, <2>2 DEF WaitInv
<1>3. ASSUME NEW r \in Requests, Await(r) PROVE WaitInv'
  <2>1. /\ req[r].at = "await" /\ cache' = cache
        /\ req'[r].at = "store" /\ req'[r].sid = req[r].sid
        /\ \A q \in Requests \ {r} : req'[q] = req[q]
    BY <1>3, <1>t DEF Await, TypeOK, Req
  <2>2. LoaderAlive' /\ WaiterLoads'
    <3>1. \A s \in Sids : Kept(s) \/ Lost(s)
      BY <2>1 DEF Kept
    <3> QED BY <2>1, <1>t, <3>1, OthersKept
  <2> QED BY <1>u, <2>2 DEF WaitInv
<1>4. ASSUME NEW r \in Requests, Store(r) PROVE WaitInv'
  <2> DEFINE s == req[r].sid
  <2>1. s \in Sids /\ req[r].at = "store"
    BY <1>4, <1>t, ReqFields DEF Store, TypeOK
  <2>2. /\ cache'[s].is = "held" /\ \A t \in Sids \ {s} : cache'[t] = cache[t]
    BY <1>4, <1>t, <2>1 DEF Store, StoreLoaded, TypeOK, Held
  <2>3. /\ req'[r].at = "idle"
        /\ \A q \in Requests \ {r} : req'[q] = Woken(s)[q]
    BY <1>4 DEF Store, Woken, IdleReq
  <2>4. LoaderAlive'
    <3> SUFFICES ASSUME NEW t \in Sids, cache'[t].is = "loading"
                 PROVE  req'[cache'[t].by].at \in {"load", "await", "store"} /\ req'[cache'[t].by].sid = t
      BY DEF LoaderAlive, Loads
    <3>1. t # s /\ cache'[t] = cache[t] /\ cache[t].by \in Requests
      BY <2>2, <1>t, EntryFields DEF TypeOK
    <3>2. req[cache[t].by].at \in {"load", "await", "store"} /\ req[cache[t].by].sid = t
      BY <3>1 DEF WaitInv, LoaderAlive, Loads
    <3>3. cache[t].by # r
      BY <3>1, <3>2
    <3>4. Woken(s)[cache[t].by] = req[cache[t].by]
      BY <1>t, <2>1, <3>1, <3>2, WokenIs
    <3> QED BY <2>3, <3>1, <3>2, <3>3, <3>4
  <2>5. WaiterLoads'
    <3> SUFFICES ASSUME NEW q \in Requests, req'[q].at = "wait" PROVE cache'[req'[q].sid].is = "loading"
      BY DEF WaiterLoads
    <3>1. q # r /\ req'[q] = Woken(s)[q]
      BY <2>3
    <3>2. req'[q] = req[q] /\ req[q].sid # s
      BY <1>t, <2>1, <3>1, WokenIs
    <3>3. req[q].sid \in Sids /\ cache[req[q].sid].is = "loading"
      BY <3>2, <1>t, ReqFields DEF TypeOK, WaitInv, WaiterLoads
    <3> QED BY <2>2, <3>2, <3>3
  <2> QED BY <1>u, <2>4, <2>5 DEF WaitInv
<1>5. ASSUME NEW r \in Requests, Invalidate(r) PROVE WaitInv'
  <2>1. /\ req[r].at = "invalidate" /\ req'[r].at = "idle" /\ req[r].sid \in Sids
        /\ \A q \in Requests \ {r} : req'[q] = req[q]
    BY <1>5, <1>t, ReqFields DEF Invalidate, TypeOK, IdleReq
  <2>2. \A s \in Sids : Kept(s) \/ Lost(s)
    BY <1>5, <1>t, <2>1, DropLoses DEF Invalidate
  <2>3. LoaderAlive' /\ WaiterLoads'
    BY <2>1, <2>2, <1>t, OthersKept
  <2> QED BY <1>u, <2>3 DEF WaitInv
<1>6. ASSUME NEW k \in Slots, TaskPuts(k) PROVE WaitInv'
  <2> DEFINE s == task[k].sid
  <2>1. s \in Sids
    BY <1>6, <1>t, TaskFields DEF TaskPuts, TypeOK
  <2>2. /\ cache'[s].is = "held" /\ \A t \in Sids \ {s} : cache'[t] = cache[t]
        /\ req' = Woken(s)
    BY <1>6, <1>t, <2>1 DEF TaskPuts, TypeOK, Held
  <2>3. LoaderAlive'
    <3> SUFFICES ASSUME NEW t \in Sids, cache'[t].is = "loading"
                 PROVE  req'[cache'[t].by].at \in {"load", "await", "store"} /\ req'[cache'[t].by].sid = t
      BY DEF LoaderAlive, Loads
    <3>1. cache'[t] = cache[t] /\ cache[t].by \in Requests
      BY <2>2, <1>t, EntryFields DEF TypeOK
    <3>2. req[cache[t].by].at \in {"load", "await", "store"} /\ req[cache[t].by].sid = t
      BY <3>1 DEF WaitInv, LoaderAlive, Loads
    <3>3. Woken(s)[cache[t].by] = req[cache[t].by]
      BY <1>t, <2>1, <3>1, <3>2, WokenIs
    <3> QED BY <2>2, <3>1, <3>2, <3>3
  <2>4. WaiterLoads'
    <3> SUFFICES ASSUME NEW q \in Requests, req'[q].at = "wait" PROVE cache'[req'[q].sid].is = "loading"
      BY DEF WaiterLoads
    <3>1. req'[q] = req[q] /\ req[q].sid # s
      BY <1>t, <2>1, <2>2, WokenIs
    <3>2. req[q].sid \in Sids /\ cache[req[q].sid].is = "loading"
      BY <3>1, <1>t, ReqFields DEF TypeOK, WaitInv, WaiterLoads
    <3> QED BY <2>2, <3>1, <3>2
  <2> QED BY <1>u, <2>3, <2>4 DEF WaitInv
<1>7. ASSUME NEW r \in Requests, NEW s \in Sids, Edit(r, s) PROVE WaitInv'
  <2>1. /\ req[r].at = "idle" /\ req'[r].at = "invalidate" /\ cache' = cache
        /\ \A q \in Requests \ {r} : req'[q] = req[q]
    BY <1>7, <1>t DEF Edit, TypeOK, IdleReq, Req
  <2>2. LoaderAlive' /\ WaiterLoads'
    <3>1. \A t \in Sids : Kept(t) \/ Lost(t)
      BY <2>1 DEF Kept
    <3> QED BY <2>1, <1>t, <3>1, OthersKept
  <2> QED BY <1>u, <2>2 DEF WaitInv
<1>8. ASSUME NEW s \in Sids, Expire(s) PROVE WaitInv'
  <2>1. req' = req /\ \A t \in Sids : Kept(t) \/ Lost(t)
    BY <1>8, <1>t, DropLoses DEF Expire
  <2>2. LoaderAlive'
    BY <2>1 DEF WaitInv, LoaderAlive, Loads, Kept, Lost
  <2>3. WaiterLoads'
    <3> SUFFICES ASSUME NEW q \in Requests, req[q].at = "wait" PROVE cache'[req[q].sid].is = "loading"
      BY <2>1 DEF WaiterLoads
    <3>1. req[q].sid \in Sids /\ cache[req[q].sid].is = "loading"
      BY <1>t, ReqFields DEF TypeOK, WaitInv, WaiterLoads
    <3> QED BY <2>1, <3>1 DEF Kept, Lost
  <2> QED BY <1>u, <2>2, <2>3 DEF WaitInv
<1>9. CASE UNCHANGED <<cache, req>>
  BY <1>9, <1>q
<1> QED BY <1>1, <1>2, <1>3, <1>4, <1>5, <1>6, <1>7, <1>8, <1>9
        DEF Next, vars, TaskMerges, TaskFails, TaskCommits, RemoveSearcher

LEMMA WaitImplies == WaitInv => WaitHasLoad
<1> SUFFICES ASSUME WaitInv, NEW s \in Sids
             PROVE  /\ cache[s].is = "loading" => Loads(cache[s].by, s)
                    /\ (\E r \in Requests : req[r] = Req("wait", s)) => cache[s].is = "loading"
  BY DEF WaitHasLoad, Loads
<1>1. ASSUME NEW r \in Requests, req[r] = Req("wait", s) PROVE cache[s].is = "loading"
  BY <1>1 DEF WaitInv, WaiterLoads, Req
<1> QED BY <1>1 DEF WaitInv, LoaderAlive

(* No view ever waits for a load that nobody runs, whatever puts, edits,     *)
(* expiries and removals come in between.                                    *)
THEOREM NoStrandedView == Spec => []WaitHasLoad
BY WaitInit, WaitStep, WaitImplies, PTL DEF Spec
------------------------------------------------------------------------------
(* Renderings at once.  What a view gets is the text of the task that is      *)
(* between its merge and its put, or else what the cache holds; no step but   *)
(* a merge changes the store and it together.                                 *)

Rendered == AtOnce!Texts

TextInv ==
  /\ StoreInv
  /\ \A s \in Sids : stored[s] \in Rendered \cup {Blank}
  /\ \A r \in Requests : req[r].at = "store" => req[r].text \in Rendered
  /\ \A k \in Slots : task[k].at \in {"merged", "put", "rendered"} => task[k].tmpl \notin Broken

LEMMA VersionsRender ==
  /\ Failed \in Rendered
  /\ \A v \in Versions : v \notin Broken => v \in Rendered
  /\ 0 \notin Broken
BY DefaultRenders DEF Rendered, AtOnce!Texts, AtOnce!Versions, Versions

LEMMA TextInit == Init => TextInv
BY StoreInit DEF Init, TextInv, FreeTask, IdleReq

(* One thread's step; a text it brings along is a rendered one. *)
LEMMA TextKept ==
  ASSUME TextInv, StoreInv', UNCHANGED stored, NEW r,
         \A q \in Requests : req'[q].at = "store" => q = r \/ req'[q] = req[q],
         r \in Requests /\ req'[r].at = "store" => req'[r].text \in Rendered,
         \A k \in Slots : task'[k].at \in {"merged", "put", "rendered"} =>
           task[k].at \in {"merged", "put", "rendered"} /\ task'[k].tmpl = task[k].tmpl
  PROVE  TextInv'
<1>1. \A q \in Requests : req'[q].at = "store" => req'[q].text \in Rendered
  BY DEF TextInv
<1>2. \A k \in Slots : task'[k].at \in {"merged", "put", "rendered"} => task'[k].tmpl \notin Broken
  BY DEF TextInv
<1> QED BY <1>1, <1>2 DEF TextInv, Rendered

LEMMA TextStep == TextInv /\ [Next]_vars => TextInv'
<1> SUFFICES ASSUME TextInv, [Next]_vars PROVE TextInv'
  OBVIOUS
<1>t. TypeOK /\ StoreInv'
  BY StoreStep DEF TextInv, StoreInv
<1>q. ASSUME UNCHANGED <<stored, req, task>> PROVE TextInv'
  BY <1>t, <1>q DEF TextInv, Rendered
<1>w. ASSUME NEW s, NEW q \in Requests, Woken(s)[q].at = "store" PROVE Woken(s)[q] = req[q]
  BY <1>w DEF Woken, IdleReq
<1>1. ASSUME NEW r \in Requests, NEW s \in Sids, View(r, s) PROVE TextInv'
  <2>1. /\ UNCHANGED <<stored, task>> /\ req'[r].at \in {"load", "wait"}
        /\ \A q \in Requests \ {r} : req'[q] = req[q]
    BY <1>1, <1>t DEF View, TypeOK, Req, node
  <2> QED BY <1>t, <2>1, TextKept
<1>2. ASSUME NEW r \in Requests, Load(r) PROVE TextInv'
  <2>1. req[r].sid \in Sids
    BY <1>2, <1>t, ReqFields DEF Load, TypeOK
  <2>2. PICK k \in Slots :
          /\ task' = [task EXCEPT ![k] = [at |-> "queued", sid |-> req[r].sid, tmpl |-> tmpl[req[r].sid],
                                          awaited |-> stored[req[r].sid] = Blank]]
          /\ req' = [req EXCEPT ![r] =
                       IF stored[req[r].sid] = Blank THEN [Req("await", req[r].sid) EXCEPT !.slot = k]
                       ELSE [Req("store", req[r].sid) EXCEPT !.text = stored[req[r].sid]]]
    BY <1>2 DEF Load
  <2>3. task'[k].at = "queued" /\ \A l \in Slots \ {k} : task'[l] = task[l]
    BY <1>t, <2>2 DEF TypeOK
  <2>4. /\ req'[r].at = "store" => stored[req[r].sid] # Blank /\ req'[r].text = stored[req[r].sid]
        /\ \A q \in Requests \ {r} : req'[q] = req[q]
    BY <1>t, <2>2 DEF TypeOK, Req
  <2>5. req'[r].at = "store" => req'[r].text \in Rendered
    BY <2>1, <2>4 DEF TextInv
  <2>6. UNCHANGED stored
    BY <1>2 DEF Load, node
  <2> QED BY <1>t, <2>3, <2>4, <2>5, <2>6, TextKept
<1>3. ASSUME NEW r \in Requests, Await(r) PROVE TextInv'
  <2> DEFINE k == req[r].slot
  <2>1. k \in Slots /\ task[k].at \in {"failed", "rendered"} /\ task[k].tmpl \in Versions
    BY <1>3, <1>t, ReqFields, TaskFields DEF Await, TypeOK
  <2>2. ResultOf(task[k]) \in Rendered
    BY <2>1, VersionsRender DEF TextInv, ResultOf
  <2>3. task'[k].at = "free" /\ \A l \in Slots \ {k} : task'[l] = task[l]
    BY <1>3, <1>t, <2>1 DEF Await, TypeOK, FreeTask
  <2>4. req'[r].text = ResultOf(task[k]) /\ \A q \in Requests \ {r} : req'[q] = req[q]
    BY <1>3, <1>t DEF Await, TypeOK, Req
  <2>5. UNCHANGED stored
    BY <1>3 DEF Await, node
  <2> HIDE DEF k
  <2> QED BY <1>t, <2>2, <2>3, <2>4, <2>5, TextKept
<1>4. ASSUME NEW r \in Requests, Store(r) PROVE TextInv'
  <2>1. UNCHANGED <<stored, task>> /\ req'[r].at = "idle" /\ \A q \in Requests \ {r} : req'[q] = Woken(req[r].sid)[q]
    BY <1>4 DEF Store, Woken, IdleReq, node
  <2>2. \A q \in Requests : req'[q].at = "store" => req'[q] = req[q]
    BY <1>w, <2>1
  <2> QED BY <1>t, <2>1, <2>2, TextKept
<1>5. ASSUME NEW r \in Requests, Invalidate(r) PROVE TextInv'
  <2>1. /\ UNCHANGED <<stored, task>> /\ req'[r].at = "idle"
        /\ \A q \in Requests \ {r} : req'[q] = req[q]
    BY <1>5, <1>t DEF Invalidate, TypeOK, IdleReq, node
  <2> QED BY <1>t, <2>1, TextKept
<1>6. ASSUME NEW k \in Slots, TaskMerges(k) PROVE TextInv'
  <2>1. task[k].sid \in Sids /\ task[k].tmpl \in Versions /\ task[k].tmpl \notin Broken
    BY <1>6, <1>t, TaskFields DEF TaskMerges, TypeOK
  <2>2. task[k] \in [at : {"queued", "merged", "put", "failed", "rendered"}, sid : Sids,
                     tmpl : Versions, awaited : BOOLEAN]
    BY <1>6, <1>t, TaskFields DEF TaskMerges, TypeOK
  <2>3. task'[k].tmpl = task[k].tmpl /\ \A l \in Slots \ {k} : task'[l] = task[l]
    BY <1>6, <1>t, <2>2 DEF TaskMerges, TypeOK
  <2>4. \A s \in Sids : stored'[s] \in {stored[s], task[k].tmpl}
    BY <1>6, <1>t DEF TaskMerges, TypeOK
  <2>5. \A s \in Sids : stored'[s] \in Rendered \cup {Blank}
    BY <2>1, <2>4, VersionsRender DEF TextInv
  <2>6. req' = req
    BY <1>6 DEF TaskMerges
  <2> QED BY <1>t, <2>1, <2>3, <2>5, <2>6 DEF TextInv, Rendered
<1>7. ASSUME NEW k \in Slots, TaskFails(k) \/ TaskCommits(k) PROVE TextInv'
  <2>1. /\ UNCHANGED <<stored, req>> /\ task[k].at \in {"queued", "put"}
        /\ Over(k, "failed") \/ (task[k].at = "put" /\ Over(k, "rendered"))
    BY <1>7 DEF TaskFails, TaskCommits, node
  <2>2. task[k] \in [at : {"queued", "merged", "put", "failed", "rendered"}, sid : Sids,
                     tmpl : Versions, awaited : BOOLEAN]
    BY <1>t, <2>1, TaskFields DEF TypeOK
  <2>3. /\ task'[k].at \in {"merged", "put", "rendered"} => task[k].at = "put" /\ task'[k].tmpl = task[k].tmpl
        /\ \A l \in Slots \ {k} : task'[l] = task[l]
    BY <1>t, <2>1, <2>2 DEF Over, TypeOK, FreeTask
  <2>4. \A l \in Slots : task'[l].at \in {"merged", "put", "rendered"} => task'[l].tmpl \notin Broken
    BY <2>3 DEF TextInv
  <2> QED BY <1>t, <2>1, <2>4 DEF TextInv, Rendered
<1>8. ASSUME NEW k \in Slots, TaskPuts(k) PROVE TextInv'
  <2>1. task[k] \in [at : {"queued", "merged", "put", "failed", "rendered"}, sid : Sids,
                     tmpl : Versions, awaited : BOOLEAN] /\ task[k].at = "merged"
    BY <1>8, <1>t, TaskFields DEF TaskPuts, TypeOK
  <2>2. task'[k].tmpl = task[k].tmpl /\ \A l \in Slots \ {k} : task'[l] = task[l]
    BY <1>8, <1>t, <2>1 DEF TaskPuts, TypeOK
  <2>3. UNCHANGED stored /\ req' = Woken(task[k].sid)
    BY <1>8 DEF TaskPuts, node
  <2>4. \A q \in Requests : req'[q].at = "store" => req'[q] = req[q]
    BY <1>w, <2>3
  <2>5. \A q \in Requests : req'[q].at = "store" => req'[q].text \in Rendered
    BY <2>4 DEF TextInv
  <2>6. \A l \in Slots : task'[l].at \in {"merged", "put", "rendered"} => task'[l].tmpl \notin Broken
    BY <2>1, <2>2 DEF TextInv
  <2> QED BY <1>t, <2>3, <2>5, <2>6 DEF TextInv, Rendered
<1>9. ASSUME NEW r \in Requests, NEW s \in Sids, Edit(r, s) PROVE TextInv'
  <2>1. /\ UNCHANGED <<stored, task>> /\ req'[r].at = "invalidate"
        /\ \A q \in Requests \ {r} : req'[q] = req[q]
    BY <1>9, <1>t DEF Edit, TypeOK, Req
  <2> QED BY <1>t, <2>1, TextKept
<1>10. ASSUME NEW s \in Sids, RemoveSearcher(s) PROVE TextInv'
  <2>1. UNCHANGED <<req, task>> /\ \A t \in Sids : stored'[t] \in {stored[t], Blank}
    BY <1>10, <1>t DEF RemoveSearcher, TypeOK
  <2> QED BY <1>t, <2>1 DEF TextInv, Rendered
<1>11. ASSUME NEW s \in Sids, Expire(s) PROVE TextInv'
  BY <1>11, <1>q DEF Expire, node
<1>12. CASE UNCHANGED vars
  BY <1>12, <1>q DEF vars
<1> QED BY <1>1, <1>2, <1>3, <1>4, <1>5, <1>6, <1>7, <1>8, <1>9, <1>10, <1>11, <1>12 DEF Next

------------------------------------------------------------------------------
(* What a view gets. *)
OfEntry(e) == IF e.is = "held" THEN e ELSE NoEntry

LEMMA NotMerging ==
  ASSUME NEW s, \A k \in Slots : task[k].at = "merged" => task[k].sid # s
  PROVE  ShownNow(s) = OfEntry(cache[s])
BY DEF ShownNow, Merging, OfEntry

LEMMA OneMerging ==
  ASSUME OneHolder, NEW k \in Slots, task[k].at = "merged"
  PROVE  ShownNow(task[k].sid) = Held(task[k].tmpl, TRUE)
<1>1. Merging(task[k].sid) = {k}
  BY DEF OneHolder, Merging
<1>2. (CHOOSE l \in {k} : TRUE) = k
  OBVIOUS
<1> QED BY <1>1, <1>2 DEF ShownNow

(* A step that neither starts nor ends a merge. *)
MergesAlike ==
  \A k \in Slots : task'[k] = task[k] \/ (task[k].at # "merged" /\ task'[k].at # "merged")

LEMMA ShownAfter ==
  ASSUME MergesAlike, NEW s
  PROVE  \/ ShownNow(s)' = ShownNow(s)
         \/ ShownNow(s)' = OfEntry(cache'[s]) /\ ShownNow(s) = OfEntry(cache[s])
<1> DEFINE M == {k \in Slots : task[k].at = "merged" /\ task[k].sid = s}
           N == {k \in Slots : task'[k].at = "merged" /\ task'[k].sid = s}
<1>1. N = M /\ \A k \in M : task'[k] = task[k]
  BY DEF MergesAlike
<1>2. Merging(s) = M /\ Merging(s)' = N
  BY DEF Merging
<1>3. M # {} => (CHOOSE k \in M : TRUE) \in M
  OBVIOUS
<1> HIDE DEF M, N
<1>4. CASE M = {}
  BY <1>1, <1>2, <1>4 DEF ShownNow, OfEntry
<1>5. CASE M # {}
  <2> DEFINE c == CHOOSE k \in M : TRUE
  <2>1. task'[c] = task[c]
    BY <1>1, <1>3, <1>5
  <2>2. ShownNow(s) = Held(task[c].tmpl, TRUE) /\ ShownNow(s)' = Held(task'[c].tmpl, TRUE)
    BY <1>1, <1>2, <1>5 DEF ShownNow
  <2> QED BY <2>1, <2>2
<1> QED BY <1>4, <1>5

(* The steps of PopularTexts, in terms of what a view gets.                   *)
ShownStays == \A s \in Sids : ShownNow(s)' = ShownNow(s)
AskedStays == \A k \in Slots : Asked(k)' = Asked(k)
ShownOnlyAt(s, e) == ShownNow(s)' = e /\ \A t \in Sids \ {s} : ShownNow(t)' = ShownNow(t)
AskedOnlyAt(k, j) == Asked(k)' = j /\ \A l \in Slots \ {k} : Asked(l)' = Asked(l)

LEMMA ShownIs ==
  /\ ShownStays => [s \in Sids |-> ShownNow(s)]' = [s \in Sids |-> ShownNow(s)]
  /\ \A s \in Sids : \A e : ShownOnlyAt(s, e) =>
       [t \in Sids |-> ShownNow(t)]' = [[t \in Sids |-> ShownNow(t)] EXCEPT ![s] = e]
  /\ AskedStays => [k \in Slots |-> Asked(k)]' = [k \in Slots |-> Asked(k)]
  /\ \A k \in Slots : \A j : AskedOnlyAt(k, j) =>
       [l \in Slots |-> Asked(l)]' = [[l \in Slots |-> Asked(l)] EXCEPT ![k] = j]
BY DEF ShownStays, AskedStays, ShownOnlyAt, AskedOnlyAt

LEMMA SameTexts ==
  ASSUME ShownStays, AskedStays, UNCHANGED node
  PROVE  UNCHANGED AtOnce!vars
BY ShownIs DEF AtOnce!vars, node

LEMMA Fills ==
  ASSUME NEW s \in Sids, NEW t \in Rendered, ShownNow(s) = NoEntry, ShownOnlyAt(s, Held(t, FALSE)),
         AskedStays, UNCHANGED node
  PROVE  AtOnce!Next
<1>1. AtOnce!Fill(s)
  BY ShownIs DEF AtOnce!Fill, AtOnce!Nothing, AtOnce!Shown, Held, NoEntry, Rendered, node
<1> QED BY <1>1 DEF AtOnce!Next

LEMMA Forgets ==
  ASSUME NEW s \in Sids, ShownOnlyAt(s, NoEntry), AskedStays, UNCHANGED node
  PROVE  AtOnce!Next
<1>1. AtOnce!Forget(s)
  BY ShownIs DEF AtOnce!Forget, AtOnce!Nothing, NoEntry, node
<1> QED BY <1>1 DEF AtOnce!Next

NotAsked == [sid |-> "none", tmpl |-> 0]

LEMMA Asks ==
  ASSUME NEW k \in Slots, NEW s \in Sids, Asked(k) = NotAsked,
         AskedOnlyAt(k, [sid |-> s, tmpl |-> tmpl[s]]), ShownStays, UNCHANGED node
  PROVE  AtOnce!Next
<1>1. AtOnce!Ask(k, s)
  BY ShownIs DEF AtOnce!Ask, AtOnce!NoJob, NotAsked, node
<1> QED BY <1>1 DEF AtOnce!Next

LEMMA Rejects ==
  ASSUME NEW k \in Slots, Asked(k) # NotAsked, Asked(k).tmpl \in Broken,
         AskedOnlyAt(k, NotAsked), ShownStays, UNCHANGED node
  PROVE  AtOnce!Next
<1>1. AtOnce!Reject(k)
  BY ShownIs DEF AtOnce!Reject, AtOnce!NoJob, NotAsked, node
<1> QED BY <1>1 DEF AtOnce!Next

LEMMA Renders ==
  ASSUME NEW k \in Slots, NEW s \in Sids, NEW v, v \notin Broken, Asked(k) = [sid |-> s, tmpl |-> v],
         stored' = [stored EXCEPT ![s] = v], ShownOnlyAt(s, Held(v, TRUE)),
         AskedOnlyAt(k, NotAsked), UNCHANGED <<tmpl, edits>>
  PROVE  AtOnce!Next
<1>1. Asked(k) # NotAsked
  <2>1. Asked(k).sid # NotAsked.sid
    BY FreeIsNoSid DEF NotAsked
  <2> QED BY <2>1
<1> DEFINE J == [l \in Slots |-> Asked(l)]
           S == [t \in Sids |-> ShownNow(t)]
<1>2. J[k] = Asked(k) /\ J[k].sid = s /\ J[k].tmpl = v
  OBVIOUS
<1>3. J' = [J EXCEPT ![k] = NotAsked] /\ S' = [S EXCEPT ![s] = Held(v, TRUE)]
  BY ShownIs
<1>4. AtOnce!Render(k) <=>
        /\ J[k] # NotAsked /\ J[k].tmpl \notin Broken
        /\ stored' = [stored EXCEPT ![J[k].sid] = J[k].tmpl]
        /\ S' = [S EXCEPT ![J[k].sid] = Held(J[k].tmpl, TRUE)]
        /\ J' = [J EXCEPT ![k] = NotAsked]
        /\ UNCHANGED <<tmpl, edits>>
  BY DEF AtOnce!Render, AtOnce!NoJob, AtOnce!Shown, Held, NotAsked
<1> HIDE DEF J, S
<1>5. AtOnce!Render(k)
  BY <1>1, <1>2, <1>3, <1>4
<1> QED BY <1>5 DEF AtOnce!Next

LEMMA AtOnceInit == Init => AtOnce!Init
<1> SUFFICES ASSUME Init PROVE AtOnce!Init
  OBVIOUS
<1>1. \A k \in Slots : task[k].at = "free" /\ Asked(k) = NotAsked
  BY DEF Init, FreeTask, Asked, NotAsked
<1>2. \A s \in Sids : ShownNow(s) = NoEntry
  BY <1>1, NotMerging DEF Init, OfEntry, NoEntry
<1> QED BY <1>1, <1>2 DEF Init, AtOnce!Init, AtOnce!Nothing, AtOnce!NoJob, NoEntry, NotAsked

(* A step that leaves the cache alone and starts or ends no merge.            *)
LEMMA CacheKept ==
  ASSUME UNCHANGED cache, MergesAlike PROVE ShownStays
BY ShownAfter DEF ShownStays

(* The cache drops an entry: to a view, that is nothing or the entry's end.   *)
LEMMA DropForgets ==
  ASSUME TypeOK, NEW s \in Sids, Drop(s), UNCHANGED task, UNCHANGED node
  PROVE  AtOnce!Next \/ UNCHANGED AtOnce!vars
<1>1. AskedStays /\ MergesAlike
  BY DEF AskedStays, Asked, MergesAlike
<1>2. \A t \in Sids \ {s} : cache'[t] = cache[t]
  BY DEF Drop, TypeOK
<1>3. \A t \in Sids \ {s} : ShownNow(t)' = ShownNow(t)
  BY <1>1, <1>2, ShownAfter
<1>4. cache'[s] = cache[s] \/ cache'[s] = NoEntry
  BY DEF Drop, TypeOK
<1>5. ShownNow(s)' = ShownNow(s) \/ ShownNow(s)' = NoEntry
  BY <1>1, <1>4, ShownAfter DEF OfEntry
<1> QED BY <1>1, <1>3, <1>5, SameTexts, Forgets DEF ShownStays, ShownOnlyAt

LEMMA LoadFills ==
  ASSUME TypeOK, NEW s \in Sids, NEW t \in Rendered, StoreLoaded(s, t), UNCHANGED task, UNCHANGED node
  PROVE  AtOnce!Next \/ UNCHANGED AtOnce!vars
<1>1. AskedStays /\ MergesAlike
  BY DEF AskedStays, Asked, MergesAlike
<1>2. \A q \in Sids \ {s} : cache'[q] = cache[q]
  BY DEF StoreLoaded, TypeOK
<1>3. \A q \in Sids \ {s} : ShownNow(q)' = ShownNow(q)
  BY <1>1, <1>2, ShownAfter
<1>4. cache'[s] = cache[s] \/ (cache[s].is # "held" /\ cache'[s] = Held(t, FALSE))
  BY DEF StoreLoaded, TypeOK
<1>5. \/ ShownNow(s)' = ShownNow(s)
      \/ ShownNow(s) = NoEntry /\ ShownNow(s)' = Held(t, FALSE)
  BY <1>1, <1>4, ShownAfter DEF OfEntry, Held
<1> QED BY <1>1, <1>3, <1>5, SameTexts, Fills DEF ShownStays, ShownOnlyAt

(* The tasks in terms of what was asked for. *)
LEMMA TaskRenders ==
  ASSUME TypeOK, OneHolder, OneHolder', NEW k \in Slots, TaskMerges(k)
  PROVE  AtOnce!Next
<1>1. task[k] \in [at : {"queued", "merged", "put", "failed", "rendered"}, sid : Sids,
                   tmpl : Versions, awaited : BOOLEAN]
  BY TaskFields DEF TaskMerges, TypeOK
<1>v. PICK s \in Sids, v \in Versions : task[k].sid = s /\ task[k].tmpl = v
  BY <1>1
<1>2. /\ task[k].at = "queued" /\ v \notin Broken
      /\ stored' = [stored EXCEPT ![s] = v] /\ UNCHANGED <<tmpl, edits, cache>>
      /\ \A l \in Slots : task[l].at # "merged"
  BY <1>v, <1>1 DEF TaskMerges, LockFree
<1>3. /\ task'[k].at = "merged" /\ task'[k].sid = s /\ task'[k].tmpl = v
      /\ \A l \in Slots \ {k} : task'[l] = task[l]
  BY <1>v, <1>1 DEF TaskMerges, TypeOK
<1>4. ASSUME NEW t \in Sids PROVE ShownNow(t) = OfEntry(cache[t])
  BY <1>2, NotMerging
<1>5. ASSUME NEW t \in Sids, t # s PROVE ShownNow(t)' = OfEntry(cache'[t])
  <2>1. Merging(t)' = {}
    BY <1>2, <1>3, <1>5 DEF Merging
  <2> QED BY <2>1 DEF ShownNow, OfEntry
<1>6. ShownNow(s)' = Held(v, TRUE)
  <2>1. {l \in Slots : task'[l].at = "merged" /\ task'[l].sid = s} = {k}
    BY <1>2, <1>3
  <2>2. (CHOOSE l \in {k} : TRUE) = k
    OBVIOUS
  <2> QED BY <1>3, <2>1, <2>2 DEF ShownNow, Merging
<1>7. Asked(k) = [sid |-> s, tmpl |-> v] /\ AskedOnlyAt(k, NotAsked)
  BY <1>v, <1>2, <1>3 DEF Asked, AskedOnlyAt, NotAsked
<1>8. ShownOnlyAt(s, Held(v, TRUE))
  BY <1>2, <1>4, <1>5, <1>6 DEF ShownOnlyAt
<1> QED BY <1>2, <1>7, <1>8, Renders

LEMMA TaskShows ==
  ASSUME TypeOK, OneHolder, NEW k \in Slots, TaskPuts(k)
  PROVE  UNCHANGED AtOnce!vars
<1>1. task[k] \in [at : {"queued", "merged", "put", "failed", "rendered"}, sid : Sids,
                   tmpl : Versions, awaited : BOOLEAN]
  BY TaskFields DEF TaskPuts, TypeOK
<1>v. PICK s \in Sids, v \in Versions : task[k].sid = s /\ task[k].tmpl = v
  BY <1>1
<1>2. /\ task[k].at = "merged" /\ UNCHANGED node
      /\ \A l \in Slots \ {k} : task[l].at # "merged"
  BY <1>v, <1>1 DEF TaskPuts, OneHolder
<1>3. task'[k].at = "put" /\ \A l \in Slots \ {k} : task'[l] = task[l]
  BY <1>v, <1>1 DEF TaskPuts, TypeOK
<1>4. cache'[s] = Held(v, TRUE) /\ \A t \in Sids \ {s} : cache'[t] = cache[t]
  BY <1>v, <1>2 DEF TaskPuts, TypeOK
<1>5. ASSUME NEW t \in Sids PROVE ShownNow(t)' = OfEntry(cache'[t])
  <2>1. Merging(t)' = {}
    BY <1>2, <1>3 DEF Merging
  <2> QED BY <2>1 DEF ShownNow, OfEntry
<1>6. ShownNow(s) = Held(v, TRUE)
  BY <1>v, <1>2, OneMerging
<1>7. ASSUME NEW t \in Sids, t # s PROVE ShownNow(t) = OfEntry(cache[t])
  BY <1>v, <1>2, <1>7, NotMerging
<1>8. AskedStays
  BY <1>2, <1>3 DEF AskedStays, Asked
<1>9. ShownStays
  <2> SUFFICES ASSUME NEW t \in Sids PROVE ShownNow(t)' = ShownNow(t)
    BY DEF ShownStays
  <2>1. ShownNow(t)' = OfEntry(cache'[t])
    BY <1>5
  <2>2. CASE t = s
    <3>1. OfEntry(Held(v, TRUE)) = Held(v, TRUE)
      BY DEF OfEntry, Held
    <3>2. ShownNow(t)' = Held(v, TRUE)
      BY <1>4, <2>1, <2>2, <3>1
    <3> QED BY <1>6, <2>2, <3>2
  <2>3. CASE t # s
    BY <1>4, <1>7, <2>1, <2>3
  <2> QED BY <2>2, <2>3
<1> QED BY <1>2, <1>8, <1>9, SameTexts

LEMMA TaskEnds ==
  ASSUME TypeOK, NEW k \in Slots, TaskFails(k) \/ TaskCommits(k)
  PROVE  AtOnce!Next \/ UNCHANGED AtOnce!vars
<1>1. task[k] \in [at : {"queued", "merged", "put", "failed", "rendered"}, sid : Sids,
                   tmpl : Versions, awaited : BOOLEAN]
  BY TaskFields DEF TaskFails, TaskCommits, TypeOK
<1>2. /\ UNCHANGED <<node, cache>> /\ task[k].at \in {"queued", "put"}
      /\ Over(k, "failed") \/ Over(k, "rendered")
      /\ task[k].at = "queued" => task[k].tmpl \in Broken
  BY DEF TaskFails, TaskCommits, node
<1>3. task'[k].at \in {"free", "failed", "rendered"} /\ \A l \in Slots \ {k} : task'[l] = task[l]
  BY <1>1, <1>2 DEF Over, TypeOK, FreeTask
<1>4. ShownStays
  BY <1>2, <1>3, CacheKept DEF MergesAlike
<1>5. AskedOnlyAt(k, NotAsked)
  BY <1>3 DEF AskedOnlyAt, Asked, NotAsked
<1>6. CASE task[k].at = "put"
  <2>1. AskedStays
    BY <1>3, <1>5, <1>6 DEF AskedOnlyAt, AskedStays, Asked, NotAsked
  <2> QED BY <1>2, <1>4, <2>1, SameTexts DEF node
<1>7. CASE task[k].at = "queued"
  <2>1. Asked(k) = [sid |-> task[k].sid, tmpl |-> task[k].tmpl] /\ task[k].sid \in Sids
    BY <1>1, <1>7 DEF Asked
  <2>2. Asked(k) # NotAsked
    <3>1. Asked(k).sid # NotAsked.sid
      BY <2>1, FreeIsNoSid DEF NotAsked
    <3> QED BY <3>1
  <2>3. Asked(k).tmpl \in Broken
    BY <1>2, <1>7, <2>1
  <2> QED BY <1>2, <1>4, <1>5, <2>2, <2>3, Rejects DEF node
<1> QED BY <1>2, <1>6, <1>7

LEMMA AtOnceStep == TextInv /\ TextInv' /\ [Next]_vars => [AtOnce!Next]_(AtOnce!vars)
<1> SUFFICES ASSUME TextInv, TextInv', [Next]_vars PROVE AtOnce!Next \/ UNCHANGED AtOnce!vars
  OBVIOUS
<1>t. TypeOK /\ OneHolder /\ OneHolder'
  BY DEF TextInv, StoreInv
<1>q. ASSUME UNCHANGED task PROVE AskedStays /\ MergesAlike
  BY <1>q DEF AskedStays, Asked, MergesAlike
<1>1. ASSUME NEW r \in Requests, NEW s \in Sids, View(r, s) PROVE UNCHANGED AtOnce!vars
  <2>1. UNCHANGED node /\ UNCHANGED task
    BY <1>1 DEF View
  <2>2. ASSUME NEW t \in Sids PROVE OfEntry(cache'[t]) = OfEntry(cache[t])
    BY <1>1, <1>t DEF View, TypeOK, OfEntry, Loading
  <2>3. ShownStays
    BY <1>q, <2>1, <2>2, ShownAfter DEF ShownStays
  <2> QED BY <1>q, <2>1, <2>3, SameTexts
<1>2. ASSUME NEW r \in Requests, Load(r) PROVE AtOnce!Next
  <2> DEFINE s == req[r].sid
  <2>1. s \in Sids /\ UNCHANGED node /\ UNCHANGED cache
    BY <1>2, <1>t, ReqFields DEF Load, TypeOK
  <2>2. PICK k \in Slots : task[k] = FreeTask /\ task' = [task EXCEPT ![k] =
            [at |-> "queued", sid |-> s, tmpl |-> tmpl[s], awaited |-> stored[s] = Blank]]
    BY <1>2 DEF Load
  <2>3. /\ task'[k] = [at |-> "queued", sid |-> s, tmpl |-> tmpl[s], awaited |-> stored[s] = Blank]
        /\ \A l \in Slots \ {k} : task'[l] = task[l]
    BY <1>t, <2>2 DEF TypeOK
  <2> HIDE DEF s
  <2>4. Asked(k) = NotAsked /\ AskedOnlyAt(k, [sid |-> s, tmpl |-> tmpl[s]])
    BY <2>2, <2>3 DEF Asked, AskedOnlyAt, NotAsked, FreeTask
  <2>5. ShownStays
    BY <2>1, <2>2, <2>3, CacheKept DEF MergesAlike, FreeTask
  <2> QED BY <2>1, <2>4, <2>5, Asks
<1>3. ASSUME NEW r \in Requests, Await(r) PROVE UNCHANGED AtOnce!vars
  <2> DEFINE k == req[r].slot
  <2>1. k \in Slots /\ task[k].at \in {"failed", "rendered"} /\ UNCHANGED node /\ UNCHANGED cache
    BY <1>3, <1>t, ReqFields DEF Await, TypeOK
  <2>2. task'[k].at = "free" /\ \A l \in Slots \ {k} : task'[l] = task[l]
    BY <1>3, <1>t, <2>1 DEF Await, TypeOK, FreeTask
  <2> HIDE DEF k
  <2>3. AskedStays /\ ShownStays
    BY <2>1, <2>2, CacheKept DEF AskedStays, Asked, MergesAlike
  <2> QED BY <2>1, <2>3, SameTexts
<1>4. ASSUME NEW r \in Requests, Store(r) PROVE AtOnce!Next \/ UNCHANGED AtOnce!vars
  <2>1. req[r].sid \in Sids /\ req[r].text \in Rendered
    BY <1>4, <1>t, ReqFields DEF Store, TypeOK, TextInv
  <2>2. StoreLoaded(req[r].sid, req[r].text) /\ UNCHANGED task /\ UNCHANGED node
    BY <1>4 DEF Store
  <2> QED BY <1>t, <2>1, <2>2, LoadFills
<1>5. ASSUME NEW r \in Requests, Invalidate(r) PROVE AtOnce!Next \/ UNCHANGED AtOnce!vars
  <2>1. req[r].sid \in Sids /\ Drop(req[r].sid) /\ UNCHANGED task /\ UNCHANGED node
    BY <1>5, <1>t, ReqFields DEF Invalidate, TypeOK
  <2> QED BY <1>t, <2>1, DropForgets
<1>6. ASSUME NEW s \in Sids, Expire(s) PROVE AtOnce!Next \/ UNCHANGED AtOnce!vars
  BY <1>6, <1>t, DropForgets DEF Expire
<1>7. ASSUME NEW r \in Requests, NEW s \in Sids, Edit(r, s) PROVE AtOnce!Next
  <2>1. AskedStays /\ ShownStays
    BY <1>7, <1>q, CacheKept DEF Edit
  <2>2. AtOnce!Edit(s)
    BY <1>7, <2>1, ShownIs DEF Edit, AtOnce!Edit
  <2> QED BY <2>2 DEF AtOnce!Next
<1>8. ASSUME NEW s \in Sids, RemoveSearcher(s) PROVE AtOnce!Next
  <2>1. AskedStays /\ ShownStays
    BY <1>8, <1>q, CacheKept DEF RemoveSearcher
  <2>2. AtOnce!Remove(s)
    BY <1>8, <2>1, ShownIs DEF RemoveSearcher, AtOnce!Remove
  <2> QED BY <2>2 DEF AtOnce!Next
<1>9. CASE UNCHANGED vars
  <2>1. AskedStays /\ ShownStays
    BY <1>9, <1>q, CacheKept DEF vars
  <2> QED BY <1>9, <2>1, SameTexts DEF vars, node
<1> QED BY <1>1, <1>2, <1>3, <1>4, <1>5, <1>6, <1>7, <1>8, <1>9, <1>t,
           TaskRenders, TaskShows, TaskEnds DEF Next

(* The popular queries of PopularQueryEntry implement PopularTexts: a text    *)
(* reaches the store and the views in one step, a load only fills a gap, and  *)
(* what does not render is neither stored nor shown.                          *)
THEOREM RenderingsAreAtOnce == Spec => RendersAtOnce
<1>1. Spec => []TextInv
  BY TextInit, TextStep, PTL DEF Spec
<1> QED BY <1>1, AtOnceInit, AtOnceStep, PTL DEF Spec, RendersAtOnce, AtOnce!Spec
==============================================================================
