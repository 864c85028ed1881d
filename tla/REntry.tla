------------------------------- MODULE REntry -------------------------------
(* webapp/REntry.java with IndexManager and SearchManager, and the requests  *)
(* of IndexerWeb and SearcherWeb that change the stored definitions.         *)
(*                                                                           *)
(* A request runs one transaction: under the workspace's write lock its puts *)
(* and removes reach the map one by one, and each is followed, in the same   *)
(* thread, by the CDD handler of its path, which changes the managers in     *)
(* memory.  An exception in a handler ends the transaction: the store is     *)
(* rolled back (when it can be), the managers are not.  Lookups by queries   *)
(* take no lock, so they see every state in between.                         *)
EXTENDS CrakenStore, Functions

CONSTANTS
  First,          \* the element HashSet iterates first: cols[0] of registerSearcher
  Transactional,  \* TRUE: store "fs", FALSE: store "memory" (niss-config.xml)
  MaxControllers  \* bound: SearchControllers one process may open

ASSUME FirstChooses == \A T \in SUBSET Iids : T # {} => First[T] \in T
ASSUME TransactionalIsBool == Transactional \in BOOLEAN
ASSUME MaxControllersIsNat == MaxControllers \in Nat

VARIABLES
  phase,  \* "down", "up", or "failed": the constructor threw
  db,     \* the committed store
  wk,     \* the store as every thread reads it
  tran,   \* the transaction that holds the write lock, or Idle
  ctl,    \* the SearchControllers this process opened, in order
  idx,    \* IndexManager.indexes: position in ctl, 0 for none
  srch    \* SearchManager.searchers, or Unregistered

vars == <<phase, db, wk, tran, ctl, idx, srch>>
memory == <<ctl, idx, srch>>

NoFields == [f \in Fields |-> Null]

Controller == [iid : Iids, ia : Good, qa : Good, fields : [Fields -> Good \cup {Null}],
               open : BOOLEAN]
NewController(i) == [iid |-> i, ia |-> Standard, qa |-> Standard,
                     fields |-> NoFields, open |-> TRUE]

(* base is searched once, append once more each. *)
Searcher == [base : Nat \ {0}, append : SUBSET (Nat \ {0}), fields : [Fields -> Good \cup {Null}]]
Unregistered == [base |-> 0, append |-> {}, fields |-> NoFields]

Tran == [open : {TRUE}, puts : Seq(Puts), dels : SUBSET Removes]
Idle == [open |-> FALSE, puts |-> <<>>, dels |-> {}]

TypeOK ==
  /\ phase \in {"down", "up", "failed"}
  /\ db \in Store /\ wk \in Store
  /\ tran \in Tran \cup {Idle}
  /\ ctl \in Seq(Controller)
  /\ idx \in [Iids -> 0..Len(ctl)]
  /\ srch \in [Sids -> Searcher \cup {Unregistered}]

Init ==
  /\ phase = "down"
  /\ db = EmptyStore /\ wk = EmptyStore
  /\ tran = Idle
  /\ ctl = <<>>
  /\ idx = [i \in Iids |-> 0]
  /\ srch = [s \in Sids |-> Unregistered]

Registered(i) == idx[i] # 0
------------------------------------------------------------------------------
(* registerSearcher.  The map of controllers and the store are parameters:   *)
(* at startup they are the ones being loaded.                                *)

Appended(ix, T) ==
  IF Cardinality(T) = 1 THEN {} ELSE {ix[i] : i \in {j \in T : ix[j] # 0}}

SchemaNames(st, s) == {st.ss[<<s, f>>] : f \in Fields} \ {Absent}

(* indexManager.index(cols[0]) is null, or makeAnalyzer throws. *)
RegisterThrows(ix, st, s, v) ==
  /\ v.target # {}
  /\ \/ ix[First[v.target]] = 0
     \/ v.qa = Bad
     \/ ~ SchemaNames(st, s) \subseteq Good

(* Variant: the schemas are left to their own handler. *)
RegisterSearcherBare(ix, st, s, v) ==
  [base |-> ix[First[v.target]], append |-> Appended(ix, v.target), fields |-> NoFields]

RegisterSearcher(ix, st, s, v) ==
  [base |-> ix[First[v.target]],
   append |-> Appended(ix, v.target),
   fields |-> [f \in Fields |-> IF st.ss[<<s, f>>] = Absent THEN Null ELSE st.ss[<<s, f>>]]]
------------------------------------------------------------------------------
(* The transaction: MapWorkspace.tran.                                       *)

Begin(puts, dels) ==
  /\ phase = "up" /\ tran = Idle
  /\ tran' = [open |-> TRUE, puts |-> puts, dels |-> dels]
  /\ UNCHANGED <<phase, db, wk, memory>>

PutsAt(at) == tran.puts # <<>> /\ Head(tran.puts).at = at
NextPut == Head(tran.puts)

(* The put is in the map and its handler returned. *)
PutDone ==
  /\ wk' = Put(wk, NextPut)
  /\ tran' = [tran EXCEPT !.puts = Tail(@)]
  /\ UNCHANGED <<phase, db>>

(* Variant: no rollback. *)
PutFailedKept ==
  /\ wk' = Put(wk, NextPut)
  /\ db' = wk' /\ tran' = Idle /\ UNCHANGED phase

(* The handler threw: rollback, unlock.  The memory store cannot roll back.  *)
PutFailed ==
  /\ wk' = IF Transactional THEN db ELSE Put(wk, NextPut)
  /\ db' = wk'
  /\ tran' = Idle
  /\ UNCHANGED phase

Removing(d) ==
  /\ tran.puts = <<>> /\ d \in tran.dels
  /\ wk' = Take(wk, d)
  /\ tran' = [tran EXCEPT !.dels = @ \ {d}]
  /\ UNCHANGED <<phase, db>>

Commit ==
  /\ tran # Idle /\ tran.puts = <<>> /\ tran.dels = {}
  /\ db' = wk
  /\ tran' = Idle
  /\ UNCHANGED <<phase, wk, memory>>
------------------------------------------------------------------------------
(* The CDD handlers.                                                         *)

(* Variant: a controller is opened only for a node that names an analyzer. *)
IndexerCreatedWhenNamed ==
  /\ PutsAt("ix") /\ ~ Registered(NextPut.key)
  /\ IF NextPut.val.ia = Null THEN UNCHANGED <<ctl, idx>>
     ELSE /\ ctl' = Append(ctl, NewController(NextPut.key))
          /\ idx' = [idx EXCEPT ![NextPut.key] = Len(ctl) + 1]
  /\ PutDone
  /\ UNCHANGED srch

(* niss.indexers, a path that has no controller yet: open one. *)
IndexerCreated ==
  /\ PutsAt("ix") /\ ~ Registered(NextPut.key)
  /\ ctl' = Append(ctl, NewController(NextPut.key))
  /\ idx' = [idx EXCEPT ![NextPut.key] = Len(ctl) + 1]
  /\ PutDone
  /\ UNCHANGED srch

(* Variant: only a property that is not there gives way to the current name. *)
ChosenIfNull(name, current) == IF name = Null THEN current ELSE name

Chosen(name, current) == IF name \in {Null, Blank} THEN current ELSE name

(* niss.indexers, a known one: first the index analyzer, then the query      *)
(* analyzer; the second may throw when the first is already replaced.        *)
IndexerModified ==
  /\ PutsAt("ix") /\ Registered(NextPut.key)
  /\ LET c  == idx[NextPut.key]
         ia == Chosen(NextPut.val.ia, ctl[c].ia)
         qa == Chosen(NextPut.val.qa, ctl[c].qa)
     IN \/ /\ ia = Bad
           /\ PutFailed /\ UNCHANGED ctl
        \/ /\ ia # Bad /\ qa = Bad
           /\ ctl' = [ctl EXCEPT ![c].ia = ia]
           /\ PutFailed
        \/ /\ ia # Bad /\ qa # Bad
           /\ ctl' = [ctl EXCEPT ![c].ia = ia, ![c].qa = qa]
           /\ PutDone
  /\ UNCHANGED <<idx, srch>>

(* Variant: the controller is dropped and never closed. *)
IndexerDeletedLeavesOpen ==
  \E i \in Iids :
    /\ Removing([at |-> "ix", key |-> i])
    /\ idx' = [idx EXCEPT ![i] = 0]
    /\ UNCHANGED <<ctl, srch>>

(* Variant: the controller is closed and still handed out. *)
IndexerDeletedKeepsEntry ==
  \E i \in Iids :
    /\ Removing([at |-> "ix", key |-> i])
    /\ ctl' = IF Registered(i) THEN [ctl EXCEPT ![idx[i]].open = FALSE] ELSE ctl
    /\ UNCHANGED <<idx, srch>>

IndexerDeleted ==
  \E i \in Iids :
    /\ Removing([at |-> "ix", key |-> i])
    /\ ctl' = IF Registered(i) THEN [ctl EXCEPT ![idx[i]].open = FALSE] ELSE ctl
    /\ idx' = [idx EXCEPT ![i] = 0]
    /\ UNCHANGED srch

IsManual(v) == v \in Names

(* niss.indexers.schema *)
IndexSchemaModified ==
  /\ PutsAt("is")
  /\ LET i == NextPut.key[1]
         f == NextPut.key[2]
         v == NextPut.val
         effective == Registered(i) /\ IsManual(v)
     IN \/ /\ ~ effective
           /\ PutDone /\ UNCHANGED ctl
        \/ /\ effective /\ v = Bad
           /\ PutFailed /\ UNCHANGED ctl
        \/ /\ effective /\ v # Bad
           /\ ctl' = [ctl EXCEPT ![idx[i]].fields[f] = v]
           /\ PutDone
  /\ UNCHANGED <<idx, srch>>

IndexSchemaDeleted ==
  \E i \in Iids, f \in Fields :
    /\ Removing([at |-> "is", key |-> <<i, f>>])
    /\ ctl' = IF Registered(i) THEN [ctl EXCEPT ![idx[i]].fields[f] = Null] ELSE ctl
    /\ UNCHANGED <<idx, srch>>

(* niss.searchers.  The handler reads the schema nodes through a session     *)
(* that sees what the transaction has written so far.                        *)
SearcherModified ==
  /\ PutsAt("sr")
  /\ LET s == NextPut.key
         v == NextPut.val
     IN \/ /\ v.target = {}
           /\ PutDone /\ UNCHANGED srch
        \/ /\ RegisterThrows(idx, wk, s, v)
           /\ PutFailed /\ UNCHANGED srch
        \/ /\ v.target # {} /\ ~ RegisterThrows(idx, wk, s, v)
           /\ srch' = [srch EXCEPT ![s] = RegisterSearcher(idx, wk, s, v)]
           /\ PutDone
  /\ UNCHANGED <<ctl, idx>>

(* Variant: the searcher of a removed definition stays. *)
SearcherDeletedKeepsEntry ==
  /\ \E s \in Sids : Removing([at |-> "sr", key |-> s])
  /\ UNCHANGED memory

SearcherDeleted ==
  \E s \in Sids :
    /\ Removing([at |-> "sr", key |-> s])
    /\ srch' = [srch EXCEPT ![s] = Unregistered]
    /\ UNCHANGED <<ctl, idx>>

HasSearch(s) == srch[s] # Unregistered

(* Variant: a name that cannot be loaded is skipped, as one that is blank is  *)
(* by the indexers' handler.                                                 *)
SearchSchemaModifiedSkips ==
  /\ PutsAt("ss")
  /\ LET s == NextPut.key[1]
         f == NextPut.key[2]
     IN srch' = IF HasSearch(s) /\ NextPut.val \in Good
                THEN [srch EXCEPT ![s].fields[f] = NextPut.val] ELSE srch
  /\ PutDone
  /\ UNCHANGED <<ctl, idx>>

(* niss.searchers.schema.  Unlike the indexers' it does not ask whether the  *)
(* node names an analyzer: the "{}" of a new node makes it throw.            *)
SearchSchemaModified ==
  /\ PutsAt("ss")
  /\ LET s == NextPut.key[1]
         f == NextPut.key[2]
         v == NextPut.val
     IN \/ /\ ~ HasSearch(s)
           /\ PutDone /\ UNCHANGED srch
        \/ /\ HasSearch(s) /\ v \notin Good
           /\ PutFailed /\ UNCHANGED srch
        \/ /\ HasSearch(s) /\ v \in Good
           /\ srch' = [srch EXCEPT ![s].fields[f] = v]
           /\ PutDone
  /\ UNCHANGED <<ctl, idx>>

SearchSchemaDeleted ==
  \E s \in Sids, f \in Fields :
    /\ Removing([at |-> "ss", key |-> <<s, f>>])
    /\ srch' = IF HasSearch(s) THEN [srch EXCEPT ![s].fields[f] = Null] ELSE srch
    /\ UNCHANGED <<ctl, idx>>
------------------------------------------------------------------------------
(* The requests.  A controller is opened only under a bound.                 *)

Room(i) == idx[i] # 0 \/ Len(ctl) < MaxControllers

Merge(puts) == Begin(puts, {})

Remove(dels) == Begin(<<>>, dels)

(* "already exist" returns without a change. *)
CreateIndexer(i) ==
  /\ wk.ix[i] = Absent /\ Room(i)
  /\ Merge(MergeIndexer(wk, i, NoIndexerProps))

(* Variant: the node goes, its schemas stay. *)
RemoveIndexerNode(i) ==
  Remove({d \in RemoveIndexerTree(wk, i) : d.at = "ix"})

RemoveIndexer(i) == Remove(RemoveIndexerTree(wk, i))

DefineIndexer(i, ia, qa) ==
  /\ Room(i)
  /\ Merge(MergeIndexer(wk, i, [ia |-> ia, qa |-> qa]))

(* Writes a property whose name the request gives: one that the handlers do   *)
(* not read, and which fires them all the same, or one analyzer alone.        *)
UpdateField(i) ==
  /\ Room(i)
  /\ \E v \in WithField(IF wk.ix[i] = Absent THEN NoIndexerProps ELSE wk.ix[i]) :
       Merge(MergeIndexer(wk, i, v))

AddIndexSchema(i, f, v) ==
  /\ v # Empty /\ Room(i)
  /\ Merge(MergeIndexSchema(wk, i, f, v))

RemoveIndexSchema(i, f) ==
  Remove({d \in RemoveIndexerTree(wk, i) : d.at = "is" /\ d.key = <<i, f>>})

CreateSearcher(s) ==
  /\ wk.sr[s] = Absent
  /\ Merge(MergeSearcher(wk, s, NoSearcherProps))

RemoveSearcher(s) == Remove(RemoveSearcherTree(wk, s))

DefineSearcher(s, T, qa) ==
  Merge(MergeSearcher(wk, s, [target |-> T, qa |-> qa]))

EditTemplate(s) ==
  Merge(MergeSearcher(wk, s, IF wk.sr[s] = Absent THEN NoSearcherProps ELSE wk.sr[s]))

AddSearchSchema(s, f, v) ==
  /\ v # Empty
  /\ Merge(MergeSearchSchema(wk, s, f, v))

RemoveSearchSchema(s, f) ==
  Remove({d \in RemoveSearcherTree(wk, s) : d.at = "ss" /\ d.key = <<s, f>>})
------------------------------------------------------------------------------
(* The process: initCDDListener loads the store before any handler, session  *)
(* or schedule of this process exists; a crash keeps what was committed.     *)

StoredIndexers(st) == {i \in Iids : st.ix[i] # Absent}

(* The loading loop, which skips a blank name for the index analyzer only.   *)
IndexerLoads(st, i) ==
  /\ st.ix[i].ia # Bad /\ st.ix[i].qa \notin {Bad, Blank}
  /\ \A f \in Fields : st.is[<<i, f>>] \notin {Blank, Bad}

SearcherLoads(st, s) ==
  LET numbered == [i \in Iids |-> IF st.ix[i] = Absent THEN 0 ELSE 1]
  IN ~ RegisterThrows(numbered, st, s, st.sr[s])

Loadable(st) ==
  /\ \A i \in StoredIndexers(st) : IndexerLoads(st, i)
  /\ \A s \in Sids : st.sr[s] # Absent => SearcherLoads(st, s)

(* Variant: the load skips the schemas. *)
LoadedControllerBare(i) ==
  [iid |-> i, open |-> TRUE, fields |-> NoFields,
   ia |-> Chosen(db.ix[i].ia, Standard), qa |-> Chosen(db.ix[i].qa, Standard)]

(* Variant: the load uses the index analyzer for queries as well. *)
LoadedControllerOneAnalyzer(i) ==
  LET a == Chosen(db.ix[i].ia, Standard)
  IN [iid |-> i, open |-> TRUE, ia |-> a, qa |-> a,
      fields |-> [f \in Fields |-> IF IsManual(db.is[<<i, f>>]) THEN db.is[<<i, f>>] ELSE Null]]

LoadedController(i) ==
  [iid |-> i, open |-> TRUE,
   ia |-> Chosen(db.ix[i].ia, Standard), qa |-> Chosen(db.ix[i].qa, Standard),
   fields |-> [f \in Fields |-> IF IsManual(db.is[<<i, f>>]) THEN db.is[<<i, f>>] ELSE Null]]

LoadedSearcher(ix, s) ==
  IF db.sr[s] = Absent \/ db.sr[s].target = {} THEN Unregistered
  ELSE RegisterSearcher(ix, db, s, db.sr[s])

(* order: as children() lists the stored indexers, in no promised order.     *)
Load ==
  /\ phase = "down" /\ Loadable(db)
  /\ LET stored == StoredIndexers(db)
         n == Cardinality(stored)
     IN \E order \in Bijection(1..n, stored) :
          /\ ctl' = [k \in 1..n |-> LoadedController(order[k])]
          /\ idx' = [i \in Iids |-> IF i \in stored THEN CHOOSE k \in 1..n : order[k] = i ELSE 0]
  /\ srch' = [s \in Sids |-> LoadedSearcher(idx', s)]
  /\ phase' = "up"
  /\ UNCHANGED <<db, wk, tran>>

LoadFails ==
  /\ phase = "down" /\ ~ Loadable(db)
  /\ phase' = "failed"
  /\ UNCHANGED <<db, wk, tran, memory>>

Crash ==
  /\ phase = "up"
  /\ phase' = "down"
  /\ db' = IF Transactional THEN db ELSE EmptyStore
  /\ wk' = db'
  /\ tran' = Idle
  /\ ctl' = <<>>
  /\ idx' = [i \in Iids |-> 0]
  /\ srch' = [s \in Sids |-> Unregistered]

Retry ==
  /\ phase = "failed" /\ phase' = "down"
  /\ UNCHANGED <<db, wk, tran, memory>>

Requests ==
  \/ \E i \in Iids : CreateIndexer(i) \/ RemoveIndexer(i) \/ UpdateField(i)
  \/ \E i \in Iids : \E ia \in Names \cup {Blank}, qa \in Names \cup {Blank} : DefineIndexer(i, ia, qa)
  \/ \E i \in Iids, f \in Fields : RemoveIndexSchema(i, f)
  \/ \E i \in Iids, f \in Fields : \E v \in IndexSchemaNode : AddIndexSchema(i, f, v)
  \/ \E s \in Sids : CreateSearcher(s) \/ RemoveSearcher(s) \/ EditTemplate(s)
  \/ \E s \in Sids : \E T \in SUBSET Iids, qa \in Names \cup {Blank} : DefineSearcher(s, T, qa)
  \/ \E s \in Sids, f \in Fields : RemoveSearchSchema(s, f)
  \/ \E s \in Sids, f \in Fields : \E v \in SearchSchemaNode : AddSearchSchema(s, f, v)

Handlers ==
  \/ IndexerCreated \/ IndexerModified \/ IndexerDeleted
  \/ IndexSchemaModified \/ IndexSchemaDeleted
  \/ SearcherModified \/ SearcherDeleted
  \/ SearchSchemaModified \/ SearchSchemaDeleted

Next == Requests \/ Handlers \/ Commit \/ Load \/ LoadFails \/ Crash \/ Retry

Spec == Init /\ [][Next]_vars
------------------------------------------------------------------------------
(* Properties.  Quiet: between transactions, with the server up.             *)

Quiet == phase = "up" /\ tran = Idle

(* Every indexer whose definition is committed has a controller: no sequence *)
(* of requests, failures, rollbacks and restarts leaves one that exists for  *)
(* IndexerWeb's pages and is null for indexManager.index.                    *)
StoredIsRegistered == Quiet => \A i \in Iids : db.ix[i] # Absent => Registered(i)

(* A controller is open exactly while IndexManager hands it out, so one      *)
(* index directory never has two open controllers (removeIndex closes what   *)
(* it drops; a re-created indexer opens the directory again).                *)
OpenIffRegistered == \A c \in DOMAIN ctl : ctl[c].open <=> idx[ctl[c].iid] = c

(* A manual schema with an analyzer is in force in the controller, also when *)
(* its indexer was removed, re-created or reloaded in between.               *)
ManualSchemaInForce ==
  Quiet => \A i \in Iids, f \in Fields :
             db.is[<<i, f>>] \in Good => ctl[idx[i]].fields[f] = db.is[<<i, f>>]

(* The query analyzer an indexer is stored with is the one in force.         *)
QueryAnalyzerInForce ==
  Quiet => \A i \in StoredIndexers(db) :
             db.ix[i].qa \in Good => ctl[idx[i]].qa = db.ix[i].qa

Used(s) == {srch[s].base} \cup srch[s].append

(* The controllers the searcher uses are those of indexers in T, the first of *)
(* them as its base.                                                          *)
Serves(s, T) ==
  /\ T # {} /\ ctl[srch[s].base].iid = First[T]
  /\ \A c \in Used(s) : ctl[c].iid \in T

(* A searcher that answers queries is stored, and searches controllers of    *)
(* its stored targets only, the first of them as its base; with one          *)
(* exception: a definition without targets replaces nothing (REntry.java:    *)
(* 550-551), and the searcher goes on with the targets of one definition     *)
(* before it, which the store does not have any more.                        *)
SearcherFollowsTarget ==
  Quiet => \A s \in Sids : HasSearch(s) =>
    /\ db.sr[s] # Absent
    /\ \E T \in SUBSET Iids : Serves(s, T) /\ db.sr[s].target \in {T, {}}

(* The analyzers of a searcher's schema are those of its stored schema.      *)
SearchSchemaInForce ==
  Quiet => \A s \in Sids, f \in Fields :
             HasSearch(s) /\ db.ss[<<s, f>>] # Absent => srch[s].fields[f] = db.ss[<<s, f>>]

(* A closed controller a searcher still uses is one of an indexer that was   *)
(* removed after the searcher was defined: an indexer that was left alone is *)
(* always searched through its open controller.                              *)
StaleOnlyIfRemoved ==
  \A s \in Sids : HasSearch(s) =>
    \A c \in Used(s) : ctl[c].open \/ idx[ctl[c].iid] = 0 \/ idx[ctl[c].iid] > c

(* No name reaches the committed indexers that the start could not load.     *)
CommittedNamesLoad ==
  /\ \A i \in StoredIndexers(db) : Bad \notin {db.ix[i].ia, db.ix[i].qa}
  /\ \A i \in Iids, f \in Fields : db.is[<<i, f>>] # Bad

(* REntry.java:145-149, 553, 595: a searcher that is stored can be registered *)
(* by the next start, which otherwise ends in the constructor.                *)
SearchersStart == \A s \in Sids : db.sr[s] # Absent => SearcherLoads(db, s)

(* REntry.java:123-157: what is committed stops the start in three ways only: *)
(* a blank query analyzer, a manual schema with a blank analyzer, a searcher  *)
(* whose first target is not stored.  A searcher is never stored with an      *)
(* analyzer or a schema that its own load would reject, whatever was put      *)
(* while it was not registered.                                               *)
BlankOrNoTarget(st) ==
  \/ \E i \in StoredIndexers(st) : st.ix[i].qa = Blank
  \/ \E i \in StoredIndexers(st), f \in Fields : st.is[<<i, f>>] = Blank
  \/ \E s \in Sids : /\ st.sr[s] # Absent /\ st.sr[s].target # {}
                     /\ First[st.sr[s].target] \notin StoredIndexers(st)

StartBlockedByFew == Transactional => Loadable(db) \/ BlankOrNoTarget(db)

(* Requests are atomic on the committed store. *)
Catalogue == INSTANCE AdminCatalogue WITH db <- db
Atomic == Catalogue!Spec

(* No committed schema hangs under a path that is not there. *)
NoOrphanSchema == Catalogue!NoOrphanSchema
==============================================================================
