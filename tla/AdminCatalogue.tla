---------------------------- MODULE AdminCatalogue ----------------------------
(* What the administration of niss promises of the stored definitions: every *)
(* request changes the repository in one step, wholly or not at all, and     *)
(* nothing else changes it.  REntry shows the puts, removes, handlers and    *)
(* crashes behind one such step.                                             *)
EXTENDS CrakenStore

VARIABLE db   \* the committed store

Init == db = EmptyStore

SetIndexer(i, v)  == db' = [db EXCEPT !.ix[i] = v]
SetSearcher(s, v) == db' = [db EXCEPT !.sr[s] = v]

CreateIndexer(i) == db.ix[i] = Absent /\ SetIndexer(i, NoIndexerProps)

DefineIndexer(i, ia, qa) == SetIndexer(i, [ia |-> ia, qa |-> qa])

(* One property of any name; an indexer that is not there is created.         *)
UpdateField(i) ==
  \E v \in WithField(IF db.ix[i] = Absent THEN NoIndexerProps ELSE db.ix[i]) : SetIndexer(i, v)

RemoveIndexer(i) ==
  db' = [db EXCEPT !.ix[i] = Absent,
                   !.is = [p \in Iids \X Fields |-> IF p[1] = i THEN Absent ELSE db.is[p]]]

(* A schema brings its indexer with it. *)
AddIndexSchema(i, f, v) ==
  /\ v # Empty
  /\ db' = [db EXCEPT !.is[<<i, f>>] = v,
                      !.ix[i] = IF @ = Absent THEN NoIndexerProps ELSE @]

RemoveIndexSchema(i, f) == db' = [db EXCEPT !.is[<<i, f>>] = Absent]

CreateSearcher(s) == db.sr[s] = Absent /\ SetSearcher(s, NoSearcherProps)

DefineSearcher(s, T, qa) == SetSearcher(s, [target |-> T, qa |-> qa])

EditTemplate(s) == db.sr[s] = Absent /\ SetSearcher(s, NoSearcherProps)

RemoveSearcher(s) ==
  db' = [db EXCEPT !.sr[s] = Absent,
                   !.ss = [p \in Sids \X Fields |-> IF p[1] = s THEN Absent ELSE db.ss[p]]]

AddSearchSchema(s, f, v) ==
  /\ v # Empty
  /\ db' = [db EXCEPT !.ss[<<s, f>>] = v,
                      !.sr[s] = IF @ = Absent THEN NoSearcherProps ELSE @]

RemoveSearchSchema(s, f) == db' = [db EXCEPT !.ss[<<s, f>>] = Absent]

Next ==
  \/ \E i \in Iids : CreateIndexer(i) \/ RemoveIndexer(i) \/ UpdateField(i)
  \/ \E i \in Iids : \E ia \in MaybeNames, qa \in MaybeNames : DefineIndexer(i, ia, qa)
  \/ \E i \in Iids, f \in Fields : RemoveIndexSchema(i, f)
  \/ \E i \in Iids, f \in Fields : \E v \in IndexSchemaNode : AddIndexSchema(i, f, v)
  \/ \E s \in Sids : CreateSearcher(s) \/ RemoveSearcher(s) \/ EditTemplate(s)
  \/ \E s \in Sids : \E T \in SUBSET Iids, qa \in MaybeNames : DefineSearcher(s, T, qa)
  \/ \E s \in Sids, f \in Fields : RemoveSearchSchema(s, f)
  \/ \E s \in Sids, f \in Fields : \E v \in SearchSchemaNode : AddSearchSchema(s, f, v)

Spec == Init /\ [][Next]_db

(* Every stored schema hangs under a stored indexer or searcher: a restart    *)
(* walks from the parents, so an orphan would be lost without an error        *)
(* (REntry.initCDDListener reads the children of what it finds).              *)
NoOrphanSchema ==
  /\ \A i \in Iids, f \in Fields : db.is[<<i, f>>] # Absent => db.ix[i] # Absent
  /\ \A s \in Sids, f \in Fields : db.ss[<<s, f>>] # Absent => db.sr[s] # Absent
==============================================================================
