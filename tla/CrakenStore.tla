----------------------------- MODULE CrakenStore -----------------------------
(* The part of the rcraken repository that niss keeps its administration data *)
(* in: the nodes under /indexers and /searchers, and how WriteNode.merge and  *)
(* WriteNode.removeSelf break one change of a node into single puts and       *)
(* removes of the underlying map.  rcraken is a library (lib/rcraken); its    *)
(* behaviour is modelled as src/ uses it.                                     *)
(*                                                                            *)
(* A store is a record of four maps from a key to a node or Absent:           *)
(*   ix  /indexers/{iid}                is  /indexers/{iid}/schema/{schemaid} *)
(*   sr  /searchers/{sid}               ss  /searchers/{sid}/schema/{schemaid}*)
EXTENDS Integers, Sequences, FiniteSets

CONSTANTS
  Iids,      \* indexer ids
  Sids,      \* searcher ids
  Fields,    \* schema ids
  Good,      \* names of analyzer classes that can be loaded
  Bad,       \* a class name Class.forName rejects
  Standard,  \* StandardAnalyzer, the default
  Null,      \* a property that is not there
  Absent,    \* no node at this path
  Empty,     \* a schema node without properties: "{}"
  Text,      \* a schema node of a type other than "manual"
  Blank      \* "" for a name; a "manual" schema node whose name is ""

ASSUME IidsFinite == IsFiniteSet(Iids)
ASSUME StandardIsGood == Standard \in Good
ASSUME NamesDistinct ==
  /\ Null \notin Good \cup {Bad} /\ Bad \notin Good
  /\ {Absent, Empty, Text, Blank} \cap (Good \cup {Bad, Null}) = {}
  /\ Absent \notin {Empty, Text, Blank} /\ Empty \notin {Text, Blank} /\ Text # Blank

Names  == Good \cup {Bad}
MaybeNames == Names \cup {Null, Blank}

(* The properties of a node that the handlers of REntry tell apart.           *)
IndexerNode      == [ia : MaybeNames, qa : MaybeNames]
IndexSchemaNode  == Names \cup {Empty, Text, Blank}
SearcherNode     == [target : SUBSET Iids, qa : MaybeNames]
SearchSchemaNode == Names \cup {Empty}

ASSUME AbsentIsNoNode == Absent \notin IndexerNode \cup SearcherNode

Store == [ix : [Iids -> IndexerNode \cup {Absent}],
          is : [Iids \X Fields -> IndexSchemaNode \cup {Absent}],
          sr : [Sids -> SearcherNode \cup {Absent}],
          ss : [Sids \X Fields -> SearchSchemaNode \cup {Absent}]]

EmptyStore == [ix |-> [i \in Iids |-> Absent],
               is |-> [p \in Iids \X Fields |-> Absent],
               sr |-> [s \in Sids |-> Absent],
               ss |-> [p \in Sids \X Fields |-> Absent]]

(* A node after one property is written: of any other name, or one analyzer.  *)
WithField(v) ==
  {v} \cup {[v EXCEPT !.ia = name] : name \in Names \cup {Blank}}
      \cup {[v EXCEPT !.qa = name] : name \in Names \cup {Blank}}

NoIndexerProps  == [ia |-> Null, qa |-> Null]
NoSearcherProps == [target |-> {}, qa |-> Null]

(* One put of the map. *)
IndexerPuts      == [at : {"ix"}, key : Iids, val : IndexerNode]
IndexSchemaPuts  == [at : {"is"}, key : Iids \X Fields, val : IndexSchemaNode]
SearcherPuts     == [at : {"sr"}, key : Sids, val : SearcherNode]
SearchSchemaPuts == [at : {"ss"}, key : Sids \X Fields, val : SearchSchemaNode]
Puts == IndexerPuts \cup IndexSchemaPuts \cup SearcherPuts \cup SearchSchemaPuts

IndexerPut(i, v)         == [at |-> "ix", key |-> i, val |-> v]
IndexSchemaPut(i, f, v)  == [at |-> "is", key |-> <<i, f>>, val |-> v]
SearcherPut(s, v)        == [at |-> "sr", key |-> s, val |-> v]
SearchSchemaPut(s, f, v) == [at |-> "ss", key |-> <<s, f>>, val |-> v]

Put(st, p) == [st EXCEPT ![p.at] = [@ EXCEPT ![p.key] = p.val]]

(* One remove of the map. *)
Removes == [at : {"ix"}, key : Iids] \cup [at : {"is"}, key : Iids \X Fields]
           \cup [at : {"sr"}, key : Sids] \cup [at : {"ss"}, key : Sids \X Fields]

Take(st, d) == [st EXCEPT ![d.at] = [@ EXCEPT ![d.key] = Absent]]

(* WriteNode.merge: a node that is not there is first put as "{}", then each  *)
(* ancestor that is not there, and last the node with its properties.         *)
MergeIndexer(st, i, v) ==
  (IF st.ix[i] = Absent THEN <<IndexerPut(i, NoIndexerProps)>> ELSE <<>>)
  \o <<IndexerPut(i, v)>>

MergeIndexSchema(st, i, f, v) ==
  (IF st.is[<<i, f>>] = Absent THEN <<IndexSchemaPut(i, f, Empty)>> ELSE <<>>)
  \o (IF st.ix[i] = Absent THEN <<IndexerPut(i, NoIndexerProps)>> ELSE <<>>)
  \o <<IndexSchemaPut(i, f, v)>>

MergeSearcher(st, s, v) ==
  (IF st.sr[s] = Absent THEN <<SearcherPut(s, NoSearcherProps)>> ELSE <<>>)
  \o <<SearcherPut(s, v)>>

MergeSearchSchema(st, s, f, v) ==
  (IF st.ss[<<s, f>>] = Absent THEN <<SearchSchemaPut(s, f, Empty)>> ELSE <<>>)
  \o (IF st.sr[s] = Absent THEN <<SearcherPut(s, NoSearcherProps)>> ELSE <<>>)
  \o <<SearchSchemaPut(s, f, v)>>

(* WriteNode.removeSelf: the node and its descendants, in no order.           *)
RemoveIndexerTree(st, i) ==
  {[at |-> "ix", key |-> j] : j \in {i} \cap {k \in Iids : st.ix[k] # Absent}}
  \cup {[at |-> "is", key |-> p] : p \in {q \in {i} \X Fields : st.is[q] # Absent}}

RemoveSearcherTree(st, s) ==
  {[at |-> "sr", key |-> t] : t \in {s} \cap {k \in Sids : st.sr[k] # Absent}}
  \cup {[at |-> "ss", key |-> p] : p \in {q \in {s} \X Fields : st.ss[q] # Absent}}
==============================================================================
