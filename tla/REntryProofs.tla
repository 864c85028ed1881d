---------------------------- MODULE REntryProofs ----------------------------
(* Proofs about REntry: its state stays well typed, a controller is open     *)
(* exactly while it is registered, a searcher goes stale only by a removal,  *)
(* and every committed indexer is registered.                                *)
EXTENDS REntry, FiniteSetTheorems, TLAPS

(* Replacing an element of a sequence. *)
LEMMA ReplaceInSeq ==
  ASSUME NEW S, NEW seq \in Seq(S), NEW c \in DOMAIN seq, NEW e \in S
  PROVE  /\ [seq EXCEPT ![c] = e] \in Seq(S)
         /\ Len([seq EXCEPT ![c] = e]) = Len(seq)
         /\ DOMAIN [seq EXCEPT ![c] = e] = DOMAIN seq
OBVIOUS

(* A put and a remove of the map keep the store well typed. *)
LEMMA PutInStore ==
  ASSUME NEW st \in Store, NEW p \in Puts
  PROVE  Put(st, p) \in Store
<1>1. CASE p \in IndexerPuts
  BY <1>1 DEF Store, Put, IndexerPuts
<1>2. CASE p \in IndexSchemaPuts
  BY <1>2 DEF Store, Put, IndexSchemaPuts
<1>3. CASE p \in SearcherPuts
  BY <1>3 DEF Store, Put, SearcherPuts
<1>4. CASE p \in SearchSchemaPuts
  BY <1>4 DEF Store, Put, SearchSchemaPuts
<1> QED  BY <1>1, <1>2, <1>3, <1>4 DEF Puts

LEMMA TakeInStore ==
  ASSUME NEW st \in Store, NEW d \in Removes
  PROVE  Take(st, d) \in Store
<1>1. CASE d \in [at : {"ix"}, key : Iids]
  BY <1>1 DEF Store, Take
<1>2. CASE d \in [at : {"is"}, key : Iids \X Fields]
  BY <1>2 DEF Store, Take
<1>3. CASE d \in [at : {"sr"}, key : Sids]
  BY <1>3 DEF Store, Take
<1>4. CASE d \in [at : {"ss"}, key : Sids \X Fields]
  BY <1>4 DEF Store, Take
<1> QED  BY <1>1, <1>2, <1>3, <1>4 DEF Removes

(* What the pending transaction puts and removes. *)
LEMMA NextPutType ==
  ASSUME TypeOK, tran.puts # <<>>
  PROVE  /\ tran \in Tran
         /\ NextPut \in Puts
         /\ Tail(tran.puts) \in Seq(Puts)
<1>1. tran \in Tran
  BY DEF TypeOK, Idle
<1>2. tran.puts \in Seq(Puts)
  BY <1>1 DEF Tran
<1> QED  BY <1>1, <1>2 DEF NextPut

LEMMA PutDoneType ==
  ASSUME TypeOK, tran.puts # <<>>, PutDone
  PROVE  phase' = phase /\ db' \in Store /\ wk' \in Store /\ tran' \in Tran \cup {Idle}
<1>1. wk' \in Store
  BY NextPutType, PutInStore DEF PutDone, TypeOK
<1>2. tran' \in Tran
  BY NextPutType DEF PutDone, Tran
<1> QED  BY <1>1, <1>2 DEF PutDone, TypeOK

LEMMA PutFailedType ==
  ASSUME TypeOK, tran.puts # <<>>, PutFailed
  PROVE  phase' = phase /\ db' \in Store /\ wk' \in Store /\ tran' \in Tran \cup {Idle}
BY NextPutType, PutInStore DEF PutFailed, TypeOK

LEMMA RemovingType ==
  ASSUME TypeOK, NEW d \in Removes, Removing(d)
  PROVE  phase' = phase /\ db' \in Store /\ wk' \in Store /\ tran' \in Tran \cup {Idle}
<1>1. tran \in Tran
  BY DEF TypeOK, Removing, Idle
<1>2. tran' \in Tran
  BY <1>1 DEF Removing, Tran
<1>3. wk' \in Store
  BY TakeInStore DEF Removing, TypeOK
<1> QED  BY <1>2, <1>3 DEF Removing, TypeOK

(* A name that can be chosen and is not the bad one can be loaded. *)
LEMMA ChosenIsGood ==
  ASSUME NEW name \in MaybeNames, NEW current \in Good, Chosen(name, current) # Bad
  PROVE  Chosen(name, current) \in Good
BY DEF Chosen, MaybeNames, Names

(* A searcher that can be registered searches open positions of ctl only. *)
LEMMA RegisterType ==
  ASSUME NEW ix \in [Iids -> Nat], NEW st \in Store, NEW s \in Sids, NEW v \in SearcherNode,
         v.target # {}, ~ RegisterThrows(ix, st, s, v)
  PROVE  /\ RegisterSearcher(ix, st, s, v) \in Searcher
         /\ RegisterSearcher(ix, st, s, v).base \in {ix[i] : i \in Iids}
         /\ RegisterSearcher(ix, st, s, v).append \subseteq {ix[i] : i \in Iids}
<1> DEFINE r == RegisterSearcher(ix, st, s, v)
<1>1. First[v.target] \in Iids
  BY FirstChooses DEF SearcherNode
<1>2. r.base \in Nat \ {0} /\ r.base \in {ix[i] : i \in Iids}
  BY <1>1 DEF RegisterSearcher, RegisterThrows
<1>3. r.append \subseteq Nat \ {0} /\ r.append \subseteq {ix[i] : i \in Iids}
  BY DEF RegisterSearcher, Appended, SearcherNode
<1>4. \A f \in Fields : st.ss[<<s, f>>] # Absent => st.ss[<<s, f>>] \in Good
  BY DEF RegisterThrows, SchemaNames
<1>5. r.fields \in [Fields -> Good \cup {Null}]
  BY <1>4 DEF RegisterSearcher
<1>6. r = [base |-> r.base, append |-> r.append, fields |-> r.fields]
  BY DEF RegisterSearcher
<1> QED  BY <1>2, <1>3, <1>5, <1>6 DEF Searcher
-----------------------------------------------------------------------------
(* Requests: a transaction of well typed puts and removes.                   *)

LEMMA MergeType ==
  ASSUME TypeOK, NEW puts \in Seq(Puts), Merge(puts)
  PROVE  TypeOK'
<1>1. tran' \in Tran
  BY DEF Merge, Begin, Tran
<1> QED  BY <1>1 DEF Merge, Begin, TypeOK, memory

LEMMA RemoveType ==
  ASSUME TypeOK, NEW dels \in SUBSET Removes, Remove(dels)
  PROVE  TypeOK'
<1>1. tran' \in Tran
  BY DEF Remove, Begin, Tran
<1> QED  BY <1>1 DEF Remove, Begin, TypeOK, memory

LEMMA PutsInSeq ==
  ASSUME NEW a \in Puts, NEW b \in Puts, NEW c \in Puts, NEW P, NEW Q
  PROVE  LET s == (IF P THEN <<a>> ELSE <<>>) \o <<c>>
             t == (IF P THEN <<a>> ELSE <<>>) \o (IF Q THEN <<b>> ELSE <<>>) \o <<c>>
         IN s \in Seq(Puts) /\ s # <<>> /\ t \in Seq(Puts) /\ t # <<>>
<1>1. (IF P THEN <<a>> ELSE <<>>) \in Seq(Puts)
  OBVIOUS
<1>2. (IF Q THEN <<b>> ELSE <<>>) \in Seq(Puts)
  OBVIOUS
<1> QED  BY <1>1, <1>2

LEMMA MergedPuts ==
  ASSUME NEW st \in Store
  PROVE  /\ \A i \in Iids, v \in IndexerNode :
              MergeIndexer(st, i, v) \in Seq(Puts) /\ MergeIndexer(st, i, v) # <<>>
         /\ \A i \in Iids, f \in Fields, v \in IndexSchemaNode :
              MergeIndexSchema(st, i, f, v) \in Seq(Puts) /\ MergeIndexSchema(st, i, f, v) # <<>>
         /\ \A s \in Sids, v \in SearcherNode :
              MergeSearcher(st, s, v) \in Seq(Puts) /\ MergeSearcher(st, s, v) # <<>>
         /\ \A s \in Sids, f \in Fields, v \in SearchSchemaNode :
              MergeSearchSchema(st, s, f, v) \in Seq(Puts) /\ MergeSearchSchema(st, s, f, v) # <<>>
<1>1. ASSUME NEW i \in Iids, NEW v \in IndexerNode
      PROVE  IndexerPut(i, v) \in Puts /\ IndexerPut(i, NoIndexerProps) \in Puts
  BY DEF IndexerPut, Puts, IndexerPuts, NoIndexerProps, IndexerNode, MaybeNames
<1>2. ASSUME NEW i \in Iids, NEW f \in Fields, NEW v \in IndexSchemaNode
      PROVE  IndexSchemaPut(i, f, v) \in Puts /\ IndexSchemaPut(i, f, Empty) \in Puts
  BY DEF IndexSchemaPut, Puts, IndexSchemaPuts, IndexSchemaNode
<1>3. ASSUME NEW s \in Sids, NEW v \in SearcherNode
      PROVE  SearcherPut(s, v) \in Puts /\ SearcherPut(s, NoSearcherProps) \in Puts
  BY DEF SearcherPut, Puts, SearcherPuts, NoSearcherProps, SearcherNode, MaybeNames
<1>4. ASSUME NEW s \in Sids, NEW f \in Fields, NEW v \in SearchSchemaNode
      PROVE  SearchSchemaPut(s, f, v) \in Puts /\ SearchSchemaPut(s, f, Empty) \in Puts
  BY DEF SearchSchemaPut, Puts, SearchSchemaPuts, SearchSchemaNode
<1>5. NoIndexerProps \in IndexerNode /\ NoSearcherProps \in SearcherNode
  BY DEF NoIndexerProps, IndexerNode, NoSearcherProps, SearcherNode, MaybeNames
<1> QED  BY <1>1, <1>2, <1>3, <1>4, <1>5, PutsInSeq
            DEF MergeIndexer, MergeIndexSchema, MergeSearcher, MergeSearchSchema

(* An indexer is an indexer after one of its properties is written. *)
LEMMA FieldWritten ==
  \A v \in IndexerNode : WithField(v) \subseteq IndexerNode
BY DEF WithField, IndexerNode, MaybeNames

LEMMA RequestsType ==
  ASSUME TypeOK, Requests
  PROVE  TypeOK'
<1>0. NoIndexerProps \in IndexerNode /\ NoSearcherProps \in SearcherNode
  BY DEF NoIndexerProps, IndexerNode, NoSearcherProps, SearcherNode, MaybeNames
<1>s. wk \in Store
  BY DEF TypeOK
<1>1. ASSUME NEW i \in Iids, CreateIndexer(i) \/ UpdateField(i) PROVE TypeOK'
  <2>1. wk.ix[i] \in IndexerNode \cup {Absent}
    BY <1>s DEF Store
  <2>2. PICK v \in IndexerNode : Merge(MergeIndexer(wk, i, v))
    BY <1>0, <1>1, <2>1, FieldWritten DEF CreateIndexer, UpdateField
  <2> QED  BY <1>s, <2>2, MergedPuts, MergeType
<1>2. ASSUME NEW i \in Iids, NEW ia \in Names \cup {Blank}, NEW qa \in Names \cup {Blank},
             DefineIndexer(i, ia, qa)
      PROVE  TypeOK'
  <2>1. [ia |-> ia, qa |-> qa] \in IndexerNode
    BY DEF IndexerNode, MaybeNames
  <2> QED  BY <1>s, <1>2, <2>1, MergedPuts, MergeType DEF DefineIndexer
<1>3. ASSUME NEW i \in Iids, NEW f \in Fields, NEW v \in IndexSchemaNode, AddIndexSchema(i, f, v)
      PROVE  TypeOK'
  BY <1>s, <1>3, MergedPuts, MergeType DEF AddIndexSchema
<1>4. ASSUME NEW i \in Iids PROVE RemoveIndexerTree(wk, i) \subseteq Removes
  BY DEF RemoveIndexerTree, Removes
<1>5. ASSUME NEW i \in Iids, RemoveIndexer(i) PROVE TypeOK'
  <2>1. [at |-> "ix", key |-> i] \in Removes
    BY DEF Removes
  <2> QED  BY <1>4, <1>5, <2>1, RemoveType DEF RemoveIndexer
<1>6. ASSUME NEW i \in Iids, NEW f \in Fields, RemoveIndexSchema(i, f) PROVE TypeOK'
  <2>1. [at |-> "is", key |-> <<i, f>>] \in Removes
    BY DEF Removes
  <2> DEFINE dels == {d \in RemoveIndexerTree(wk, i) : d.at = "is" /\ d.key = <<i, f>>}
  <2>2. dels \in SUBSET Removes
    BY <1>4
  <2> QED  BY <1>6, <2>1, <2>2, RemoveType DEF RemoveIndexSchema
<1>7. ASSUME NEW s \in Sids, CreateSearcher(s) \/ EditTemplate(s) PROVE TypeOK'
  <2>1. wk.sr[s] \in SearcherNode \cup {Absent}
    BY <1>s DEF Store
  <2> QED  BY <1>0, <1>s, <1>7, <2>1, MergedPuts, MergeType DEF CreateSearcher, EditTemplate
<1>8. ASSUME NEW s \in Sids, NEW T \in SUBSET Iids, NEW qa \in Names \cup {Blank},
             DefineSearcher(s, T, qa)
      PROVE  TypeOK'
  <2>1. [target |-> T, qa |-> qa] \in SearcherNode
    BY DEF SearcherNode, MaybeNames
  <2> QED  BY <1>s, <1>8, <2>1, MergedPuts, MergeType DEF DefineSearcher
<1>9. ASSUME NEW s \in Sids, NEW f \in Fields, NEW v \in SearchSchemaNode, AddSearchSchema(s, f, v)
      PROVE  TypeOK'
  BY <1>s, <1>9, MergedPuts, MergeType DEF AddSearchSchema
<1>10. ASSUME NEW s \in Sids PROVE RemoveSearcherTree(wk, s) \subseteq Removes
  BY DEF RemoveSearcherTree, Removes
<1>11. ASSUME NEW s \in Sids, RemoveSearcher(s) PROVE TypeOK'
  <2>1. [at |-> "sr", key |-> s] \in Removes
    BY DEF Removes
  <2> QED  BY <1>10, <1>11, <2>1, RemoveType DEF RemoveSearcher
<1>12. ASSUME NEW s \in Sids, NEW f \in Fields, RemoveSearchSchema(s, f) PROVE TypeOK'
  <2>1. [at |-> "ss", key |-> <<s, f>>] \in Removes
    BY DEF Removes
  <2> DEFINE dels == {d \in RemoveSearcherTree(wk, s) : d.at = "ss" /\ d.key = <<s, f>>}
  <2>2. dels \in SUBSET Removes
    BY <1>10
  <2> QED  BY <1>12, <2>1, <2>2, RemoveType DEF RemoveSearchSchema
<1> QED  BY <1>1, <1>2, <1>3, <1>5, <1>6, <1>7, <1>8, <1>9, <1>11, <1>12 DEF Requests
-----------------------------------------------------------------------------
(* A controller of which one part is replaced. *)
LEMMA ControllerParts ==
  ASSUME NEW c \in Controller, NEW f, NEW v \in Good \cup {Null}
  PROVE  /\ [c EXCEPT !.open = FALSE] \in Controller
         /\ [c EXCEPT !.fields[f] = v] \in Controller
BY DEF Controller

(* Handlers.                                                                 *)

LEMMA HandlersType ==
  ASSUME TypeOK, Handlers
  PROVE  TypeOK'
<1>0. /\ ctl \in Seq(Controller) /\ idx \in [Iids -> 0..Len(ctl)]
      /\ srch \in [Sids -> Searcher \cup {Unregistered}] /\ wk \in Store
      /\ phase \in {"down", "up", "failed"}
  BY DEF TypeOK
<1>p. ASSUME NEW at, PutsAt(at) PROVE tran.puts # <<>> /\ NextPut.at = at /\ NextPut \in Puts
  BY <1>p, NextPutType DEF PutsAt, NextPut
<1>ix. PutsAt("ix") => NextPut.key \in Iids /\ NextPut.val \in IndexerNode
  BY <1>p DEF Puts, IndexerPuts, IndexSchemaPuts, SearcherPuts, SearchSchemaPuts
<1>is. PutsAt("is") => NextPut.key \in Iids \X Fields /\ NextPut.val \in IndexSchemaNode
  BY <1>p DEF Puts, IndexerPuts, IndexSchemaPuts, SearcherPuts, SearchSchemaPuts
<1>sr. PutsAt("sr") => NextPut.key \in Sids /\ NextPut.val \in SearcherNode
  BY <1>p DEF Puts, IndexerPuts, IndexSchemaPuts, SearcherPuts, SearchSchemaPuts
<1>ss. PutsAt("ss") => NextPut.key \in Sids \X Fields /\ NextPut.val \in SearchSchemaNode
  BY <1>p DEF Puts, IndexerPuts, IndexSchemaPuts, SearcherPuts, SearchSchemaPuts
<1>1. ASSUME IndexerCreated PROVE TypeOK'
  <2>1. NewController(NextPut.key) \in Controller
    BY <1>1, <1>ix, StandardIsGood DEF IndexerCreated, NewController, Controller, NoFields
  <2>2. ctl' \in Seq(Controller) /\ Len(ctl') = Len(ctl) + 1
    BY <1>0, <1>1, <2>1 DEF IndexerCreated
  <2>3. idx' \in [Iids -> 0..Len(ctl')]
    <3>1. 0..Len(ctl) \subseteq 0..Len(ctl') /\ Len(ctl) + 1 \in 0..Len(ctl')
      BY <1>0, <2>2
    <3> QED  BY <1>0, <1>1, <2>2, <3>1 DEF IndexerCreated
  <2> QED  BY <1>0, <1>1, <1>p, <2>2, <2>3, PutDoneType DEF IndexerCreated, TypeOK
<1>2. ASSUME IndexerModified PROVE TypeOK'
  <2> DEFINE c  == idx[NextPut.key]
             ia == Chosen(NextPut.val.ia, ctl[c].ia)
             qa == Chosen(NextPut.val.qa, ctl[c].qa)
  <2>1. c \in DOMAIN ctl /\ ctl[c] \in Controller
    BY <1>0, <1>2, <1>ix DEF IndexerModified, Registered
  <2>2. NextPut.val.ia \in MaybeNames /\ NextPut.val.qa \in MaybeNames
        /\ ctl[c].ia \in Good /\ ctl[c].qa \in Good
    BY <1>2, <1>ix, <2>1 DEF IndexerModified, IndexerNode, Controller
  <2>3. CASE ia = Bad
    BY <1>0, <1>2, <1>p, <2>3, PutFailedType, NamesDistinct DEF IndexerModified, TypeOK
  <2>4. CASE ia # Bad /\ qa = Bad
    <3>1. ia \in Good
      BY <2>2, <2>4, ChosenIsGood
    <3>2. ctl' = [ctl EXCEPT ![c].ia = ia] /\ PutFailed
      BY <1>2, <2>4 DEF IndexerModified
    <3>c. [ctl[c] EXCEPT !.ia = ia] \in Controller
      BY <2>1, <3>1 DEF Controller
    <3>d. ctl' = [ctl EXCEPT ![c] = [ctl[c] EXCEPT !.ia = ia]]
      BY <2>1, <3>2
    <3>3. ctl' \in Seq(Controller) /\ Len(ctl') = Len(ctl)
      BY <1>0, <2>1, <3>c, <3>d, ReplaceInSeq
    <3> QED  BY <1>0, <1>2, <1>p, <3>2, <3>3, PutFailedType DEF IndexerModified, TypeOK
  <2>5. CASE ia # Bad /\ qa # Bad
    <3>1. ia \in Good /\ qa \in Good
      BY <2>2, <2>5, ChosenIsGood
    <3>2. ctl' = [ctl EXCEPT ![c].ia = ia, ![c].qa = qa] /\ PutDone
      BY <1>2, <2>5 DEF IndexerModified
    <3>c. [ctl[c] EXCEPT !.ia = ia, !.qa = qa] \in Controller
      BY <2>1, <3>1 DEF Controller
    <3>d. ctl' = [ctl EXCEPT ![c] = [ctl[c] EXCEPT !.ia = ia, !.qa = qa]]
      BY <2>1, <3>2
    <3>3. ctl' \in Seq(Controller) /\ Len(ctl') = Len(ctl)
      BY <1>0, <2>1, <3>c, <3>d, ReplaceInSeq
    <3> QED  BY <1>0, <1>2, <1>p, <3>2, <3>3, PutDoneType DEF IndexerModified, TypeOK
  <2> QED  BY <2>3, <2>4, <2>5
<1>3. ASSUME NEW i \in Iids, Removing([at |-> "ix", key |-> i]), UNCHANGED srch,
             ctl' = IF Registered(i) THEN [ctl EXCEPT ![idx[i]].open = FALSE] ELSE ctl,
             idx' = [idx EXCEPT ![i] = 0]
      PROVE  TypeOK'
  <2>1. [at |-> "ix", key |-> i] \in Removes
    BY DEF Removes
  <2>2. ctl' \in Seq(Controller) /\ Len(ctl') = Len(ctl)
    <3>1. CASE Registered(i)
      <4>1. idx[i] \in DOMAIN ctl
        BY <1>0, <3>1 DEF Registered
      <4>2. [ctl[idx[i]] EXCEPT !.open = FALSE] \in Controller
        <5>1. ctl[idx[i]] \in Controller
          BY <1>0, <4>1
        <5> QED  BY <5>1, ControllerParts
      <4>3. ctl' = [ctl EXCEPT ![idx[i]] = [ctl[idx[i]] EXCEPT !.open = FALSE]]
        BY <1>3, <3>1
      <4> QED  BY <1>0, <4>1, <4>2, <4>3, ReplaceInSeq
    <3> QED  BY <1>0, <1>3, <3>1
  <2>3. idx' \in [Iids -> 0..Len(ctl')]
    BY <1>0, <1>3, <2>2
  <2> QED  BY <1>0, <1>3, <2>1, <2>2, <2>3, RemovingType DEF TypeOK
<1>4. ASSUME IndexSchemaModified PROVE TypeOK'
  <2> DEFINE i == NextPut.key[1]
             f == NextPut.key[2]
             v == NextPut.val
  <2>1. i \in Iids /\ f \in Fields /\ v \in IndexSchemaNode
    BY <1>4, <1>is DEF IndexSchemaModified
  <2>2. CASE ctl' = ctl
    BY <1>0, <1>4, <1>p, <2>2, PutDoneType, PutFailedType DEF IndexSchemaModified, TypeOK
  <2>3. CASE /\ Registered(i) /\ IsManual(v) /\ v # Bad /\ PutDone
             /\ ctl' = [ctl EXCEPT ![idx[i]].fields[f] = v]
    <3>1. idx[i] \in DOMAIN ctl /\ v \in Good
      BY <1>0, <2>1, <2>3 DEF Registered, IsManual, Names
    <3>c. [ctl[idx[i]] EXCEPT !.fields[f] = v] \in Controller
      <4>1. ctl[idx[i]] \in Controller
        BY <1>0, <3>1
      <4> QED  BY <3>1, <4>1, ControllerParts
    <3>d. ctl' = [ctl EXCEPT ![idx[i]] = [ctl[idx[i]] EXCEPT !.fields[f] = v]]
      BY <2>3
    <3>2. ctl' \in Seq(Controller) /\ Len(ctl') = Len(ctl)
      BY <1>0, <3>1, <3>c, <3>d, ReplaceInSeq
    <3> QED  BY <1>0, <1>4, <1>p, <2>3, <3>2, PutDoneType DEF IndexSchemaModified, TypeOK
  <2> QED  BY <1>4, <2>2, <2>3 DEF IndexSchemaModified
<1>5. ASSUME NEW i \in Iids, NEW f \in Fields, Removing([at |-> "is", key |-> <<i, f>>]),
             ctl' = IF Registered(i) THEN [ctl EXCEPT ![idx[i]].fields[f] = Null] ELSE ctl,
             UNCHANGED <<idx, srch>>
      PROVE  TypeOK'
  <2>1. [at |-> "is", key |-> <<i, f>>] \in Removes
    BY DEF Removes
  <2>2. ctl' \in Seq(Controller) /\ Len(ctl') = Len(ctl)
    <3>1. CASE Registered(i)
      <4>1. idx[i] \in DOMAIN ctl
        BY <1>0, <3>1 DEF Registered
      <4>2. [ctl[idx[i]] EXCEPT !.fields[f] = Null] \in Controller
        <5>1. ctl[idx[i]] \in Controller
          BY <1>0, <4>1
        <5> QED  BY <5>1, ControllerParts
      <4>3. ctl' = [ctl EXCEPT ![idx[i]] = [ctl[idx[i]] EXCEPT !.fields[f] = Null]]
        BY <1>5, <3>1
      <4> QED  BY <1>0, <4>1, <4>2, <4>3, ReplaceInSeq
    <3> QED  BY <1>0, <1>5, <3>1
  <2> QED  BY <1>0, <1>5, <2>1, <2>2, RemovingType DEF TypeOK
<1>6. ASSUME SearcherModified PROVE TypeOK'
  <2> DEFINE s == NextPut.key
             v == NextPut.val
  <2>1. s \in Sids /\ v \in SearcherNode
    BY <1>6, <1>sr DEF SearcherModified
  <2>2. CASE srch' = srch
    BY <1>0, <1>6, <1>p, <2>2, PutDoneType, PutFailedType DEF SearcherModified, TypeOK
  <2>3. CASE /\ v.target # {} /\ ~ RegisterThrows(idx, wk, s, v) /\ PutDone
             /\ srch' = [srch EXCEPT ![s] = RegisterSearcher(idx, wk, s, v)]
    <3>1. idx \in [Iids -> Nat]
      BY <1>0
    <3>2. RegisterSearcher(idx, wk, s, v) \in Searcher
      BY <1>0, <2>1, <2>3, <3>1, RegisterType
    <3>3. srch' \in [Sids -> Searcher \cup {Unregistered}]
      BY <1>0, <2>3, <3>2
    <3> QED  BY <1>0, <1>6, <1>p, <2>3, <3>3, PutDoneType DEF SearcherModified, TypeOK
  <2> QED  BY <1>6, <2>2, <2>3 DEF SearcherModified
<1>7. ASSUME NEW s \in Sids, Removing([at |-> "sr", key |-> s]),
             srch' = [srch EXCEPT ![s] = Unregistered], UNCHANGED <<ctl, idx>>
      PROVE  TypeOK'
  <2>1. [at |-> "sr", key |-> s] \in Removes
    BY DEF Removes
  <2>2. srch' \in [Sids -> Searcher \cup {Unregistered}]
    BY <1>0, <1>7
  <2> QED  BY <1>0, <1>7, <2>1, <2>2, RemovingType DEF TypeOK
<1>8. ASSUME SearchSchemaModified PROVE TypeOK'
  <2> DEFINE s == NextPut.key[1]
             f == NextPut.key[2]
             v == NextPut.val
  <2>1. s \in Sids /\ f \in Fields /\ v \in SearchSchemaNode
    BY <1>8, <1>ss DEF SearchSchemaModified
  <2>2. CASE srch' = srch
    BY <1>0, <1>8, <1>p, <2>2, PutDoneType, PutFailedType DEF SearchSchemaModified, TypeOK
  <2>3. CASE HasSearch(s) /\ v \in Good /\ PutDone /\ srch' = [srch EXCEPT ![s].fields[f] = v]
    <3>1. srch[s] \in Searcher
      BY <1>0, <2>1, <2>3 DEF HasSearch
    <3>2. [srch[s] EXCEPT !.fields[f] = v] \in Searcher
      BY <2>1, <2>3, <3>1 DEF Searcher
    <3>3. srch' \in [Sids -> Searcher \cup {Unregistered}]
      BY <1>0, <2>1, <2>3, <3>2
    <3> QED  BY <1>0, <1>8, <1>p, <2>3, <3>3, PutDoneType DEF SearchSchemaModified, TypeOK
  <2> QED  BY <1>8, <2>2, <2>3 DEF SearchSchemaModified
<1>9. ASSUME NEW s \in Sids, NEW f \in Fields, Removing([at |-> "ss", key |-> <<s, f>>]),
             srch' = IF HasSearch(s) THEN [srch EXCEPT ![s].fields[f] = Null] ELSE srch,
             UNCHANGED <<ctl, idx>>
      PROVE  TypeOK'
  <2>1. [at |-> "ss", key |-> <<s, f>>] \in Removes
    BY DEF Removes
  <2>2. HasSearch(s) => [srch[s] EXCEPT !.fields[f] = Null] \in Searcher
    BY <1>0 DEF HasSearch, Searcher
  <2>3. srch' \in [Sids -> Searcher \cup {Unregistered}]
    BY <1>0, <1>9, <2>2
  <2> QED  BY <1>0, <1>9, <2>1, <2>3, RemovingType DEF TypeOK
<1> QED
  BY <1>1, <1>2, <1>3, <1>4, <1>5, <1>6, <1>7, <1>8, <1>9
     DEF Handlers, IndexerDeleted, IndexSchemaDeleted, SearcherDeleted, SearchSchemaDeleted
-----------------------------------------------------------------------------
(* The process.                                                              *)

(* Loading opens one controller per stored indexer, at the position the      *)
(* manager keeps for it.                                                     *)
LEMMA LoadShape ==
  ASSUME TypeOK, Load
  PROVE  /\ ctl' \in Seq(Controller)
         /\ idx' \in [Iids -> 0..Len(ctl')]
         /\ \A i \in Iids : idx'[i] # 0 <=> db.ix[i] # Absent
         /\ \A i \in Iids : idx'[i] # 0 => ctl'[idx'[i]].iid = i
         /\ \A c \in DOMAIN ctl' : ctl'[c].open /\ idx'[ctl'[c].iid] = c
<1> DEFINE stored == StoredIndexers(db)
           n == Cardinality(stored)
<1>1. n \in Nat
  <2>1. IsFiniteSet(stored)
    BY IidsFinite, FS_Subset DEF StoredIndexers
  <2> QED  BY <2>1, FS_CardinalityType
<1>2. PICK order \in Bijection(1..n, stored) :
         /\ ctl' = [k \in 1..n |-> LoadedController(order[k])]
         /\ idx' = [i \in Iids |-> IF i \in stored THEN CHOOSE k \in 1..n : order[k] = i ELSE 0]
  BY DEF Load
<1> HIDE DEF n
<1>3. /\ order \in [1..n -> stored]
      /\ \A i \in stored : \E k \in 1..n : order[k] = i
      /\ \A j, k \in 1..n : order[j] = order[k] => j = k
  BY DEF Bijection, Injection, Surjection, IsInjective
<1>4. \A i \in stored : idx'[i] \in 1..n /\ order[idx'[i]] = i
  BY <1>2, <1>3 DEF StoredIndexers
<1>5. ASSUME NEW i \in stored PROVE LoadedController(i) \in Controller /\ LoadedController(i).iid = i
                                    /\ LoadedController(i).open
  <2>1. db \in Store /\ i \in Iids /\ db.ix[i] \in IndexerNode /\ IndexerLoads(db, i)
    BY DEF TypeOK, Store, StoredIndexers, Load, Loadable
  <2>2. Chosen(db.ix[i].ia, Standard) \in Good /\ Chosen(db.ix[i].qa, Standard) \in Good
    <3>1. db.ix[i].ia \in MaybeNames /\ db.ix[i].qa \in MaybeNames
          /\ db.ix[i].ia # Bad /\ db.ix[i].qa # Bad
      BY <2>1 DEF IndexerNode, IndexerLoads
    <3> QED  BY <3>1, StandardIsGood DEF Chosen, MaybeNames, Names
  <2>3. \A f \in Fields : IsManual(db.is[<<i, f>>]) => db.is[<<i, f>>] \in Good
    BY <2>1 DEF IndexerLoads, IsManual, Names
  <2> QED  BY <2>1, <2>2, <2>3 DEF LoadedController, Controller
<1>6. ctl' \in [1..n -> Controller]
  BY <1>2, <1>3, <1>5
<1>7. ctl' \in Seq(Controller) /\ Len(ctl') = n /\ DOMAIN ctl' = 1..n
  BY <1>1, <1>6
<1>8. idx' \in [Iids -> 0..n]
  BY <1>1, <1>2, <1>4
<1>9. \A i \in Iids : IF i \in stored THEN idx'[i] \in 1..n ELSE idx'[i] = 0
  BY <1>2, <1>4
<1>10. \A c \in 1..n : order[c] \in stored /\ ctl'[c].iid = order[c] /\ ctl'[c].open
  BY <1>2, <1>3, <1>5
<1>11. \A c \in 1..n : idx'[ctl'[c].iid] = c
  BY <1>3, <1>4, <1>10
<1>12. \A i \in stored : ctl'[idx'[i]].iid = i
  BY <1>4, <1>10
<1> QED  BY <1>1, <1>7, <1>8, <1>9, <1>10, <1>11, <1>12 DEF StoredIndexers

(* A loaded searcher searches loaded controllers. *)
LEMMA LoadedSearcherType ==
  ASSUME TypeOK, Load, NEW s \in Sids
  PROVE  /\ srch'[s] = LoadedSearcher(idx', s)
         /\ srch'[s] \in Searcher \cup {Unregistered}
         /\ srch'[s] # Unregistered =>
              /\ srch'[s].base \in {idx'[i] : i \in Iids} \ {0}
              /\ srch'[s].append \subseteq {idx'[i] : i \in Iids} \ {0}
<1>1. srch'[s] = LoadedSearcher(idx', s)
  BY DEF Load
<1>2. CASE db.sr[s] = Absent \/ db.sr[s].target = {}
  BY <1>1, <1>2 DEF LoadedSearcher
<1>3. CASE ~ (db.sr[s] = Absent \/ db.sr[s].target = {})
  <2> DEFINE v == db.sr[s]
             numbered == [i \in Iids |-> IF db.ix[i] = Absent THEN 0 ELSE 1]
  <2>1. v \in SearcherNode /\ v.target # {} /\ db \in Store
    BY <1>3 DEF TypeOK, Store
  <2>2. ~ RegisterThrows(numbered, db, s, v)
    BY <1>3 DEF Load, Loadable, SearcherLoads
  <2>3. First[v.target] \in Iids
    BY <2>1, FirstChooses DEF SearcherNode
  <2>4. db.ix[First[v.target]] # Absent
    BY <2>1, <2>2, <2>3 DEF RegisterThrows
  <2>5. ~ RegisterThrows(idx', db, s, v)
    BY <2>2, <2>3, <2>4, LoadShape DEF RegisterThrows
  <2>6. idx' \in [Iids -> Nat]
    BY LoadShape
  <2>7. srch'[s] = RegisterSearcher(idx', db, s, v)
    BY <1>1, <1>3 DEF LoadedSearcher
  <2>8. srch'[s] \in Searcher
    BY <2>1, <2>5, <2>6, <2>7, RegisterType
  <2>9. srch'[s].base \in {idx'[i] : i \in Iids} /\ srch'[s].append \subseteq {idx'[i] : i \in Iids}
    BY <2>1, <2>5, <2>6, <2>7, RegisterType
  <2> QED  BY <1>1, <2>8, <2>9 DEF Searcher
<1> QED  BY <1>2, <1>3

LEMMA ProcessType ==
  ASSUME TypeOK, Commit \/ Load \/ LoadFails \/ Crash \/ Retry
  PROVE  TypeOK'
<1>1. CASE Commit
  BY <1>1 DEF Commit, TypeOK, memory
<1>2. CASE Load
  <2>1. srch' \in [Sids -> Searcher \cup {Unregistered}]
    BY <1>2, LoadedSearcherType DEF Load
  <2> QED  BY <1>2, <2>1, LoadShape DEF Load, TypeOK
<1>3. CASE LoadFails \/ Retry
  BY <1>3 DEF LoadFails, Retry, TypeOK, memory
<1>4. CASE Crash
  <2>1. EmptyStore \in Store
    BY DEF EmptyStore, Store
  <2>2. ctl' \in Seq(Controller) /\ idx' \in [Iids -> 0..Len(ctl')]
    BY <1>4 DEF Crash
  <2>3. srch' \in [Sids -> Searcher \cup {Unregistered}]
    BY <1>4 DEF Crash
  <2> QED  BY <1>4, <2>1, <2>2, <2>3 DEF Crash, TypeOK
<1> QED  BY <1>1, <1>2, <1>3, <1>4

LEMMA TypeInit == Init => TypeOK
<1> SUFFICES ASSUME Init PROVE TypeOK
  OBVIOUS
<1>1. EmptyStore \in Store
  BY DEF EmptyStore, Store
<1>2. ctl \in Seq(Controller) /\ idx \in [Iids -> 0..Len(ctl)]
  BY DEF Init
<1>3. srch \in [Sids -> Searcher \cup {Unregistered}]
  BY DEF Init
<1> QED  BY <1>1, <1>2, <1>3 DEF Init, TypeOK

LEMMA TypeStep == TypeOK /\ [Next]_vars => TypeOK'
<1> SUFFICES ASSUME TypeOK, [Next]_vars PROVE TypeOK'
  OBVIOUS
<1>1. CASE UNCHANGED vars
  BY <1>1 DEF vars, TypeOK
<1> QED  BY <1>1, RequestsType, HandlersType, ProcessType DEF Next

(* The state of REntry is well typed: in particular every analyzer name in   *)
(* force is one that could be loaded, whatever names requests store.         *)
THEOREM TypeCorrect == Spec => []TypeOK
BY TypeInit, TypeStep, PTL DEF Spec
-----------------------------------------------------------------------------
(* Controllers and searchers.  IndexManager maps an id to the latest         *)
(* controller opened for it, and searchers use controllers that exist.       *)

Owned == \A i \in Iids : idx[i] # 0 => ctl[idx[i]].iid = i
Latest == \A c \in DOMAIN ctl : idx[ctl[c].iid] # 0 => idx[ctl[c].iid] >= c
SearchesOpened == \A s \in Sids : HasSearch(s) => Used(s) \subseteq DOMAIN ctl

ControllerInv == Owned /\ OpenIffRegistered /\ Latest /\ SearchesOpened

(* A step that leaves the manager alone and changes analyzers only. *)
LEMMA SameControllers ==
  ASSUME TypeOK, ControllerInv, idx' = idx, DOMAIN ctl' = DOMAIN ctl,
         \A c \in DOMAIN ctl : ctl'[c].iid = ctl[c].iid /\ ctl'[c].open = ctl[c].open,
         \A s \in Sids : HasSearch(s)' => /\ HasSearch(s)
                                         /\ srch'[s].base = srch[s].base
                                         /\ srch'[s].append = srch[s].append
  PROVE  ControllerInv'
<1>1. \A i \in Iids : idx[i] # 0 => idx[i] \in DOMAIN ctl
  BY DEF TypeOK
<1>2. Owned'
  BY <1>1 DEF ControllerInv, Owned
<1>3. OpenIffRegistered' /\ Latest'
  BY DEF ControllerInv, OpenIffRegistered, Latest
<1>4. SearchesOpened'
  BY DEF ControllerInv, SearchesOpened, Used
<1> QED  BY <1>2, <1>3, <1>4 DEF ControllerInv

LEMMA ControllerHandlers ==
  ASSUME TypeOK, TypeOK', ControllerInv, Handlers
  PROVE  ControllerInv'
<1>0. /\ ctl \in Seq(Controller) /\ idx \in [Iids -> 0..Len(ctl)]
      /\ srch \in [Sids -> Searcher \cup {Unregistered}] /\ wk \in Store
      /\ DOMAIN ctl = 1..Len(ctl) /\ Len(ctl) \in Nat
  BY DEF TypeOK
<1>i. \A i \in Iids : idx[i] # 0 => idx[i] \in DOMAIN ctl
  BY <1>0
<1>c. \A c \in DOMAIN ctl : ctl[c] \in Controller /\ ctl[c].iid \in Iids
  <2>1. ASSUME NEW c \in DOMAIN ctl PROVE ctl[c] \in Controller
    BY <1>0
  <2> QED  BY <2>1 DEF Controller
<1>p. ASSUME NEW at, PutsAt(at) PROVE NextPut \in Puts /\ NextPut.at = at
  BY <1>p, NextPutType DEF PutsAt, NextPut
<1>1. ASSUME IndexerCreated PROVE ControllerInv'
  <2> DEFINE i == NextPut.key
             n == Len(ctl) + 1
  <2>1. i \in Iids
    BY <1>1, <1>p DEF IndexerCreated, Puts, IndexerPuts, IndexSchemaPuts, SearcherPuts, SearchSchemaPuts
  <2>2. /\ DOMAIN ctl' = 1..n /\ ctl'[n].iid = i /\ ctl'[n].open
        /\ \A c \in DOMAIN ctl : ctl'[c] = ctl[c]
    BY <1>0, <1>1 DEF IndexerCreated, NewController
  <2>3. idx[i] = 0 /\ idx' = [idx EXCEPT ![i] = n]
    BY <1>1 DEF IndexerCreated, Registered
  <2>4. \A c \in DOMAIN ctl : c # n /\ c \in 1..n /\ c <= n
    BY <1>0
  <2>5. Owned'
    BY <1>0, <1>i, <2>1, <2>2, <2>3, <2>4 DEF ControllerInv, Owned
  <2>6. OpenIffRegistered'
    <3> SUFFICES ASSUME NEW c \in DOMAIN ctl' PROVE (ctl'[c].open <=> idx'[ctl'[c].iid] = c)
      BY DEF OpenIffRegistered
    <3>1. CASE c = n
      BY <1>0, <2>1, <2>2, <2>3, <3>1
    <3>2. CASE c \in DOMAIN ctl
      <4>1. ctl'[c] = ctl[c] /\ (ctl[c].open <=> idx[ctl[c].iid] = c)
        BY <2>2, <3>2 DEF ControllerInv, OpenIffRegistered
      <4>2. CASE ctl[c].iid = i
        BY <1>0, <2>1, <2>3, <2>4, <3>2, <4>1, <4>2
      <4>3. CASE ctl[c].iid # i
        BY <1>0, <1>c, <2>1, <2>3, <3>2, <4>1, <4>3
      <4> QED  BY <4>2, <4>3
    <3> QED  BY <1>0, <2>2, <3>1, <3>2
  <2>7. Latest'
    <3> SUFFICES ASSUME NEW c \in DOMAIN ctl', idx'[ctl'[c].iid] # 0 PROVE idx'[ctl'[c].iid] >= c
      BY DEF Latest
    <3>1. CASE c = n
      BY <1>0, <2>1, <2>2, <2>3, <3>1
    <3>2. CASE c \in DOMAIN ctl /\ ctl[c].iid = i
      BY <1>0, <2>1, <2>2, <2>3, <2>4, <3>2
    <3>3. CASE c \in DOMAIN ctl /\ ctl[c].iid # i
      BY <1>0, <1>c, <2>1, <2>2, <2>3, <3>3 DEF ControllerInv, Latest
    <3> QED  BY <1>0, <2>2, <3>1, <3>2, <3>3
  <2>8. SearchesOpened'
    BY <1>1, <2>2, <2>4 DEF IndexerCreated, ControllerInv, SearchesOpened, Used, HasSearch
  <2> QED  BY <2>5, <2>6, <2>7, <2>8 DEF ControllerInv
<1>2. ASSUME IndexerModified \/ IndexSchemaModified PROVE ControllerInv'
  <2>1. UNCHANGED <<idx, srch>>
    BY <1>2 DEF IndexerModified, IndexSchemaModified
  <2>2. \/ ctl' = ctl
        \/ \E c, ia : ctl' = [ctl EXCEPT ![c].ia = ia]
        \/ \E c, ia, qa : ctl' = [ctl EXCEPT ![c].ia = ia, ![c].qa = qa]
        \/ \E c, f, v : ctl' = [ctl EXCEPT ![c].fields[f] = v]
    BY <1>2 DEF IndexerModified, IndexSchemaModified
  <2>3. /\ DOMAIN ctl' = DOMAIN ctl
        /\ \A c \in DOMAIN ctl : ctl'[c].iid = ctl[c].iid /\ ctl'[c].open = ctl[c].open
    <3> DEFINE Same == /\ DOMAIN ctl' = DOMAIN ctl
                       /\ \A c \in DOMAIN ctl : ctl'[c].iid = ctl[c].iid /\ ctl'[c].open = ctl[c].open
    <3>1. ASSUME NEW c, NEW ia, ctl' = [ctl EXCEPT ![c].ia = ia] PROVE Same
      BY <1>0, <1>c, <3>1 DEF Controller
    <3>2. ASSUME NEW c, NEW ia, NEW qa, ctl' = [ctl EXCEPT ![c].ia = ia, ![c].qa = qa] PROVE Same
      BY <1>0, <1>c, <3>2 DEF Controller
    <3>3. ASSUME NEW c, NEW f, NEW v, ctl' = [ctl EXCEPT ![c].fields[f] = v] PROVE Same
      BY <1>0, <1>c, <3>3 DEF Controller
    <3> QED  BY <2>2, <3>1, <3>2, <3>3
  <2> QED  BY <2>1, <2>3, SameControllers DEF HasSearch
<1>3. ASSUME NEW i \in Iids, UNCHANGED srch,
             ctl' = IF Registered(i) THEN [ctl EXCEPT ![idx[i]].open = FALSE] ELSE ctl,
             idx' = [idx EXCEPT ![i] = 0]
      PROVE  ControllerInv'
  <2>1. /\ DOMAIN ctl' = DOMAIN ctl
        /\ \A c \in DOMAIN ctl : /\ ctl'[c].iid = ctl[c].iid
                                 /\ ctl'[c].open = (ctl[c].open /\ ~ (idx[i] # 0 /\ c = idx[i]))
    BY <1>0, <1>c, <1>3 DEF Registered, Controller
  <2>2. Owned'
    BY <1>0, <1>i, <1>3, <2>1 DEF ControllerInv, Owned
  <2>3. OpenIffRegistered'
    <3> SUFFICES ASSUME NEW c \in DOMAIN ctl PROVE (ctl'[c].open <=> idx'[ctl[c].iid] = c)
      BY <2>1 DEF OpenIffRegistered
    <3>1. (ctl[c].open <=> idx[ctl[c].iid] = c) /\ c # 0
      BY <1>0 DEF ControllerInv, OpenIffRegistered
    <3>2. CASE ctl[c].iid = i
      BY <1>0, <1>3, <2>1, <3>1, <3>2
    <3>3. CASE ctl[c].iid # i
      <4>1. idx[i] # 0 => c # idx[i]
        BY <3>3 DEF ControllerInv, Owned
      <4> QED  BY <1>0, <1>c, <1>3, <2>1, <3>1, <3>3, <4>1
    <3> QED  BY <3>2, <3>3
  <2>4. Latest'
    BY <1>0, <1>c, <1>3, <2>1 DEF ControllerInv, Latest
  <2>5. SearchesOpened'
    BY <1>3, <2>1 DEF ControllerInv, SearchesOpened, Used, HasSearch
  <2> QED  BY <2>2, <2>3, <2>4, <2>5 DEF ControllerInv
<1>4. ASSUME NEW i \in Iids, NEW f \in Fields, UNCHANGED <<idx, srch>>,
             ctl' = IF Registered(i) THEN [ctl EXCEPT ![idx[i]].fields[f] = Null] ELSE ctl
      PROVE  ControllerInv'
  <2>1. /\ DOMAIN ctl' = DOMAIN ctl
        /\ \A c \in DOMAIN ctl : ctl'[c].iid = ctl[c].iid /\ ctl'[c].open = ctl[c].open
    BY <1>0, <1>c, <1>4 DEF Controller
  <2> QED  BY <1>4, <2>1, SameControllers DEF HasSearch
<1>5. ASSUME SearcherModified PROVE ControllerInv'
  <2> DEFINE s == NextPut.key
             v == NextPut.val
  <2>1. s \in Sids /\ v \in SearcherNode
    BY <1>5, <1>p DEF SearcherModified, Puts, IndexerPuts, IndexSchemaPuts, SearcherPuts, SearchSchemaPuts
  <2>2. CASE srch' = srch
    BY <1>5, <2>2, SameControllers DEF SearcherModified, HasSearch
  <2>3. CASE /\ v.target # {} /\ ~ RegisterThrows(idx, wk, s, v)
             /\ srch' = [srch EXCEPT ![s] = RegisterSearcher(idx, wk, s, v)]
    <3> DEFINE r == RegisterSearcher(idx, wk, s, v)
    <3>1. idx \in [Iids -> Nat]
      BY <1>0
    <3>2. r \in Searcher /\ r.base \in {idx[i] : i \in Iids} /\ r.append \subseteq {idx[i] : i \in Iids}
      BY <1>0, <2>1, <2>3, <3>1, RegisterType
    <3>3. r.base # 0 /\ 0 \notin r.append
      BY <3>2 DEF Searcher
    <3>4. {r.base} \cup r.append \subseteq DOMAIN ctl
      BY <1>i, <3>2, <3>3
    <3>5. SearchesOpened'
      BY <1>0, <1>5, <2>1, <2>3, <3>4 DEF SearcherModified, ControllerInv, SearchesOpened, Used, HasSearch
    <3> QED  BY <1>5, <3>5 DEF SearcherModified, ControllerInv, Owned, OpenIffRegistered, Latest
  <2> QED  BY <1>5, <2>2, <2>3 DEF SearcherModified
<1>6. ASSUME NEW s \in Sids, srch' = [srch EXCEPT ![s] = Unregistered], UNCHANGED <<ctl, idx>>
      PROVE  ControllerInv'
  BY <1>0, <1>6, SameControllers DEF HasSearch
<1>7. ASSUME SearchSchemaModified PROVE ControllerInv'
  <2>1. /\ UNCHANGED <<ctl, idx>>
        /\ \A s \in Sids : HasSearch(s)' => /\ HasSearch(s)
                                           /\ srch'[s].base = srch[s].base
                                           /\ srch'[s].append = srch[s].append
    <3>1. UNCHANGED <<ctl, idx>>
      BY <1>7 DEF SearchSchemaModified
    <3>2. \/ srch' = srch
          \/ \E s, f, v : HasSearch(s) /\ srch' = [srch EXCEPT ![s].fields[f] = v]
      BY <1>7 DEF SearchSchemaModified
    <3> DEFINE Same == \A s \in Sids : HasSearch(s)' => /\ HasSearch(s)
                                                      /\ srch'[s].base = srch[s].base
                                                      /\ srch'[s].append = srch[s].append
    <3>3. ASSUME srch' = srch PROVE Same
      BY <3>3 DEF HasSearch
    <3>4. ASSUME NEW s, NEW f, NEW v, HasSearch(s), srch' = [srch EXCEPT ![s].fields[f] = v] PROVE Same
      BY <1>0, <3>4 DEF HasSearch, Searcher
    <3> QED  BY <3>1, <3>2, <3>3, <3>4
  <2> QED  BY <2>1, SameControllers
<1>8. ASSUME NEW s \in Sids, NEW f \in Fields, UNCHANGED <<ctl, idx>>,
             srch' = IF HasSearch(s) THEN [srch EXCEPT ![s].fields[f] = Null] ELSE srch
      PROVE  ControllerInv'
  <2>1. \A t \in Sids : HasSearch(t)' => /\ HasSearch(t)
                                        /\ srch'[t].base = srch[t].base
                                        /\ srch'[t].append = srch[t].append
    BY <1>0, <1>8 DEF HasSearch
  <2> QED  BY <1>8, <2>1, SameControllers
<1> QED
  BY <1>1, <1>2, <1>3, <1>4, <1>5, <1>6, <1>7, <1>8
     DEF Handlers, IndexerDeleted, IndexSchemaDeleted, SearcherDeleted, SearchSchemaDeleted

LEMMA ControllerInit == Init => ControllerInv
BY DEF Init, ControllerInv, Owned, OpenIffRegistered, Latest, SearchesOpened, HasSearch

LEMMA ControllerStep == TypeOK /\ TypeOK' /\ ControllerInv /\ [Next]_vars => ControllerInv'
<1> SUFFICES ASSUME TypeOK, TypeOK', ControllerInv, [Next]_vars PROVE ControllerInv'
  OBVIOUS
<1>1. CASE UNCHANGED memory
  BY <1>1, SameControllers DEF memory, HasSearch
<1>2. CASE Requests
  <2>1. UNCHANGED memory
    BY <1>2 DEF Requests, CreateIndexer, RemoveIndexer, UpdateField, DefineIndexer, AddIndexSchema,
         RemoveIndexSchema, CreateSearcher, RemoveSearcher, EditTemplate, DefineSearcher,
         AddSearchSchema, RemoveSearchSchema, Merge, Remove, Begin, memory
  <2> QED  BY <1>1, <2>1
<1>3. CASE Handlers
  BY <1>3, ControllerHandlers
<1>4. CASE Load
  <2>1. Owned' /\ OpenIffRegistered' /\ Latest'
    <3>1. DOMAIN ctl' = 1..Len(ctl') /\ Len(ctl') \in Nat
      BY DEF TypeOK
    <3> QED  BY <1>4, <3>1, LoadShape DEF Owned, OpenIffRegistered, Latest
  <2>2. \A i \in Iids : idx'[i] # 0 => idx'[i] \in DOMAIN ctl'
    BY <1>4, LoadShape
  <2>3. SearchesOpened'
    BY <1>4, <2>2, LoadedSearcherType DEF SearchesOpened, HasSearch, Used
  <2> QED  BY <2>1, <2>3 DEF ControllerInv
<1>5. CASE Crash
  BY <1>5 DEF Crash, ControllerInv, Owned, OpenIffRegistered, Latest, SearchesOpened, HasSearch
<1> QED
  BY <1>1, <1>2, <1>3, <1>4, <1>5 DEF Next, Commit, LoadFails, Retry, vars, memory

(* A controller is open exactly while IndexManager hands it out: removing,   *)
(* re-creating and reloading an indexer never leaves two open controllers    *)
(* over one index directory, nor a registered one that is closed.            *)
THEOREM RegisteredIsOpen == Spec => []OpenIffRegistered
<1>1. ControllerInv => OpenIffRegistered
  BY DEF ControllerInv
<1> QED  BY <1>1, TypeInit, TypeStep, ControllerInit, ControllerStep, PTL DEF Spec

(* A searcher goes stale only through the removal of an indexer it searches. *)
THEOREM StaleByRemovalOnly == Spec => []StaleOnlyIfRemoved
<1>1. TypeOK /\ ControllerInv => StaleOnlyIfRemoved
  <2> SUFFICES ASSUME TypeOK, ControllerInv, NEW s \in Sids, HasSearch(s), NEW c \in Used(s),
                      ~ ctl[c].open, idx[ctl[c].iid] # 0
               PROVE  idx[ctl[c].iid] > c
    BY DEF StaleOnlyIfRemoved
  <2>1. c \in DOMAIN ctl /\ c \in Nat
    BY DEF ControllerInv, SearchesOpened, TypeOK
  <2>2. ctl[c] \in Controller
    BY <2>1 DEF TypeOK
  <2>3. idx[ctl[c].iid] \in Nat
    BY <2>2 DEF TypeOK, Controller
  <2>4. idx[ctl[c].iid] # c /\ idx[ctl[c].iid] >= c
    BY <2>1 DEF ControllerInv, OpenIffRegistered, Latest
  <2> QED  BY <2>1, <2>3, <2>4
<1> QED  BY <1>1, TypeInit, TypeStep, ControllerInit, ControllerStep, PTL DEF Spec
-----------------------------------------------------------------------------
(* The store and the manager.  What a rollback can bring back is registered: *)
(* an indexer leaves the manager only in a transaction that has nothing left *)
(* that could fail.                                                          *)

IdleIsCommitted == /\ phase # "up" => tran = Idle
                   /\ tran = Idle => wk = db
ReadIsRegistered == phase = "up" => \A i \in Iids : wk.ix[i] # Absent => Registered(i)
RollbackIsRegistered ==
  phase = "up" /\ (tran = Idle \/ tran.puts # <<>>)
    => \A i \in Iids : db.ix[i] # Absent => Registered(i)

RegisteredInv == IdleIsCommitted /\ ReadIsRegistered /\ RollbackIsRegistered

LEMMA IdleIsNoTran == Idle \notin Tran
BY DEF Idle, Tran

(* A put that is done, of a node whose indexer is registered afterwards. *)
LEMMA PutDoneRegistered ==
  ASSUME TypeOK, RegisteredInv, tran.puts # <<>>, PutDone,
         \A i \in Iids : Registered(i) => Registered(i)',
         \A i \in Iids : NextPut.at = "ix" /\ NextPut.key = i => Registered(i)'
  PROVE  RegisteredInv'
<1>1. tran \in Tran /\ NextPut \in Puts
  BY NextPutType
<1>2. tran' \in Tran
  BY NextPutType DEF PutDone, Tran
<1>3. phase = "up"
  BY <1>1, IdleIsNoTran DEF RegisteredInv, IdleIsCommitted, TypeOK
<1>4. \A i \in Iids : wk'.ix[i] # Absent => wk.ix[i] # Absent \/ (NextPut.at = "ix" /\ i = NextPut.key)
  <2>1. wk' = Put(wk, NextPut) /\ wk \in Store
    BY DEF PutDone, TypeOK
  <2>2. CASE NextPut.at = "ix"
    BY <2>1, <2>2 DEF Put, Store
  <2>3. CASE NextPut.at # "ix"
    BY <2>1, <2>3 DEF Put, Store
  <2> QED  BY <2>2, <2>3
<1>5. ReadIsRegistered'
  <2> SUFFICES ASSUME NEW i \in Iids, wk'.ix[i] # Absent PROVE Registered(i)'
    BY DEF ReadIsRegistered
  <2>1. CASE wk.ix[i] # Absent
    BY <1>3, <2>1 DEF RegisteredInv, ReadIsRegistered
  <2>2. CASE NextPut.at = "ix" /\ i = NextPut.key
    BY <2>2
  <2> QED  BY <1>4, <2>1, <2>2
<1>6. RollbackIsRegistered'
  BY <1>3 DEF RegisteredInv, RollbackIsRegistered, PutDone
<1>7. IdleIsCommitted'
  BY <1>2, <1>3, IdleIsNoTran DEF IdleIsCommitted, PutDone
<1> QED  BY <1>5, <1>6, <1>7 DEF RegisteredInv

(* A put whose handler threw; that of an indexer throws for known ones only. *)
LEMMA PutFailedRegistered ==
  ASSUME TypeOK, RegisteredInv, tran.puts # <<>>, PutFailed, UNCHANGED idx,
         NextPut.at = "ix" => NextPut.key \in Iids /\ Registered(NextPut.key)
  PROVE  RegisteredInv'
<1>1. tran \in Tran /\ NextPut \in Puts
  BY NextPutType
<1>3. phase = "up"
  BY <1>1, IdleIsNoTran DEF RegisteredInv, IdleIsCommitted, TypeOK
<1>4. \A i \in Iids : wk'.ix[i] # Absent => Registered(i)
  <2>1. CASE Transactional
    BY <1>3, <2>1 DEF PutFailed, RegisteredInv, RollbackIsRegistered
  <2>2. CASE ~ Transactional
    <3>1. wk' = Put(wk, NextPut) /\ wk \in Store
      BY <2>2 DEF PutFailed, TypeOK
    <3>2. CASE NextPut.at = "ix"
      BY <1>3, <3>1, <3>2 DEF Put, Store, RegisteredInv, ReadIsRegistered
    <3>3. CASE NextPut.at # "ix"
      BY <1>3, <3>1, <3>3 DEF Put, Store, RegisteredInv, ReadIsRegistered
    <3> QED  BY <3>2, <3>3
  <2> QED  BY <2>1, <2>2
<1>5. db' = wk' /\ tran' = Idle /\ phase' = phase
  BY DEF PutFailed
<1> QED  BY <1>3, <1>4, <1>5 DEF RegisteredInv, IdleIsCommitted, ReadIsRegistered,
            RollbackIsRegistered, Registered

LEMMA RemovingRegistered ==
  ASSUME TypeOK, RegisteredInv, NEW d \in Removes, Removing(d),
         \A i \in Iids : Registered(i) => Registered(i)' \/ (d.at = "ix" /\ i = d.key)
  PROVE  RegisteredInv'
<1>1. tran \in Tran /\ tran' \in Tran /\ tran'.puts = <<>>
  <2>1. tran \in Tran
    BY DEF TypeOK, Removing, Idle
  <2> QED  BY <2>1 DEF Removing, Tran
<1>2. phase = "up" /\ phase' = "up"
  BY <1>1, IdleIsNoTran DEF RegisteredInv, IdleIsCommitted, TypeOK, Removing
<1>3. \A i \in Iids : wk'.ix[i] # Absent => wk.ix[i] # Absent /\ ~ (d.at = "ix" /\ i = d.key)
  <2>1. wk' = Take(wk, d) /\ wk \in Store
    BY DEF Removing, TypeOK
  <2>2. CASE d.at = "ix"
    BY <2>1, <2>2 DEF Take, Store
  <2>3. CASE d.at # "ix"
    BY <2>1, <2>3 DEF Take, Store
  <2> QED  BY <2>2, <2>3
<1> QED  BY <1>1, <1>2, <1>3, IdleIsNoTran
            DEF RegisteredInv, IdleIsCommitted, ReadIsRegistered, RollbackIsRegistered

LEMMA RegisteredHandlers ==
  ASSUME TypeOK, RegisteredInv, Handlers
  PROVE  RegisteredInv'
<1>0. /\ ctl \in Seq(Controller) /\ Len(ctl) \in Nat /\ idx \in [Iids -> 0..Len(ctl)]
  BY DEF TypeOK
<1>p. ASSUME NEW at, PutsAt(at) PROVE tran.puts # <<>> /\ NextPut \in Puts /\ NextPut.at = at
  BY <1>p, NextPutType DEF PutsAt, NextPut
<1>ix. PutsAt("ix") => NextPut.key \in Iids
  BY <1>p DEF Puts, IndexerPuts, IndexSchemaPuts, SearcherPuts, SearchSchemaPuts
<1>1. ASSUME IndexerCreated PROVE RegisteredInv'
  BY <1>0, <1>1, <1>p, <1>ix, PutDoneRegistered DEF IndexerCreated, Registered
<1>2. ASSUME IndexerModified PROVE RegisteredInv'
  <2>1. PutDone \/ PutFailed
    BY <1>2 DEF IndexerModified
  <2>2. UNCHANGED idx /\ Registered(NextPut.key) /\ tran.puts # <<>> /\ NextPut.key \in Iids
    BY <1>2, <1>p, <1>ix DEF IndexerModified
  <2> QED  BY <2>1, <2>2, PutDoneRegistered, PutFailedRegistered DEF Registered
<1>3. ASSUME IndexSchemaModified \/ SearcherModified \/ SearchSchemaModified PROVE RegisteredInv'
  <2>1. UNCHANGED idx /\ (PutDone \/ PutFailed)
    BY <1>3 DEF IndexSchemaModified, SearcherModified, SearchSchemaModified
  <2>2. tran.puts # <<>> /\ NextPut.at # "ix"
    BY <1>3, <1>p DEF IndexSchemaModified, SearcherModified, SearchSchemaModified
  <2> QED  BY <2>1, <2>2, PutDoneRegistered, PutFailedRegistered DEF Registered
<1>4. ASSUME IndexerDeleted PROVE RegisteredInv'
  <2>1. PICK i \in Iids : Removing([at |-> "ix", key |-> i]) /\ idx' = [idx EXCEPT ![i] = 0]
    BY <1>4 DEF IndexerDeleted
  <2>2. [at |-> "ix", key |-> i] \in Removes
    BY DEF Removes
  <2>3. \A j \in Iids : Registered(j) => Registered(j)' \/ j = i
    BY <1>0, <2>1 DEF Registered
  <2> QED  BY <2>1, <2>2, <2>3, RemovingRegistered
<1>5. ASSUME IndexSchemaDeleted \/ SearcherDeleted \/ SearchSchemaDeleted PROVE RegisteredInv'
  <2>1. PICK d \in Removes : Removing(d) /\ UNCHANGED idx
    BY <1>5 DEF IndexSchemaDeleted, SearcherDeleted, SearchSchemaDeleted, Removes
  <2> QED  BY <2>1, RemovingRegistered DEF Registered
<1> QED  BY <1>1, <1>2, <1>3, <1>4, <1>5 DEF Handlers

LEMMA RegisteredInit == Init => RegisteredInv
BY DEF Init, RegisteredInv, IdleIsCommitted, ReadIsRegistered, RollbackIsRegistered

LEMMA RegisteredStep == TypeOK /\ TypeOK' /\ RegisteredInv /\ [Next]_vars => RegisteredInv'
<1> SUFFICES ASSUME TypeOK, TypeOK', RegisteredInv, [Next]_vars PROVE RegisteredInv'
  OBVIOUS
<1> USE DEF RegisteredInv, IdleIsCommitted, ReadIsRegistered, RollbackIsRegistered, Registered
<1>1. CASE UNCHANGED vars
  BY <1>1 DEF vars
<1>2. CASE Requests
  <2>1. tran = Idle /\ phase = "up" /\ UNCHANGED <<phase, db, wk, idx>>
    BY <1>2 DEF Requests, CreateIndexer, RemoveIndexer, UpdateField, DefineIndexer, AddIndexSchema,
       RemoveIndexSchema, CreateSearcher, RemoveSearcher, EditTemplate, DefineSearcher,
       AddSearchSchema, RemoveSearchSchema, Merge, Remove, Begin, memory
  <2> QED  BY <2>1
<1>3. CASE Handlers
  BY <1>3, RegisteredHandlers
<1>4. CASE Commit
  BY <1>4 DEF Commit, memory
<1>5. CASE Load
  BY <1>5, LoadShape DEF Load
<1>6. CASE LoadFails \/ Crash \/ Retry
  BY <1>6 DEF LoadFails, Crash, Retry, memory
<1> QED  BY <1>1, <1>2, <1>3, <1>4, <1>5, <1>6 DEF Next

(* Every committed indexer has its controller between transactions, on the   *)
(* store that rolls back and on the one that cannot, after any sequence of   *)
(* requests, failures, crashes and restarts.                                 *)
THEOREM CommittedIsRegistered == Spec => []StoredIsRegistered
<1>1. RegisteredInv => StoredIsRegistered
  BY DEF RegisteredInv, RollbackIsRegistered, StoredIsRegistered, Quiet
<1> QED  BY <1>1, TypeInit, TypeStep, RegisteredInit, RegisteredStep, PTL DEF Spec
=============================================================================
