-------------------------- MODULE REntryStoreProofs --------------------------
(* Proofs about REntry, continued: what a transaction has still to do, that   *)
(* no schema is orphaned, that what is committed is in force in the managers, *)
(* and that REntry implements AdminCatalogue.                                 *)
EXTENDS REntryProofs, SequenceTheorems

(* What a put and a remove do to each cell of the store. *)
LEMMA PutIs ==
  ASSUME NEW st \in Store, NEW p \in Puts
  PROVE  /\ \A i \in Iids : Put(st, p).ix[i] = IF p.at = "ix" /\ p.key = i THEN p.val ELSE st.ix[i]
         /\ \A k \in Iids \X Fields :
              Put(st, p).is[k] = IF p.at = "is" /\ p.key = k THEN p.val ELSE st.is[k]
         /\ \A s \in Sids : Put(st, p).sr[s] = IF p.at = "sr" /\ p.key = s THEN p.val ELSE st.sr[s]
         /\ \A k \in Sids \X Fields :
              Put(st, p).ss[k] = IF p.at = "ss" /\ p.key = k THEN p.val ELSE st.ss[k]
<1>1. CASE p \in IndexerPuts
  BY <1>1 DEF Store, Put, IndexerPuts
<1>2. CASE p \in IndexSchemaPuts
  BY <1>2 DEF Store, Put, IndexSchemaPuts
<1>3. CASE p \in SearcherPuts
  BY <1>3 DEF Store, Put, SearcherPuts
<1>4. CASE p \in SearchSchemaPuts
  BY <1>4 DEF Store, Put, SearchSchemaPuts
<1> QED BY <1>1, <1>2, <1>3, <1>4 DEF Puts

LEMMA TakeIs ==
  ASSUME NEW st \in Store, NEW d \in Removes
  PROVE  /\ \A i \in Iids : Take(st, d).ix[i] = IF d.at = "ix" /\ d.key = i THEN Absent ELSE st.ix[i]
         /\ \A k \in Iids \X Fields :
              Take(st, d).is[k] = IF d.at = "is" /\ d.key = k THEN Absent ELSE st.is[k]
         /\ \A s \in Sids : Take(st, d).sr[s] = IF d.at = "sr" /\ d.key = s THEN Absent ELSE st.sr[s]
         /\ \A k \in Sids \X Fields :
              Take(st, d).ss[k] = IF d.at = "ss" /\ d.key = k THEN Absent ELSE st.ss[k]
<1>1. CASE d \in [at : {"ix"}, key : Iids]
  BY <1>1 DEF Store, Take
<1>2. CASE d \in [at : {"is"}, key : Iids \X Fields]
  BY <1>2 DEF Store, Take
<1>3. CASE d \in [at : {"sr"}, key : Sids]
  BY <1>3 DEF Store, Take
<1>4. CASE d \in [at : {"ss"}, key : Sids \X Fields]
  BY <1>4 DEF Store, Take
<1> QED BY <1>1, <1>2, <1>3, <1>4 DEF Removes
------------------------------------------------------------------------------
(* What a transaction still has to do.  Its puts end with the one that was    *)
(* asked for; the others make nodes without properties, and the indexer or    *)
(* searcher of the last one is there when it comes.  A removal takes the      *)
(* schemas with their node.                                                   *)
IsFresh(p) ==
  p.val = IF p.at = "ix" THEN NoIndexerProps ELSE IF p.at = "sr" THEN NoSearcherProps ELSE Empty

OfIndexer(p) == p.at \in {"ix", "is"}
Owner(p) == IF p.at \in {"ix", "sr"} THEN p.key ELSE p.key[1]
Parent(st, p) == IF OfIndexer(p) THEN st.ix[Owner(p)] ELSE st.sr[Owner(p)]

Brings(puts, n) == \E m \in 1 .. n : puts[m].at \in {"ix", "sr"}

Merges(puts, st) ==
  LET n == Len(puts)
  IN /\ \A m \in 1 .. n - 1 : IsFresh(puts[m])
     /\ \A m \in 1 .. n : /\ OfIndexer(puts[m]) <=> OfIndexer(puts[n])
                          /\ Owner(puts[m]) = Owner(puts[n])
     /\ Parent(st, puts[n]) # Absent \/ Brings(puts, n - 1)

IndexSchemaAt(i, f)  == [at |-> "is", key |-> <<i, f>>]
SearchSchemaAt(s, f) == [at |-> "ss", key |-> <<s, f>>]

TakesTrees(dels, st) ==
  /\ \A i \in Iids, f \in Fields :
       [at |-> "ix", key |-> i] \in dels /\ st.is[<<i, f>>] # Absent => IndexSchemaAt(i, f) \in dels
  /\ \A s \in Sids, f \in Fields :
       [at |-> "sr", key |-> s] \in dels /\ st.ss[<<s, f>>] # Absent => SearchSchemaAt(s, f) \in dels

TranInv ==
  /\ tran.puts # <<>> => tran.dels = {} /\ Merges(tran.puts, wk)
  /\ TakesTrees(tran.dels, wk)

LEMMA PutParts ==
  ASSUME NEW p \in Puts
  PROVE  /\ p.at \in {"ix", "is", "sr", "ss"} /\ p.val # Absent
         /\ p.at = "ix" => p.key \in Iids /\ p.val \in IndexerNode
         /\ p.at = "is" => p.key \in Iids \X Fields /\ p.val \in IndexSchemaNode
         /\ p.at = "sr" => p.key \in Sids /\ p.val \in SearcherNode
         /\ p.at = "ss" => p.key \in Sids \X Fields /\ p.val \in SearchSchemaNode
         /\ IF OfIndexer(p) THEN Owner(p) \in Iids ELSE Owner(p) \in Sids
<1>1. /\ p.at \in {"ix", "is", "sr", "ss"}
      /\ p.at = "ix" => p.key \in Iids /\ p.val \in IndexerNode
      /\ p.at = "is" => p.key \in Iids \X Fields /\ p.val \in IndexSchemaNode
      /\ p.at = "sr" => p.key \in Sids /\ p.val \in SearcherNode
      /\ p.at = "ss" => p.key \in Sids \X Fields /\ p.val \in SearchSchemaNode
  BY DEF Puts, IndexerPuts, IndexSchemaPuts, SearcherPuts, SearchSchemaPuts
<1>2. Absent \notin IndexerNode \cup SearcherNode \cup IndexSchemaNode \cup SearchSchemaNode
  BY AbsentIsNoNode, NamesDistinct DEF IndexSchemaNode, SearchSchemaNode, Names
<1>3. p.val # Absent
  BY <1>1, <1>2
<1>4. \A k \in (Iids \X Fields) : k[1] \in Iids
  OBVIOUS
<1>5. \A k \in (Sids \X Fields) : k[1] \in Sids
  OBVIOUS
<1> QED BY <1>1, <1>3, <1>4, <1>5 DEF OfIndexer, Owner

LEMMA TailIs ==
  ASSUME NEW puts \in Seq(Puts), puts # <<>>
  PROVE  /\ Len(puts) \in Nat \ {0} /\ Len(Tail(puts)) = Len(puts) - 1
         /\ \A n \in 1 .. Len(puts) - 1 : Tail(puts)[n] = puts[n + 1]
         /\ \A n \in 1 .. Len(puts) : puts[n] \in Puts
         /\ Tail(puts) # <<>> <=> Len(puts) # 1
         /\ Head(puts) = puts[1]
<1>1. Len(puts) \in Nat \ {0}
  BY EmptySeq, LenProperties
<1>2. /\ Len(Tail(puts)) = Len(puts) - 1 /\ Tail(puts) \in Seq(Puts) /\ Head(puts) = puts[1]
      /\ \A n \in 1 .. Len(puts) - 1 : Tail(puts)[n] = puts[n + 1]
  BY HeadTailProperties
<1>3. \A n \in 1 .. Len(puts) : puts[n] \in Puts
  BY ElementOfSeq
<1>4. Tail(puts) # <<>> <=> Len(Tail(puts)) # 0
  BY <1>2, EmptySeq
<1> QED BY <1>1, <1>2, <1>3, <1>4

(* What is put stays there, and the parent of the last put comes in time.     *)
LEMMA MergesTail ==
  ASSUME NEW st \in Store, NEW puts \in Seq(Puts), puts # <<>>, Merges(puts, st), Tail(puts) # <<>>
  PROVE  Merges(Tail(puts), Put(st, Head(puts)))
<1> DEFINE n == Len(puts)
           rest == Tail(puts)
           p == puts[n]
           h == puts[1]
           new == Put(st, h)
<1>1. /\ n \in Nat /\ n >= 2 /\ Len(rest) = n - 1
      /\ \A m \in 1 .. n - 1 : rest[m] = puts[m + 1]
      /\ h \in Puts /\ p \in Puts /\ Head(puts) = h
  BY TailIs
<1>2. /\ \A m \in 1 .. n - 1 : IsFresh(puts[m])
      /\ \A m \in 1 .. n : /\ OfIndexer(puts[m]) <=> OfIndexer(p)
                          /\ Owner(puts[m]) = Owner(p)
      /\ Parent(st, p) # Absent \/ Brings(puts, n - 1)
  BY DEF Merges
<1>3. (OfIndexer(h) <=> OfIndexer(p)) /\ Owner(h) = Owner(p)
  BY <1>1, <1>2
<1>4. rest[n - 1] = p
  BY <1>1
<1>5. \A m \in 1 .. n - 2 : IsFresh(rest[m])
  BY <1>1, <1>2
<1>6. \A m \in 1 .. n - 1 : /\ OfIndexer(rest[m]) <=> OfIndexer(p)
                          /\ Owner(rest[m]) = Owner(p)
  BY <1>1, <1>2
<1>7. Parent(st, p) # Absent => Parent(new, p) # Absent
  BY <1>1, PutIs, PutParts DEF Parent
<1>8. h.at \in {"ix", "sr"} => Parent(new, p) # Absent
  <2>1. ASSUME h.at \in {"ix", "sr"} PROVE h.key = Owner(p) /\ (OfIndexer(p) <=> h.at = "ix")
    BY <1>3, <2>1 DEF Owner, OfIndexer
  <2> QED BY <1>1, <2>1, PutIs, PutParts DEF Parent
<1>9. Brings(puts, n - 1) => Brings(rest, n - 2) \/ h.at \in {"ix", "sr"}
  <2> SUFFICES ASSUME NEW m \in 1 .. n - 1, puts[m].at \in {"ix", "sr"}, m # 1
               PROVE  Brings(rest, n - 2)
    BY DEF Brings
  <2>1. m - 1 \in 1 .. n - 2 /\ rest[m - 1] = puts[m]
    BY <1>1
  <2> QED BY <2>1 DEF Brings
<1> HIDE DEF n, rest, p, h, new
<1>10. Len(rest) = n - 1 /\ (n - 1) - 1 = n - 2
  BY <1>1
<1>11. Parent(new, p) # Absent \/ Brings(rest, n - 2)
  BY <1>2, <1>7, <1>8, <1>9
<1>12. Merges(rest, new)
  BY <1>4, <1>5, <1>6, <1>10, <1>11 DEF Merges
<1> QED BY <1>1, <1>12 DEF rest, new, h

(* The merges of the requests: one to three puts.                             *)
LEMMA MergesShort ==
  ASSUME NEW st, NEW p, NEW a, NEW b,
         IsFresh(a), OfIndexer(a) <=> OfIndexer(p), Owner(a) = Owner(p),
         IsFresh(b), OfIndexer(b) <=> OfIndexer(p), Owner(b) = Owner(p)
  PROVE  /\ Parent(st, p) # Absent => Merges(<<p>>, st)
         /\ Parent(st, p) # Absent \/ a.at \in {"ix", "sr"} => Merges(<<a, p>>, st)
         /\ b.at \in {"ix", "sr"} => Merges(<<a, b, p>>, st)
<1>1. ASSUME Parent(st, p) # Absent PROVE Merges(<<p>>, st)
  BY <1>1 DEF Merges
<1>2. ASSUME Parent(st, p) # Absent \/ a.at \in {"ix", "sr"} PROVE Merges(<<a, p>>, st)
  <2> DEFINE q == <<a, p>>
  <2>1. Len(q) = 2 /\ q[1] = a /\ q[2] = p
    OBVIOUS
  <2>2. a.at \in {"ix", "sr"} => Brings(q, 1)
    BY <2>1 DEF Brings
  <2> HIDE DEF q
  <2>3. Merges(q, st)
    BY <1>2, <2>1, <2>2 DEF Merges
  <2> QED BY <2>3 DEF q
<1>3. ASSUME b.at \in {"ix", "sr"} PROVE Merges(<<a, b, p>>, st)
  <2> DEFINE q == <<a, b, p>>
  <2>1. Len(q) = 3 /\ q[1] = a /\ q[2] = b /\ q[3] = p
    OBVIOUS
  <2>2. Brings(q, 2)
    BY <1>3, <2>1 DEF Brings
  <2> HIDE DEF q
  <2>3. Merges(q, st)
    BY <2>1, <2>2 DEF Merges
  <2> QED BY <2>3 DEF q
<1> QED BY <1>1, <1>2, <1>3

(* Concatenations of single puts. *)
LEMMA Joined ==
  ASSUME NEW a, NEW b, NEW p
  PROVE  /\ <<a>> \o <<p>> = <<a, p>> /\ <<>> \o <<p>> = <<p>>
         /\ (<<a>> \o <<b>>) \o <<p>> = <<a, b, p>> /\ (<<a>> \o <<>>) \o <<p>> = <<a, p>>
         /\ (<<>> \o <<b>>) \o <<p>> = <<b, p>> /\ (<<>> \o <<>>) \o <<p>> = <<p>>
<1> DEFINE S == {a, b, p}
<1>1. \A x, y \in S : <<x>> \in Seq(S) /\ <<x, y>> \in Seq(S)
  OBVIOUS
<1>2. <<a, b, p>> \in Seq(S)
  OBVIOUS
<1>3. \A x \in S : <<>> \o <<x>> = <<x>> /\ <<x>> \o <<>> = <<x>>
  BY <1>1, ConcatEmptySeq
<1>4. ASSUME NEW x \in S, NEW y \in S PROVE <<x>> \o <<y>> = <<x, y>>
  <2> DEFINE s == <<x>>
             t == <<y>>
             u == <<x, y>>
  <2>1. /\ s \in Seq(S) /\ t \in Seq(S) /\ u \in Seq(S)
        /\ Len(s) = 1 /\ Len(t) = 1 /\ Len(u) = 2 /\ s[1] = u[1] /\ t[1] = u[2]
    BY <1>1
  <2> HIDE DEF s, t, u, S
  <2>2. s \o t \in Seq(S) /\ Len(s \o t) = 2 /\ (s \o t)[1] = s[1] /\ (s \o t)[2] = t[1]
    BY <2>1, ConcatProperties
  <2>3. Len(s \o t) = Len(u) /\ \A i \in 1 .. Len(s \o t) : (s \o t)[i] = u[i]
    BY <2>1, <2>2
  <2>4. s \o t = u
    BY <2>1, <2>2, <2>3, SeqEqual
  <2> QED BY <2>4 DEF s, t, u
<1>5. <<a, b>> \o <<p>> = <<a, b, p>>
  <2> DEFINE s == <<a, b>>
             t == <<p>>
             u == <<a, b, p>>
  <2>1. /\ s \in Seq(S) /\ t \in Seq(S) /\ u \in Seq(S)
        /\ Len(s) = 2 /\ Len(t) = 1 /\ Len(u) = 3
        /\ s[1] = u[1] /\ s[2] = u[2] /\ t[1] = u[3]
    BY <1>1, <1>2
  <2> HIDE DEF s, t, u, S
  <2>2. /\ s \o t \in Seq(S) /\ Len(s \o t) = 3
        /\ (s \o t)[1] = s[1] /\ (s \o t)[2] = s[2] /\ (s \o t)[3] = t[1]
    BY <2>1, ConcatProperties
  <2>3. Len(s \o t) = Len(u) /\ \A i \in 1 .. Len(s \o t) : (s \o t)[i] = u[i]
    BY <2>1, <2>2
  <2>4. s \o t = u
    BY <2>1, <2>2, <2>3, SeqEqual
  <2> QED BY <2>4 DEF s, t, u
<1>6. <<>> \o <<>> = <<>>
  BY EmptySeq, ConcatEmptySeq
<1>7. a \in S /\ b \in S /\ p \in S
  OBVIOUS
<1> HIDE DEF S
<1> QED BY <1>3, <1>4, <1>5, <1>6, <1>7

(* The puts of a merge, written out. *)
LEMMA MergesAre ==
  ASSUME NEW st
  PROVE  /\ \A i, v :
              LET p == IndexerPut(i, v) IN
              MergeIndexer(st, i, v)
                = IF st.ix[i] = Absent THEN <<IndexerPut(i, NoIndexerProps), p>> ELSE <<p>>
         /\ \A s, v :
              LET p == SearcherPut(s, v) IN
              MergeSearcher(st, s, v)
                = IF st.sr[s] = Absent THEN <<SearcherPut(s, NoSearcherProps), p>> ELSE <<p>>
         /\ \A i, f, v :
              LET a == IndexSchemaPut(i, f, Empty)
                  b == IndexerPut(i, NoIndexerProps)
                  p == IndexSchemaPut(i, f, v)
              IN MergeIndexSchema(st, i, f, v)
                   = IF st.is[<<i, f>>] = Absent
                     THEN IF st.ix[i] = Absent THEN <<a, b, p>> ELSE <<a, p>>
                     ELSE IF st.ix[i] = Absent THEN <<b, p>> ELSE <<p>>
         /\ \A s, f, v :
              LET a == SearchSchemaPut(s, f, Empty)
                  b == SearcherPut(s, NoSearcherProps)
                  p == SearchSchemaPut(s, f, v)
              IN MergeSearchSchema(st, s, f, v)
                   = IF st.ss[<<s, f>>] = Absent
                     THEN IF st.sr[s] = Absent THEN <<a, b, p>> ELSE <<a, p>>
                     ELSE IF st.sr[s] = Absent THEN <<b, p>> ELSE <<p>>
<1>2. ASSUME NEW i, NEW v PROVE
        LET p == IndexerPut(i, v) IN
        MergeIndexer(st, i, v)
          = IF st.ix[i] = Absent THEN <<IndexerPut(i, NoIndexerProps), p>> ELSE <<p>>
  BY Joined DEF MergeIndexer
<1>3. ASSUME NEW s, NEW v PROVE
        LET p == SearcherPut(s, v) IN
        MergeSearcher(st, s, v)
          = IF st.sr[s] = Absent THEN <<SearcherPut(s, NoSearcherProps), p>> ELSE <<p>>
  BY Joined DEF MergeSearcher
<1>4. ASSUME NEW i, NEW f, NEW v PROVE
        LET a == IndexSchemaPut(i, f, Empty)
            b == IndexerPut(i, NoIndexerProps)
            p == IndexSchemaPut(i, f, v)
        IN MergeIndexSchema(st, i, f, v)
             = IF st.is[<<i, f>>] = Absent
               THEN IF st.ix[i] = Absent THEN <<a, b, p>> ELSE <<a, p>>
               ELSE IF st.ix[i] = Absent THEN <<b, p>> ELSE <<p>>
  <2> DEFINE a == IndexSchemaPut(i, f, Empty)
             b == IndexerPut(i, NoIndexerProps)
             p == IndexSchemaPut(i, f, v)
             A == IF st.is[<<i, f>>] = Absent THEN <<a>> ELSE <<>>
             B == IF st.ix[i] = Absent THEN <<b>> ELSE <<>>
  <2>1. MergeIndexSchema(st, i, f, v) = (A \o B) \o <<p>>
    BY DEF MergeIndexSchema
  <2>2. A \in {<<a>>, <<>>} /\ B \in {<<b>>, <<>>}
    OBVIOUS
  <2>3. /\ A = <<a>> <=> st.is[<<i, f>>] = Absent
        /\ B = <<b>> <=> st.ix[i] = Absent
    OBVIOUS
  <2> HIDE DEF a, b, p, A, B
  <2>4. (A \o B) \o <<p>> = IF A = <<a>> THEN IF B = <<b>> THEN <<a, b, p>> ELSE <<a, p>>
                           ELSE IF B = <<b>> THEN <<b, p>> ELSE <<p>>
    <3>1. <<a>> # <<>> /\ <<b>> # <<>>
      OBVIOUS
    <3>2. CASE A = <<a>> /\ B = <<b>>
      BY <3>2, Joined
    <3>3. CASE A = <<a>> /\ B = <<>>
      BY <3>1, <3>3, Joined
    <3>4. CASE A = <<>> /\ B = <<b>>
      BY <3>1, <3>4, Joined
    <3>5. CASE A = <<>> /\ B = <<>>
      BY <3>1, <3>5, Joined
    <3> QED BY <2>2, <3>2, <3>3, <3>4, <3>5
  <2> QED BY <2>1, <2>3, <2>4 DEF a, b, p
<1>5. ASSUME NEW s, NEW f, NEW v PROVE
        LET a == SearchSchemaPut(s, f, Empty)
            b == SearcherPut(s, NoSearcherProps)
            p == SearchSchemaPut(s, f, v)
        IN MergeSearchSchema(st, s, f, v)
             = IF st.ss[<<s, f>>] = Absent
               THEN IF st.sr[s] = Absent THEN <<a, b, p>> ELSE <<a, p>>
               ELSE IF st.sr[s] = Absent THEN <<b, p>> ELSE <<p>>
  <2> DEFINE a == SearchSchemaPut(s, f, Empty)
             b == SearcherPut(s, NoSearcherProps)
             p == SearchSchemaPut(s, f, v)
             A == IF st.ss[<<s, f>>] = Absent THEN <<a>> ELSE <<>>
             B == IF st.sr[s] = Absent THEN <<b>> ELSE <<>>
  <2>1. MergeSearchSchema(st, s, f, v) = (A \o B) \o <<p>>
    BY DEF MergeSearchSchema
  <2>2. A \in {<<a>>, <<>>} /\ B \in {<<b>>, <<>>}
    OBVIOUS
  <2>3. /\ A = <<a>> <=> st.ss[<<s, f>>] = Absent
        /\ B = <<b>> <=> st.sr[s] = Absent
    OBVIOUS
  <2> HIDE DEF a, b, p, A, B
  <2>4. (A \o B) \o <<p>> = IF A = <<a>> THEN IF B = <<b>> THEN <<a, b, p>> ELSE <<a, p>>
                           ELSE IF B = <<b>> THEN <<b, p>> ELSE <<p>>
    <3>1. <<a>> # <<>> /\ <<b>> # <<>>
      OBVIOUS
    <3>2. CASE A = <<a>> /\ B = <<b>>
      BY <3>2, Joined
    <3>3. CASE A = <<a>> /\ B = <<>>
      BY <3>1, <3>3, Joined
    <3>4. CASE A = <<>> /\ B = <<b>>
      BY <3>1, <3>4, Joined
    <3>5. CASE A = <<>> /\ B = <<>>
      BY <3>1, <3>5, Joined
    <3> QED BY <2>2, <3>2, <3>3, <3>4, <3>5
  <2> QED BY <2>1, <2>3, <2>4 DEF a, b, p
<1> QED BY <1>2, <1>3, <1>4, <1>5

------------------------------------------------------------------------------
(* Where a transaction leads.  A cell of the store is named by the remove     *)
(* that would empty it.                                                       *)
Cell(st, c) ==
  IF c.at = "ix" THEN st.ix[c.key] ELSE IF c.at = "is" THEN st.is[c.key]
  ELSE IF c.at = "sr" THEN st.sr[c.key] ELSE st.ss[c.key]

CellOf(p) == [at |-> p.at, key |-> p.key]

(* What is left to do makes st into t: each cell is as in t or is still to be *)
(* written, the last time with what it has in t.                              *)
Aims(puts, dels, st, t) ==
  /\ \A c \in Removes :
       \/ Cell(st, c) = Cell(t, c)
       \/ c \in dels
       \/ \E n \in 1 .. Len(puts) : CellOf(puts[n]) = c
  /\ \A n \in 1 .. Len(puts) :
       \/ Cell(t, CellOf(puts[n])) = puts[n].val
       \/ \E m \in n + 1 .. Len(puts) : CellOf(puts[m]) = CellOf(puts[n])
  /\ \A c \in dels : Cell(t, c) = Absent

(* The steps of AdminCatalogue, as a relation between two stores.             *)
Changes(d, t) ==
  \/ \E i \in Iids, v \in IndexerNode : t = [d EXCEPT !.ix[i] = v]
  \/ \E i \in Iids :
       t = [d EXCEPT !.ix[i] = Absent,
                     !.is = [p \in Iids \X Fields |-> IF p[1] = i THEN Absent ELSE d.is[p]]]
  \/ \E i \in Iids, f \in Fields, v \in IndexSchemaNode :
       /\ v # Empty
       /\ t = [d EXCEPT !.is[<<i, f>>] = v, !.ix[i] = IF @ = Absent THEN NoIndexerProps ELSE @]
  \/ \E i \in Iids, f \in Fields : t = [d EXCEPT !.is[<<i, f>>] = Absent]
  \/ \E s \in Sids, v \in SearcherNode : t = [d EXCEPT !.sr[s] = v]
  \/ \E s \in Sids :
       t = [d EXCEPT !.sr[s] = Absent,
                     !.ss = [p \in Sids \X Fields |-> IF p[1] = s THEN Absent ELSE d.ss[p]]]
  \/ \E s \in Sids, f \in Fields, v \in SearchSchemaNode :
       /\ v # Empty
       /\ t = [d EXCEPT !.ss[<<s, f>>] = v, !.sr[s] = IF @ = Absent THEN NoSearcherProps ELSE @]
  \/ \E s \in Sids, f \in Fields : t = [d EXCEPT !.ss[<<s, f>>] = Absent]

AimInv == tran # Idle => \E t \in Store : Changes(db, t) /\ Aims(tran.puts, tran.dels, wk, t)

LEMMA CellParts ==
  /\ \A c \in Removes : /\ c.at \in {"ix", "is", "sr", "ss"}
                        /\ c.at = "ix" => c.key \in Iids
                        /\ c.at = "is" => c.key \in Iids \X Fields
                        /\ c.at = "sr" => c.key \in Sids
                        /\ c.at = "ss" => c.key \in Sids \X Fields
  /\ \A c, d \in Removes : c.at = d.at /\ c.key = d.key => c = d
  /\ \A i \in Iids : [at |-> "ix", key |-> i] \in Removes
  /\ \A k \in Iids \X Fields : [at |-> "is", key |-> k] \in Removes
  /\ \A s \in Sids : [at |-> "sr", key |-> s] \in Removes
  /\ \A k \in Sids \X Fields : [at |-> "ss", key |-> k] \in Removes
  /\ \A p \in Puts : CellOf(p) \in Removes /\ CellOf(p).at = p.at /\ CellOf(p).key = p.key
<1>1. \A c \in Removes : /\ c.at \in {"ix", "is", "sr", "ss"}
                         /\ c.at = "ix" => c.key \in Iids
                         /\ c.at = "is" => c.key \in Iids \X Fields
                         /\ c.at = "sr" => c.key \in Sids
                         /\ c.at = "ss" => c.key \in Sids \X Fields
  BY DEF Removes
<1>2. \A c \in Removes : c = [at |-> c.at, key |-> c.key]
  BY DEF Removes
<1>3. \A c, d \in Removes : c.at = d.at /\ c.key = d.key => c = d
  BY <1>2
<1>4. /\ \A i \in Iids : [at |-> "ix", key |-> i] \in Removes
      /\ \A k \in Iids \X Fields : [at |-> "is", key |-> k] \in Removes
      /\ \A s \in Sids : [at |-> "sr", key |-> s] \in Removes
      /\ \A k \in Sids \X Fields : [at |-> "ss", key |-> k] \in Removes
  BY DEF Removes
<1>5. ASSUME NEW p \in Puts
      PROVE  CellOf(p) \in Removes /\ CellOf(p).at = p.at /\ CellOf(p).key = p.key
  BY PutParts, <1>4 DEF CellOf
<1> QED BY <1>1, <1>3, <1>4, <1>5

LEMMA PutCell ==
  ASSUME NEW st \in Store, NEW p \in Puts, NEW c \in Removes
  PROVE  Cell(Put(st, p), c) = IF CellOf(p) = c THEN p.val ELSE Cell(st, c)
<1>1. CellOf(p) = c <=> p.at = c.at /\ p.key = c.key
  BY CellParts
<1> QED BY <1>1, CellParts, PutIs DEF Cell

LEMMA TakeCell ==
  ASSUME NEW st \in Store, NEW d \in Removes, NEW c \in Removes
  PROVE  Cell(Take(st, d), c) = IF d = c THEN Absent ELSE Cell(st, c)
<1>1. d = c <=> d.at = c.at /\ d.key = c.key
  BY CellParts
<1> QED BY <1>1, CellParts, TakeIs DEF Cell

(* Stores with the same cells are the same. *)
LEMMA SameCells ==
  ASSUME NEW st \in Store, NEW t \in Store, \A c \in Removes : Cell(st, c) = Cell(t, c)
  PROVE  st = t
<1>1. \A i \in Iids : st.ix[i] = t.ix[i]
  <2> SUFFICES ASSUME NEW i \in Iids PROVE st.ix[i] = t.ix[i]
    OBVIOUS
  <2> DEFINE c == [at |-> "ix", key |-> i]
  <2>1. c \in Removes /\ Cell(st, c) = st.ix[i] /\ Cell(t, c) = t.ix[i]
    BY CellParts DEF Cell
  <2> QED BY <2>1
<1>2. \A k \in Iids \X Fields : st.is[k] = t.is[k]
  <2> SUFFICES ASSUME NEW k \in Iids \X Fields PROVE st.is[k] = t.is[k]
    OBVIOUS
  <2> DEFINE c == [at |-> "is", key |-> k]
  <2>1. c \in Removes /\ Cell(st, c) = st.is[k] /\ Cell(t, c) = t.is[k]
    BY CellParts DEF Cell
  <2> QED BY <2>1
<1>3. \A s \in Sids : st.sr[s] = t.sr[s]
  <2> SUFFICES ASSUME NEW s \in Sids PROVE st.sr[s] = t.sr[s]
    OBVIOUS
  <2> DEFINE c == [at |-> "sr", key |-> s]
  <2>1. c \in Removes /\ Cell(st, c) = st.sr[s] /\ Cell(t, c) = t.sr[s]
    BY CellParts DEF Cell
  <2> QED BY <2>1
<1>4. \A k \in Sids \X Fields : st.ss[k] = t.ss[k]
  <2> SUFFICES ASSUME NEW k \in Sids \X Fields PROVE st.ss[k] = t.ss[k]
    OBVIOUS
  <2> DEFINE c == [at |-> "ss", key |-> k]
  <2>1. c \in Removes /\ Cell(st, c) = st.ss[k] /\ Cell(t, c) = t.ss[k]
    BY CellParts DEF Cell
  <2> QED BY <2>1
<1>5. st.ix = t.ix /\ st.is = t.is /\ st.sr = t.sr /\ st.ss = t.ss
  BY <1>1, <1>2, <1>3, <1>4 DEF Store
<1> QED BY <1>5 DEF Store

(* The merges of one to three puts lead to t.                                 *)
LEMMA AimsShort ==
  ASSUME NEW st \in Store, NEW t \in Store, NEW p \in Puts, NEW a \in Puts, NEW b \in Puts,
         CellOf(a) = CellOf(p), CellOf(b) # CellOf(p),
         Cell(t, CellOf(p)) = p.val,
         \A c \in Removes : c \notin {CellOf(p), CellOf(b)} => Cell(st, c) = Cell(t, c)
  PROVE  /\ Cell(st, CellOf(b)) = Cell(t, CellOf(b)) =>
              Aims(<<p>>, {}, st, t) /\ Aims(<<a, p>>, {}, st, t)
         /\ Cell(t, CellOf(b)) = b.val =>
              Aims(<<b, p>>, {}, st, t) /\ Aims(<<a, b, p>>, {}, st, t)
<1>1. ASSUME Cell(st, CellOf(b)) = Cell(t, CellOf(b)) PROVE Aims(<<p>>, {}, st, t)
  <2> DEFINE q == <<p>>
  <2>1. Len(q) = 1 /\ q[1] = p
    OBVIOUS
  <2> HIDE DEF q
  <2>2. Aims(q, {}, st, t)
    BY <1>1, <2>1 DEF Aims
  <2> QED BY <2>2 DEF q
<1>2. ASSUME Cell(st, CellOf(b)) = Cell(t, CellOf(b)) PROVE Aims(<<a, p>>, {}, st, t)
  <2> DEFINE q == <<a, p>>
  <2>1. Len(q) = 2 /\ q[1] = a /\ q[2] = p
    OBVIOUS
  <2> HIDE DEF q
  <2>2. Aims(q, {}, st, t)
    BY <1>2, <2>1 DEF Aims
  <2> QED BY <2>2 DEF q
<1>3. ASSUME Cell(t, CellOf(b)) = b.val PROVE Aims(<<b, p>>, {}, st, t)
  <2> DEFINE q == <<b, p>>
  <2>1. Len(q) = 2 /\ q[1] = b /\ q[2] = p
    OBVIOUS
  <2> HIDE DEF q
  <2>2. Aims(q, {}, st, t)
    BY <1>3, <2>1 DEF Aims
  <2> QED BY <2>2 DEF q
<1>4. ASSUME Cell(t, CellOf(b)) = b.val PROVE Aims(<<a, b, p>>, {}, st, t)
  <2> DEFINE q == <<a, b, p>>
  <2>1. Len(q) = 3 /\ q[1] = a /\ q[2] = b /\ q[3] = p
    OBVIOUS
  <2> HIDE DEF q
  <2>2. Aims(q, {}, st, t)
    BY <1>4, <2>1 DEF Aims
  <2> QED BY <2>2 DEF q
<1> QED BY <1>1, <1>2, <1>3, <1>4

(* A transaction of puts, and one of removes, that a request may begin.       *)
MergeAsked(puts, st) ==
  /\ puts \in Seq(Puts) /\ puts # <<>> /\ Merges(puts, st)
  /\ \E t \in Store : Changes(st, t) /\ Aims(puts, {}, st, t)

RemoveAsked(dels, st) ==
  /\ dels \in SUBSET Removes /\ TakesTrees(dels, st)
  /\ \E t \in Store : Changes(st, t) /\ Aims(<<>>, dels, st, t)

LEMMA IndexerAsked ==
  ASSUME NEW st \in Store, NEW i \in Iids, NEW v \in IndexerNode
  PROVE  MergeAsked(MergeIndexer(st, i, v), st)
<1> DEFINE p == IndexerPut(i, v)
           a == IndexerPut(i, NoIndexerProps)
           t == [st EXCEPT !.ix[i] = v]
           puts == MergeIndexer(st, i, v)
<1>0. NoIndexerProps \in IndexerNode
  BY DEF NoIndexerProps, IndexerNode, MaybeNames
<1>1. /\ p \in Puts /\ a \in Puts /\ p.at = "ix" /\ p.key = i /\ p.val = v
      /\ a.at = "ix" /\ a.key = i /\ a.val = NoIndexerProps
  BY <1>0 DEF IndexerPut, Puts, IndexerPuts
<1>2. puts = IF st.ix[i] = Absent THEN <<a, p>> ELSE <<p>>
  BY MergesAre
<1>3. puts \in Seq(Puts) /\ puts # <<>>
  BY MergedPuts
<1>4. t \in Store /\ t.is = st.is /\ t.sr = st.sr /\ t.ss = st.ss
      /\ \A j \in Iids : t.ix[j] = IF j = i THEN v ELSE st.ix[j]
  BY DEF Store
<1>5. Changes(st, t)
  BY DEF Changes
<1> HIDE DEF p, a, t, puts
<1>6. /\ OfIndexer(a) /\ OfIndexer(p) /\ Owner(a) = Owner(p) /\ IsFresh(a)
      /\ Parent(st, p) = st.ix[i]
  BY <1>1 DEF OfIndexer, Owner, Parent, IsFresh
<1>7. Merges(puts, st)
  BY <1>1, <1>2, <1>6, MergesShort
<1>8. Aims(puts, {}, st, t)
  <2> DEFINE ca == CellOf(p)
  <2>1. ca \in Removes /\ CellOf(a) = ca /\ ca.at = "ix" /\ ca.key = i
    BY <1>1, CellParts
  <2>2. Cell(t, ca) = v
    BY <1>4, <2>1 DEF Cell
  <2>3. \A c \in Removes : c # ca => Cell(st, c) = Cell(t, c)
    BY <1>4, <2>1, CellParts DEF Cell
  <2>4. CASE puts = <<p>>
    <3>1. Len(puts) = 1 /\ puts[1] = p
      BY <2>4
    <3> QED BY <1>1, <2>2, <2>3, <3>1 DEF Aims
  <2>5. CASE puts = <<a, p>>
    <3>1. Len(puts) = 2 /\ puts[1] = a /\ puts[2] = p
      BY <2>5
    <3> QED BY <1>1, <2>1, <2>2, <2>3, <3>1 DEF Aims
  <2> QED BY <1>2, <2>4, <2>5
<1> QED BY <1>3, <1>4, <1>5, <1>7, <1>8 DEF MergeAsked, puts

LEMMA SearcherAsked ==
  ASSUME NEW st \in Store, NEW s \in Sids, NEW v \in SearcherNode
  PROVE  MergeAsked(MergeSearcher(st, s, v), st)
<1> DEFINE p == SearcherPut(s, v)
           a == SearcherPut(s, NoSearcherProps)
           t == [st EXCEPT !.sr[s] = v]
           puts == MergeSearcher(st, s, v)
<1>0. NoSearcherProps \in SearcherNode
  BY DEF NoSearcherProps, SearcherNode, MaybeNames
<1>1. /\ p \in Puts /\ a \in Puts /\ p.at = "sr" /\ p.key = s /\ p.val = v
      /\ a.at = "sr" /\ a.key = s /\ a.val = NoSearcherProps
  BY <1>0 DEF SearcherPut, Puts, SearcherPuts
<1>2. puts = IF st.sr[s] = Absent THEN <<a, p>> ELSE <<p>>
  BY MergesAre
<1>3. puts \in Seq(Puts) /\ puts # <<>>
  BY MergedPuts
<1>4. t \in Store /\ t.ix = st.ix /\ t.is = st.is /\ t.ss = st.ss
      /\ \A j \in Sids : t.sr[j] = IF j = s THEN v ELSE st.sr[j]
  BY DEF Store
<1>5. Changes(st, t)
  BY DEF Changes
<1> HIDE DEF p, a, t, puts
<1>6. /\ ~ OfIndexer(a) /\ ~ OfIndexer(p) /\ Owner(a) = Owner(p) /\ IsFresh(a)
      /\ Parent(st, p) = st.sr[s]
  BY <1>1 DEF OfIndexer, Owner, Parent, IsFresh
<1>7. Merges(puts, st)
  BY <1>1, <1>2, <1>6, MergesShort
<1>8. Aims(puts, {}, st, t)
  <2> DEFINE ca == CellOf(p)
  <2>1. ca \in Removes /\ CellOf(a) = ca /\ ca.at = "sr" /\ ca.key = s
    BY <1>1, CellParts
  <2>2. Cell(t, ca) = v
    BY <1>4, <2>1 DEF Cell
  <2>3. \A c \in Removes : c # ca => Cell(st, c) = Cell(t, c)
    BY <1>4, <2>1, CellParts DEF Cell
  <2>4. CASE puts = <<p>>
    <3>1. Len(puts) = 1 /\ puts[1] = p
      BY <2>4
    <3> QED BY <1>1, <2>2, <2>3, <3>1 DEF Aims
  <2>5. CASE puts = <<a, p>>
    <3>1. Len(puts) = 2 /\ puts[1] = a /\ puts[2] = p
      BY <2>5
    <3> QED BY <1>1, <2>1, <2>2, <2>3, <3>1 DEF Aims
  <2> QED BY <1>2, <2>4, <2>5
<1> QED BY <1>3, <1>4, <1>5, <1>7, <1>8 DEF MergeAsked, puts

LEMMA IndexSchemaAsked ==
  ASSUME NEW st \in Store, NEW i \in Iids, NEW f \in Fields, NEW v \in IndexSchemaNode, v # Empty
  PROVE  MergeAsked(MergeIndexSchema(st, i, f, v), st)
<1> DEFINE k == <<i, f>>
           p == IndexSchemaPut(i, f, v)
           a == IndexSchemaPut(i, f, Empty)
           b == IndexerPut(i, NoIndexerProps)
           t == [st EXCEPT !.is[k] = v, !.ix[i] = IF @ = Absent THEN NoIndexerProps ELSE @]
           puts == MergeIndexSchema(st, i, f, v)
<1>0. NoIndexerProps \in IndexerNode /\ Empty \in IndexSchemaNode /\ k \in Iids \X Fields
  BY DEF NoIndexerProps, IndexerNode, MaybeNames, IndexSchemaNode
<1>1. /\ p \in Puts /\ a \in Puts /\ b \in Puts
      /\ p.at = "is" /\ p.key = k /\ p.val = v
      /\ a.at = "is" /\ a.key = k /\ a.val = Empty
      /\ b.at = "ix" /\ b.key = i /\ b.val = NoIndexerProps
  BY <1>0 DEF IndexSchemaPut, IndexerPut, Puts, IndexSchemaPuts, IndexerPuts
<1>2. puts = IF st.is[k] = Absent
             THEN IF st.ix[i] = Absent THEN <<a, b, p>> ELSE <<a, p>>
             ELSE IF st.ix[i] = Absent THEN <<b, p>> ELSE <<p>>
  BY MergesAre
<1>3. puts \in Seq(Puts) /\ puts # <<>>
  BY MergedPuts
<1>4. /\ t \in Store /\ t.sr = st.sr /\ t.ss = st.ss
      /\ \A j \in Iids : t.ix[j] = IF j = i /\ st.ix[i] = Absent THEN NoIndexerProps ELSE st.ix[j]
      /\ \A l \in Iids \X Fields : t.is[l] = IF l = k THEN v ELSE st.is[l]
  BY <1>0 DEF Store
<1>5. Changes(st, t)
  BY DEF Changes
<1>6. k[1] = i
  OBVIOUS
<1> HIDE DEF p, a, b, t, puts, k
<1>7. /\ OfIndexer(a) /\ OfIndexer(p) /\ OfIndexer(b)
      /\ Owner(a) = i /\ Owner(p) = i /\ Owner(b) = i
      /\ IsFresh(a) /\ IsFresh(b) /\ Parent(st, p) = st.ix[i]
  BY <1>1, <1>6 DEF OfIndexer, Owner, Parent, IsFresh
<1>8. Merges(puts, st)
  <2>1. Parent(st, p) # Absent => Merges(<<p>>, st) /\ Merges(<<a, p>>, st)
    BY <1>7, MergesShort
  <2>2. Merges(<<b, p>>, st) /\ Merges(<<a, b, p>>, st)
    BY <1>1, <1>7, MergesShort
  <2> QED BY <1>2, <1>7, <2>1, <2>2
<1>9. Aims(puts, {}, st, t)
  <2> DEFINE cp == CellOf(p)
             cb == CellOf(b)
  <2>1. /\ cp \in Removes /\ CellOf(a) = cp /\ cp.at = "is" /\ cp.key = k
        /\ cb \in Removes /\ cb.at = "ix" /\ cb.key = i
    BY <1>1, CellParts
  <2>2. Cell(t, cp) = v
    BY <1>0, <1>4, <2>1 DEF Cell
  <2>3. \A c \in Removes : c \notin {cp, cb} => Cell(st, c) = Cell(t, c)
    <3> SUFFICES ASSUME NEW c \in Removes, c # cp, c # cb PROVE Cell(st, c) = Cell(t, c)
      OBVIOUS
    <3>1. (c.at = "is" => c.key # k) /\ (c.at = "ix" => c.key # i)
      BY <2>1, CellParts
    <3> QED BY <1>4, <3>1, CellParts DEF Cell
  <2>4. IF st.ix[i] = Absent THEN Cell(t, cb) = b.val ELSE Cell(st, cb) = Cell(t, cb)
    BY <1>1, <1>4, <2>1 DEF Cell
  <2>5. cb # cp
    BY <2>1
  <2> HIDE DEF cp, cb
  <2>6. /\ st.ix[i] # Absent => Aims(<<p>>, {}, st, t) /\ Aims(<<a, p>>, {}, st, t)
        /\ st.ix[i] = Absent => Aims(<<b, p>>, {}, st, t) /\ Aims(<<a, b, p>>, {}, st, t)
    BY <1>1, <1>4, <2>1, <2>2, <2>3, <2>4, <2>5, AimsShort DEF cp, cb
  <2> QED BY <1>2, <2>6
<1> QED BY <1>3, <1>4, <1>5, <1>8, <1>9 DEF MergeAsked, puts

LEMMA SearchSchemaAsked ==
  ASSUME NEW st \in Store, NEW s \in Sids, NEW f \in Fields, NEW v \in SearchSchemaNode, v # Empty
  PROVE  MergeAsked(MergeSearchSchema(st, s, f, v), st)
<1> DEFINE k == <<s, f>>
           p == SearchSchemaPut(s, f, v)
           a == SearchSchemaPut(s, f, Empty)
           b == SearcherPut(s, NoSearcherProps)
           t == [st EXCEPT !.ss[k] = v, !.sr[s] = IF @ = Absent THEN NoSearcherProps ELSE @]
           puts == MergeSearchSchema(st, s, f, v)
<1>0. NoSearcherProps \in SearcherNode /\ Empty \in SearchSchemaNode /\ k \in Sids \X Fields
  BY DEF NoSearcherProps, SearcherNode, MaybeNames, SearchSchemaNode
<1>1. /\ p \in Puts /\ a \in Puts /\ b \in Puts
      /\ p.at = "ss" /\ p.key = k /\ p.val = v
      /\ a.at = "ss" /\ a.key = k /\ a.val = Empty
      /\ b.at = "sr" /\ b.key = s /\ b.val = NoSearcherProps
  BY <1>0 DEF SearchSchemaPut, SearcherPut, Puts, SearchSchemaPuts, SearcherPuts
<1>2. puts = IF st.ss[k] = Absent
             THEN IF st.sr[s] = Absent THEN <<a, b, p>> ELSE <<a, p>>
             ELSE IF st.sr[s] = Absent THEN <<b, p>> ELSE <<p>>
  BY MergesAre
<1>3. puts \in Seq(Puts) /\ puts # <<>>
  BY MergedPuts
<1>4. /\ t \in Store /\ t.ix = st.ix /\ t.is = st.is
      /\ \A j \in Sids : t.sr[j] = IF j = s /\ st.sr[s] = Absent THEN NoSearcherProps ELSE st.sr[j]
      /\ \A l \in Sids \X Fields : t.ss[l] = IF l = k THEN v ELSE st.ss[l]
  BY <1>0 DEF Store
<1>5. Changes(st, t)
  BY DEF Changes
<1>6. k[1] = s
  OBVIOUS
<1> HIDE DEF p, a, b, t, puts, k
<1>7. /\ ~ OfIndexer(a) /\ ~ OfIndexer(p) /\ ~ OfIndexer(b)
      /\ Owner(a) = s /\ Owner(p) = s /\ Owner(b) = s
      /\ IsFresh(a) /\ IsFresh(b) /\ Parent(st, p) = st.sr[s]
  BY <1>1, <1>6 DEF OfIndexer, Owner, Parent, IsFresh
<1>8. Merges(puts, st)
  <2>1. Parent(st, p) # Absent => Merges(<<p>>, st) /\ Merges(<<a, p>>, st)
    BY <1>7, MergesShort
  <2>2. Merges(<<b, p>>, st) /\ Merges(<<a, b, p>>, st)
    BY <1>1, <1>7, MergesShort
  <2> QED BY <1>2, <1>7, <2>1, <2>2
<1>9. Aims(puts, {}, st, t)
  <2> DEFINE cp == CellOf(p)
             cb == CellOf(b)
  <2>1. /\ cp \in Removes /\ CellOf(a) = cp /\ cp.at = "ss" /\ cp.key = k
        /\ cb \in Removes /\ cb.at = "sr" /\ cb.key = s
    BY <1>1, CellParts
  <2>2. Cell(t, cp) = v
    BY <1>0, <1>4, <2>1 DEF Cell
  <2>3. \A c \in Removes : c \notin {cp, cb} => Cell(st, c) = Cell(t, c)
    <3> SUFFICES ASSUME NEW c \in Removes, c # cp, c # cb PROVE Cell(st, c) = Cell(t, c)
      OBVIOUS
    <3>1. (c.at = "ss" => c.key # k) /\ (c.at = "sr" => c.key # s)
      BY <2>1, CellParts
    <3> QED BY <1>4, <3>1, CellParts DEF Cell
  <2>4. IF st.sr[s] = Absent THEN Cell(t, cb) = b.val ELSE Cell(st, cb) = Cell(t, cb)
    BY <1>1, <1>4, <2>1 DEF Cell
  <2>5. cb # cp
    BY <2>1
  <2> HIDE DEF cp, cb
  <2>6. /\ st.sr[s] # Absent => Aims(<<p>>, {}, st, t) /\ Aims(<<a, p>>, {}, st, t)
        /\ st.sr[s] = Absent => Aims(<<b, p>>, {}, st, t) /\ Aims(<<a, b, p>>, {}, st, t)
    BY <1>1, <1>4, <2>1, <2>2, <2>3, <2>4, <2>5, AimsShort DEF cp, cb
  <2> QED BY <1>2, <2>6
<1> QED BY <1>3, <1>4, <1>5, <1>8, <1>9 DEF MergeAsked, puts

(* What removeSelf takes. *)
LEMMA IndexTreeIs ==
  ASSUME NEW st \in Store, NEW i \in Iids
  PROVE  /\ RemoveIndexerTree(st, i) \subseteq Removes
         /\ \A d \in Removes :
              d \in RemoveIndexerTree(st, i) <=> OfIndexer(d) /\ Owner(d) = i /\ Cell(st, d) # Absent
<1> DEFINE A == {[at |-> "ix", key |-> j] : j \in {i} \cap {l \in Iids : st.ix[l] # Absent}}
           B == {[at |-> "is", key |-> k] : k \in {q \in {i} \X Fields : st.is[q] # Absent}}
<1>1. RemoveIndexerTree(st, i) = A \cup B
  BY DEF RemoveIndexerTree
<1>2. A \subseteq Removes /\ B \subseteq Removes
  BY DEF Removes
<1>3. ASSUME NEW d \in Removes PROVE d \in A <=> d.at = "ix" /\ d.key = i /\ Cell(st, d) # Absent
  <2>1. CASE d.at = "ix" /\ d.key = i
    <3>1. d = [at |-> "ix", key |-> i]
      BY <2>1, CellParts
    <3> QED BY <2>1, <3>1 DEF Cell
  <2>2. CASE ~ (d.at = "ix" /\ d.key = i)
    BY <2>2
  <2> QED BY <2>1, <2>2
<1>4. ASSUME NEW d \in Removes
      PROVE  d \in B <=> d.at = "is" /\ d.key[1] = i /\ Cell(st, d) # Absent
  <2>1. CASE d.at = "is" /\ d.key[1] = i
    <3>1. d.key \in {i} \X Fields /\ [at |-> "is", key |-> d.key] \in Removes
      BY <2>1, CellParts
    <3>2. d = [at |-> "is", key |-> d.key]
      BY <2>1, <3>1, CellParts
    <3>3. Cell(st, d) = st.is[d.key]
      BY <2>1 DEF Cell
    <3>4. \A k : [at |-> "is", key |-> k].key = k
      OBVIOUS
    <3> QED BY <2>1, <3>1, <3>2, <3>3, <3>4
  <2>2. CASE ~ (d.at = "is" /\ d.key[1] = i)
    <3>1. \A k \in {i} \X Fields : k[1] = i
      OBVIOUS
    <3> QED BY <2>2, <3>1
  <2> QED BY <2>1, <2>2
<1> QED BY <1>1, <1>2, <1>3, <1>4, CellParts DEF OfIndexer, Owner

LEMMA IndexerRemoval ==
  ASSUME NEW st \in Store, NEW i \in Iids
  PROVE  RemoveAsked(RemoveIndexerTree(st, i), st)
<1> DEFINE dels == RemoveIndexerTree(st, i)
           t == [st EXCEPT !.ix[i] = Absent,
                           !.is = [p \in Iids \X Fields |-> IF p[1] = i THEN Absent ELSE st.is[p]]]
<1>1. /\ t \in Store /\ t.sr = st.sr /\ t.ss = st.ss
      /\ \A j \in Iids : t.ix[j] = IF j = i THEN Absent ELSE st.ix[j]
      /\ \A k \in Iids \X Fields : t.is[k] = IF k[1] = i THEN Absent ELSE st.is[k]
  BY DEF Store
<1>2. Changes(st, t)
  BY DEF Changes
<1> HIDE DEF dels, t
<1>3. /\ dels \subseteq Removes
      /\ \A d \in Removes :
           d \in dels <=> OfIndexer(d) /\ Owner(d) = i /\ Cell(st, d) # Absent
  BY IndexTreeIs DEF dels
<1>4. \A c \in Removes :
        Cell(t, c) = IF OfIndexer(c) /\ Owner(c) = i THEN Absent ELSE Cell(st, c)
  BY <1>1, CellParts DEF Cell, OfIndexer, Owner
<1>5. Aims(<<>>, dels, st, t)
  BY <1>3, <1>4 DEF Aims
<1>6. TakesTrees(dels, st)
  <2>1. ASSUME NEW j \in Iids, NEW f \in Fields, [at |-> "ix", key |-> j] \in dels,
               st.is[<<j, f>>] # Absent
        PROVE  IndexSchemaAt(j, f) \in dels
    <3>1. j = i
      BY <1>3, <2>1, CellParts DEF Owner
    <3>2. IndexSchemaAt(j, f) \in Removes /\ Cell(st, IndexSchemaAt(j, f)) = st.is[<<j, f>>]
          /\ OfIndexer(IndexSchemaAt(j, f)) /\ Owner(IndexSchemaAt(j, f)) = j
      BY CellParts DEF IndexSchemaAt, Cell, OfIndexer, Owner
    <3> QED BY <1>3, <2>1, <3>1, <3>2
  <2>2. \A d \in dels : d.at \notin {"sr", "ss"}
    BY <1>3, CellParts DEF OfIndexer
  <2> QED BY <2>1, <2>2 DEF TakesTrees
<1> QED BY <1>2, <1>1, <1>3, <1>5, <1>6 DEF RemoveAsked, dels

LEMMA IndexSchemaRemoval ==
  ASSUME NEW st \in Store, NEW i \in Iids, NEW f \in Fields
  PROVE  RemoveAsked({d \in RemoveIndexerTree(st, i) : d.at = "is" /\ d.key = <<i, f>>}, st)
<1> DEFINE dels == {d \in RemoveIndexerTree(st, i) : d.at = "is" /\ d.key = <<i, f>>}
           t == [st EXCEPT !.is[<<i, f>>] = Absent]
<1>1. /\ t \in Store /\ t.sr = st.sr /\ t.ss = st.ss /\ t.ix = st.ix
      /\ \A k \in Iids \X Fields : t.is[k] = IF k = <<i, f>> THEN Absent ELSE st.is[k]
  BY DEF Store
<1>2. Changes(st, t)
  BY DEF Changes
<1>3. /\ dels \subseteq Removes
      /\ \A d \in Removes : d \in dels <=> Cell(st, d) # Absent /\ d.at = "is" /\ d.key = <<i, f>>
  BY IndexTreeIs DEF OfIndexer, Owner
<1> HIDE DEF dels, t
<1>4. \A c \in Removes :
        Cell(t, c) = IF c.at = "is" /\ c.key = <<i, f>> THEN Absent ELSE Cell(st, c)
  BY <1>1, CellParts DEF Cell
<1>5. Aims(<<>>, dels, st, t)
  BY <1>3, <1>4 DEF Aims
<1>6. TakesTrees(dels, st)
  BY <1>3 DEF TakesTrees
<1> QED BY <1>1, <1>2, <1>3, <1>5, <1>6 DEF RemoveAsked, dels

LEMMA SearchTreeIs ==
  ASSUME NEW st \in Store, NEW s \in Sids
  PROVE  /\ RemoveSearcherTree(st, s) \subseteq Removes
         /\ \A d \in Removes :
              d \in RemoveSearcherTree(st, s) <=> ~ OfIndexer(d) /\ Owner(d) = s /\ Cell(st, d) # Absent
<1> DEFINE A == {[at |-> "sr", key |-> j] : j \in {s} \cap {l \in Sids : st.sr[l] # Absent}}
           B == {[at |-> "ss", key |-> k] : k \in {q \in {s} \X Fields : st.ss[q] # Absent}}
<1>1. RemoveSearcherTree(st, s) = A \cup B
  BY DEF RemoveSearcherTree
<1>2. A \subseteq Removes /\ B \subseteq Removes
  BY DEF Removes
<1>3. ASSUME NEW d \in Removes PROVE d \in A <=> d.at = "sr" /\ d.key = s /\ Cell(st, d) # Absent
  <2>1. CASE d.at = "sr" /\ d.key = s
    <3>1. d = [at |-> "sr", key |-> s]
      BY <2>1, CellParts
    <3> QED BY <2>1, <3>1 DEF Cell
  <2>2. CASE ~ (d.at = "sr" /\ d.key = s)
    BY <2>2
  <2> QED BY <2>1, <2>2
<1>4. ASSUME NEW d \in Removes
      PROVE  d \in B <=> d.at = "ss" /\ d.key[1] = s /\ Cell(st, d) # Absent
  <2>1. CASE d.at = "ss" /\ d.key[1] = s
    <3>1. d.key \in {s} \X Fields /\ [at |-> "ss", key |-> d.key] \in Removes
      BY <2>1, CellParts
    <3>2. d = [at |-> "ss", key |-> d.key]
      BY <2>1, <3>1, CellParts
    <3>3. Cell(st, d) = st.ss[d.key]
      BY <2>1 DEF Cell
    <3>4. \A k : [at |-> "ss", key |-> k].key = k
      OBVIOUS
    <3> QED BY <2>1, <3>1, <3>2, <3>3, <3>4
  <2>2. CASE ~ (d.at = "ss" /\ d.key[1] = s)
    <3>1. \A k \in {s} \X Fields : k[1] = s
      OBVIOUS
    <3> QED BY <2>2, <3>1
  <2> QED BY <2>1, <2>2
<1> QED BY <1>1, <1>2, <1>3, <1>4, CellParts DEF OfIndexer, Owner

LEMMA SearcherRemoval ==
  ASSUME NEW st \in Store, NEW s \in Sids
  PROVE  RemoveAsked(RemoveSearcherTree(st, s), st)
<1> DEFINE dels == RemoveSearcherTree(st, s)
           t == [st EXCEPT !.sr[s] = Absent,
                           !.ss = [p \in Sids \X Fields |-> IF p[1] = s THEN Absent ELSE st.ss[p]]]
<1>1. /\ t \in Store /\ t.ix = st.ix /\ t.is = st.is
      /\ \A j \in Sids : t.sr[j] = IF j = s THEN Absent ELSE st.sr[j]
      /\ \A k \in Sids \X Fields : t.ss[k] = IF k[1] = s THEN Absent ELSE st.ss[k]
  BY DEF Store
<1>2. Changes(st, t)
  BY DEF Changes
<1> HIDE DEF dels, t
<1>3. /\ dels \subseteq Removes
      /\ \A d \in Removes :
           d \in dels <=> ~ OfIndexer(d) /\ Owner(d) = s /\ Cell(st, d) # Absent
  BY SearchTreeIs DEF dels
<1>4. \A c \in Removes :
        Cell(t, c) = IF ~ OfIndexer(c) /\ Owner(c) = s THEN Absent ELSE Cell(st, c)
  BY <1>1, CellParts DEF Cell, OfIndexer, Owner
<1>5. Aims(<<>>, dels, st, t)
  BY <1>3, <1>4 DEF Aims
<1>6. TakesTrees(dels, st)
  <2>1. ASSUME NEW j \in Sids, NEW f \in Fields, [at |-> "sr", key |-> j] \in dels,
               st.ss[<<j, f>>] # Absent
        PROVE  SearchSchemaAt(j, f) \in dels
    <3>1. j = s
      BY <1>3, <2>1, CellParts DEF Owner
    <3>2. SearchSchemaAt(j, f) \in Removes /\ Cell(st, SearchSchemaAt(j, f)) = st.ss[<<j, f>>]
          /\ ~ OfIndexer(SearchSchemaAt(j, f)) /\ Owner(SearchSchemaAt(j, f)) = j
      BY CellParts DEF SearchSchemaAt, Cell, OfIndexer, Owner
    <3> QED BY <1>3, <2>1, <3>1, <3>2
  <2>2. \A d \in dels : d.at \notin {"ix", "is"}
    BY <1>3, CellParts DEF OfIndexer
  <2> QED BY <2>1, <2>2 DEF TakesTrees
<1> QED BY <1>2, <1>1, <1>3, <1>5, <1>6 DEF RemoveAsked, dels

LEMMA SearchSchemaRemoval ==
  ASSUME NEW st \in Store, NEW s \in Sids, NEW f \in Fields
  PROVE  RemoveAsked({d \in RemoveSearcherTree(st, s) : d.at = "ss" /\ d.key = <<s, f>>}, st)
<1> DEFINE dels == {d \in RemoveSearcherTree(st, s) : d.at = "ss" /\ d.key = <<s, f>>}
           t == [st EXCEPT !.ss[<<s, f>>] = Absent]
<1>1. /\ t \in Store /\ t.ix = st.ix /\ t.is = st.is /\ t.sr = st.sr
      /\ \A k \in Sids \X Fields : t.ss[k] = IF k = <<s, f>> THEN Absent ELSE st.ss[k]
  BY DEF Store
<1>2. Changes(st, t)
  BY DEF Changes
<1>3. /\ dels \subseteq Removes
      /\ \A d \in Removes : d \in dels <=> Cell(st, d) # Absent /\ d.at = "ss" /\ d.key = <<s, f>>
  BY SearchTreeIs DEF OfIndexer, Owner
<1> HIDE DEF dels, t
<1>4. \A c \in Removes :
        Cell(t, c) = IF c.at = "ss" /\ c.key = <<s, f>> THEN Absent ELSE Cell(st, c)
  BY <1>1, CellParts DEF Cell
<1>5. Aims(<<>>, dels, st, t)
  BY <1>3, <1>4 DEF Aims
<1>6. TakesTrees(dels, st)
  BY <1>3 DEF TakesTrees
<1> QED BY <1>1, <1>2, <1>3, <1>5, <1>6 DEF RemoveAsked, dels

(* A request begins a merge or a removal on the store as it reads it.         *)
LEMMA RequestAsked ==
  ASSUME TypeOK, Requests
  PROVE  \/ \E puts : MergeAsked(puts, wk) /\ Begin(puts, {})
         \/ \E dels : RemoveAsked(dels, wk) /\ Begin(<<>>, dels)
<1> DEFINE Goal == \/ \E puts : MergeAsked(puts, wk) /\ Begin(puts, {})
                   \/ \E dels : RemoveAsked(dels, wk) /\ Begin(<<>>, dels)
<1>0. /\ NoIndexerProps \in IndexerNode /\ NoSearcherProps \in SearcherNode
      /\ wk \in Store
      /\ \A i \in Iids : wk.ix[i] \in IndexerNode \cup {Absent}
      /\ \A s \in Sids : wk.sr[s] \in SearcherNode \cup {Absent}
  BY DEF NoIndexerProps, IndexerNode, NoSearcherProps, SearcherNode, MaybeNames, TypeOK, Store
<1>m. \A puts : MergeAsked(puts, wk) /\ Merge(puts) => Goal
  BY DEF Merge
<1>r. \A dels : RemoveAsked(dels, wk) /\ Remove(dels) => Goal
  BY DEF Remove
<1> HIDE DEF Goal
<1>1. ASSUME NEW i \in Iids, CreateIndexer(i) \/ UpdateField(i) PROVE Goal
  <2>1. PICK v \in IndexerNode : Merge(MergeIndexer(wk, i, v))
    BY <1>0, <1>1, FieldWritten DEF CreateIndexer, UpdateField
  <2> QED BY <1>0, <1>m, <2>1, IndexerAsked
<1>2. ASSUME NEW i \in Iids, NEW ia \in Names \cup {Blank}, NEW qa \in Names \cup {Blank},
             DefineIndexer(i, ia, qa)
      PROVE  Goal
  <2>1. [ia |-> ia, qa |-> qa] \in IndexerNode
    BY DEF IndexerNode, MaybeNames
  <2> QED BY <1>0, <1>2, <1>m, <2>1, IndexerAsked DEF DefineIndexer
<1>3. ASSUME NEW i \in Iids, NEW f \in Fields, NEW v \in IndexSchemaNode, AddIndexSchema(i, f, v)
      PROVE  Goal
  BY <1>0, <1>3, <1>m, IndexSchemaAsked DEF AddIndexSchema
<1>4. ASSUME NEW i \in Iids, RemoveIndexer(i) PROVE Goal
  BY <1>0, <1>4, <1>r, IndexerRemoval DEF RemoveIndexer
<1>5. ASSUME NEW i \in Iids, NEW f \in Fields, RemoveIndexSchema(i, f) PROVE Goal
  BY <1>0, <1>5, <1>r, IndexSchemaRemoval DEF RemoveIndexSchema
<1>6. ASSUME NEW s \in Sids, CreateSearcher(s) \/ EditTemplate(s) PROVE Goal
  <2>1. PICK v \in SearcherNode : Merge(MergeSearcher(wk, s, v))
    BY <1>0, <1>6 DEF CreateSearcher, EditTemplate
  <2> QED BY <1>0, <1>m, <2>1, SearcherAsked
<1>7. ASSUME NEW s \in Sids, NEW T \in SUBSET Iids, NEW qa \in Names \cup {Blank},
             DefineSearcher(s, T, qa)
      PROVE  Goal
  <2>1. [target |-> T, qa |-> qa] \in SearcherNode
    BY DEF SearcherNode, MaybeNames
  <2> QED BY <1>0, <1>7, <1>m, <2>1, SearcherAsked DEF DefineSearcher
<1>8. ASSUME NEW s \in Sids, NEW f \in Fields, NEW v \in SearchSchemaNode, AddSearchSchema(s, f, v)
      PROVE  Goal
  BY <1>0, <1>8, <1>m, SearchSchemaAsked DEF AddSearchSchema
<1>9. ASSUME NEW s \in Sids, RemoveSearcher(s) PROVE Goal
  BY <1>0, <1>9, <1>r, SearcherRemoval DEF RemoveSearcher
<1>10. ASSUME NEW s \in Sids, NEW f \in Fields, RemoveSearchSchema(s, f) PROVE Goal
  BY <1>0, <1>10, <1>r, SearchSchemaRemoval DEF RemoveSearchSchema
<1>11. Goal
  BY <1>1, <1>2, <1>3, <1>4, <1>5, <1>6, <1>7, <1>8, <1>9, <1>10 DEF Requests
<1> QED BY <1>11 DEF Goal

(* What a handler does to the store and to its transaction.                   *)
LEMMA HandlersAre ==
  ASSUME TypeOK, Handlers
  PROVE  \/ tran.puts # <<>> /\ PutDone
         \/ tran.puts # <<>> /\ PutFailed
         \/ \E d \in Removes : Removing(d)
<1>1. CASE IndexerDeleted \/ IndexSchemaDeleted \/ SearcherDeleted \/ SearchSchemaDeleted
  BY <1>1, CellParts DEF IndexerDeleted, IndexSchemaDeleted, SearcherDeleted, SearchSchemaDeleted
<1>2. CASE IndexerCreated \/ IndexerModified \/ IndexSchemaModified \/ SearcherModified
           \/ SearchSchemaModified
  BY <1>2 DEF IndexerCreated, IndexerModified, IndexSchemaModified, SearcherModified,
              SearchSchemaModified, PutsAt
<1> QED BY <1>1, <1>2 DEF Handlers

(* The transaction under way. *)
LEMMA TranParts ==
  ASSUME TypeOK, IdleIsCommitted
  PROVE  /\ tran \in Tran \/ tran = Idle
         /\ Idle.puts = <<>> /\ Idle.dels = {} /\ Idle \notin Tran
         /\ tran \in Tran => phase = "up"
         /\ tran = Idle => wk = db
         /\ tran.puts # <<>> => tran \in Tran
         /\ tran.dels # {} => tran \in Tran
         /\ \A d : Removing(d) => tran \in Tran
<1>1. Idle.puts = <<>> /\ Idle.dels = {}
  BY DEF Idle
<1>2. tran \in Tran \/ tran = Idle
  BY DEF TypeOK
<1>3. (tran \in Tran => phase = "up") /\ (tran = Idle => wk = db)
  BY IdleIsNoTran DEF IdleIsCommitted
<1>4. \A d : Removing(d) => tran.dels # {}
  BY DEF Removing
<1> QED BY <1>1, <1>2, <1>3, <1>4, IdleIsNoTran

LEMMA TranInit == Init => TranInv
BY DEF Init, TranInv, Idle, TakesTrees

LEMMA TranStep ==
  ASSUME TypeOK, TypeOK', IdleIsCommitted, TranInv, [Next]_vars
  PROVE  TranInv'
<1> USE DEF TranInv
<1>0. \A st : TakesTrees({}, st)
  BY DEF TakesTrees
<1>1. CASE tran' = Idle
  BY <1>0, <1>1 DEF Idle
<1>2. CASE UNCHANGED <<tran, wk>>
  BY <1>2
<1>3. CASE Requests
  <2>1. CASE \E puts : MergeAsked(puts, wk) /\ Begin(puts, {})
    <3>1. PICK puts : MergeAsked(puts, wk) /\ Begin(puts, {})
      BY <2>1
    <3>2. tran'.puts = puts /\ tran'.dels = {} /\ wk' = wk
      BY <3>1 DEF Begin
    <3> QED BY <1>0, <3>1, <3>2 DEF MergeAsked
  <2>2. CASE \E dels : RemoveAsked(dels, wk) /\ Begin(<<>>, dels)
    <3>1. PICK dels : RemoveAsked(dels, wk) /\ Begin(<<>>, dels)
      BY <2>2
    <3>2. tran'.puts = <<>> /\ tran'.dels = dels /\ wk' = wk
      BY <3>1 DEF Begin
    <3> QED BY <3>1, <3>2 DEF RemoveAsked
  <2> QED BY <1>3, <2>1, <2>2, RequestAsked
<1>4. ASSUME tran.puts # <<>>, PutDone PROVE TranInv'
  <2>1. tran \in Tran /\ tran.puts \in Seq(Puts) /\ wk \in Store
    BY <1>4, NextPutType DEF Tran, TypeOK
  <2>2. tran'.puts = Tail(tran.puts) /\ tran'.dels = {} /\ wk' = Put(wk, Head(tran.puts))
    BY <1>4, <2>1 DEF PutDone, Tran, NextPut
  <2> QED BY <1>0, <1>4, <2>1, <2>2, MergesTail
<1>5. ASSUME NEW d \in Removes, Removing(d) PROVE TranInv'
  <2>1. tran \in Tran /\ wk \in Store
    BY <1>5, TranParts DEF TypeOK
  <2>2. tran'.puts = <<>> /\ tran'.dels = tran.dels \ {d} /\ wk' = Take(wk, d)
    BY <1>5, <2>1 DEF Removing, Tran
  <2>3. TakesTrees(tran'.dels, wk')
    <3>1. ASSUME NEW i \in Iids, NEW f \in Fields, [at |-> "ix", key |-> i] \in tran'.dels,
                 wk'.is[<<i, f>>] # Absent
          PROVE  IndexSchemaAt(i, f) \in tran'.dels
      <4>1. wk.is[<<i, f>>] # Absent /\ d # IndexSchemaAt(i, f)
        BY <2>1, <2>2, <3>1, TakeIs DEF IndexSchemaAt
      <4> QED BY <2>2, <3>1, <4>1 DEF TakesTrees
    <3>2. ASSUME NEW s \in Sids, NEW f \in Fields, [at |-> "sr", key |-> s] \in tran'.dels,
                 wk'.ss[<<s, f>>] # Absent
          PROVE  SearchSchemaAt(s, f) \in tran'.dels
      <4>1. wk.ss[<<s, f>>] # Absent /\ d # SearchSchemaAt(s, f)
        BY <2>1, <2>2, <3>2, TakeIs DEF SearchSchemaAt
      <4> QED BY <2>2, <3>2, <4>1 DEF TakesTrees
    <3> QED BY <3>1, <3>2 DEF TakesTrees
  <2> QED BY <2>2, <2>3
<1>6. CASE Handlers
  BY <1>1, <1>4, <1>5, <1>6, HandlersAre DEF PutFailed
<1> QED BY <1>1, <1>2, <1>3, <1>6 DEF Next, Commit, Load, LoadFails, Crash, Retry, vars

(* The writes and removes of a transaction keep its aim. *)
LEMMA AimsTail ==
  ASSUME NEW st \in Store, NEW t \in Store, NEW puts \in Seq(Puts), puts # <<>>,
         Aims(puts, {}, st, t)
  PROVE  Aims(Tail(puts), {}, Put(st, Head(puts)), t)
<1> DEFINE n == Len(puts)
           rest == Tail(puts)
           h == puts[1]
           new == Put(st, h)
<1>1. /\ n \in Nat \ {0} /\ Len(rest) = n - 1
      /\ \A m \in 1 .. n - 1 : rest[m] = puts[m + 1]
      /\ \A m \in 1 .. n : puts[m] \in Puts
      /\ h \in Puts /\ Head(puts) = h
  BY TailIs
<1>2. \A m \in 2 .. n : m - 1 \in 1 .. n - 1 /\ rest[m - 1] = puts[m]
  BY <1>1
<1> HIDE DEF n, rest, h, new
<1>3. ASSUME NEW c \in Removes
      PROVE  Cell(new, c) = Cell(t, c) \/ \E m \in 1 .. Len(rest) : CellOf(rest[m]) = c
  <2>1. Cell(new, c) = IF CellOf(h) = c THEN h.val ELSE Cell(st, c)
    BY <1>1, PutCell DEF new
  <2>2. ASSUME NEW m \in 2 .. n, CellOf(puts[m]) = c
        PROVE  \E l \in 1 .. Len(rest) : CellOf(rest[l]) = c
    BY <1>1, <1>2, <2>2
  <2>3. CASE CellOf(h) = c
    <3>1. Cell(t, c) = h.val \/ \E m \in 2 .. n : CellOf(puts[m]) = c
      BY <1>1, <2>3 DEF Aims, n, h
    <3> QED BY <2>1, <2>2, <2>3, <3>1
  <2>4. CASE CellOf(h) # c
    <3>1. Cell(st, c) = Cell(t, c) \/ \E m \in 1 .. n : CellOf(puts[m]) = c
      BY DEF Aims, n
    <3>2. \A m \in 1 .. n : CellOf(puts[m]) = c => m \in 2 .. n
      BY <1>1, <2>4 DEF h
    <3> QED BY <2>1, <2>2, <2>4, <3>1, <3>2
  <2> QED BY <2>3, <2>4
<1>4. ASSUME NEW m \in 1 .. Len(rest)
      PROVE  \/ Cell(t, CellOf(rest[m])) = rest[m].val
             \/ \E l \in m + 1 .. Len(rest) : CellOf(rest[l]) = CellOf(rest[m])
  <2>1. m + 1 \in 1 .. n /\ rest[m] = puts[m + 1] /\ m \in Nat
    BY <1>1
  <2>2. \/ Cell(t, CellOf(puts[m + 1])) = puts[m + 1].val
        \/ \E l \in (m + 1) + 1 .. n : CellOf(puts[l]) = CellOf(puts[m + 1])
    BY <2>1 DEF Aims, n
  <2>3. ASSUME NEW l \in (m + 1) + 1 .. n, CellOf(puts[l]) = CellOf(puts[m + 1])
        PROVE  \E k \in m + 1 .. Len(rest) : CellOf(rest[k]) = CellOf(rest[m])
    <3>1. l - 1 \in m + 1 .. Len(rest) /\ rest[l - 1] = puts[l]
      BY <1>1, <1>2, <2>1
    <3> QED BY <2>1, <2>3, <3>1
  <2> QED BY <2>1, <2>2, <2>3
<1>5. Aims(rest, {}, new, t)
  BY <1>3, <1>4 DEF Aims
<1> QED BY <1>1, <1>5 DEF rest, new

LEMMA AimsTaken ==
  ASSUME NEW st \in Store, NEW t \in Store, NEW dels \in SUBSET Removes, NEW d \in dels,
         Aims(<<>>, dels, st, t)
  PROVE  Aims(<<>>, dels \ {d}, Take(st, d), t)
<1>1. \A c \in Removes : Cell(Take(st, d), c) = IF d = c THEN Absent ELSE Cell(st, c)
  BY TakeCell
<1>2. Len(<<>>) = 0
  OBVIOUS
<1> QED BY <1>1, <1>2 DEF Aims

LEMMA AimsReached ==
  ASSUME NEW st \in Store, NEW t \in Store, Aims(<<>>, {}, st, t)
  PROVE  st = t
<1>1. Len(<<>>) = 0
  OBVIOUS
<1> QED BY <1>1, SameCells DEF Aims

LEMMA AimInit == Init => AimInv
BY DEF Init, AimInv

(* A transaction changes the committed store when it commits, to its aim.     *)
LEMMA AimStep ==
  ASSUME Transactional, TypeOK, TypeOK', IdleIsCommitted, TranInv, AimInv, [Next]_vars
  PROVE  AimInv' /\ (db' = db \/ Changes(db, db'))
<1> USE DEF AimInv
<1>1. CASE UNCHANGED <<tran, db, wk>>
  BY <1>1
<1>2. CASE Requests
  <2>1. CASE \E puts : MergeAsked(puts, wk) /\ Begin(puts, {})
    <3>1. PICK puts : MergeAsked(puts, wk) /\ Begin(puts, {})
      BY <2>1
    <3>2. tran'.puts = puts /\ tran'.dels = {} /\ wk' = wk /\ db' = db /\ wk = db
      BY <3>1, TranParts DEF Begin
    <3> QED BY <3>1, <3>2 DEF MergeAsked
  <2>2. CASE \E dels : RemoveAsked(dels, wk) /\ Begin(<<>>, dels)
    <3>1. PICK dels : RemoveAsked(dels, wk) /\ Begin(<<>>, dels)
      BY <2>2
    <3>2. tran'.puts = <<>> /\ tran'.dels = dels /\ wk' = wk /\ db' = db /\ wk = db
      BY <3>1, TranParts DEF Begin
    <3> QED BY <3>1, <3>2 DEF RemoveAsked
  <2> QED BY <1>2, <2>1, <2>2, RequestAsked
<1>3. ASSUME tran.puts # <<>>, PutDone PROVE AimInv' /\ db' = db
  <2>1. tran \in Tran /\ tran.puts \in Seq(Puts) /\ wk \in Store /\ tran # Idle
    BY <1>3, NextPutType, IdleIsNoTran DEF Tran, TypeOK
  <2>2. /\ tran'.puts = Tail(tran.puts) /\ tran'.dels = {} /\ tran.dels = {}
        /\ wk' = Put(wk, Head(tran.puts)) /\ db' = db
    BY <1>3, <2>1 DEF PutDone, Tran, NextPut, TranInv
  <2>3. PICK t \in Store : Changes(db, t) /\ Aims(tran.puts, tran.dels, wk, t)
    BY <2>1
  <2>4. Aims(tran'.puts, tran'.dels, wk', t)
    BY <1>3, <2>1, <2>2, <2>3, AimsTail
  <2> QED BY <2>2, <2>3, <2>4
<1>4. ASSUME NEW d \in Removes, Removing(d) PROVE AimInv' /\ db' = db
  <2>1. tran \in Tran /\ tran # Idle /\ wk \in Store /\ tran.dels \in SUBSET Removes
    BY <1>4, TranParts DEF TypeOK, Tran
  <2>2. /\ tran.puts = <<>> /\ tran'.puts = <<>> /\ d \in tran.dels
        /\ tran'.dels = tran.dels \ {d} /\ wk' = Take(wk, d) /\ db' = db
    BY <1>4, <2>1 DEF Removing, Tran
  <2>3. PICK t \in Store : Changes(db, t) /\ Aims(tran.puts, tran.dels, wk, t)
    BY <2>1
  <2>4. Aims(tran'.puts, tran'.dels, wk', t)
    BY <2>1, <2>2, <2>3, AimsTaken
  <2> QED BY <2>2, <2>3, <2>4
<1>5. CASE Handlers
  <2>1. PutFailed => tran' = Idle /\ db' = db
    BY DEF PutFailed
  <2> QED BY <1>3, <1>4, <1>5, <2>1, HandlersAre
<1>6. CASE Commit
  <2>1. tran # Idle /\ tran.puts = <<>> /\ tran.dels = {} /\ db' = wk /\ tran' = Idle /\ wk \in Store
    BY <1>6 DEF Commit, TypeOK
  <2>2. PICK t \in Store : Changes(db, t) /\ Aims(<<>>, {}, wk, t)
    BY <2>1
  <2> QED BY <2>1, <2>2, AimsReached
<1>7. CASE Crash
  BY <1>7 DEF Crash
<1> QED BY <1>1, <1>2, <1>5, <1>6, <1>7 DEF Next, Load, LoadFails, Retry, vars

LEMMA ChangeIsRequest ==
  ASSUME Changes(db, db')
  PROVE  Catalogue!Next
<1>0. /\ Catalogue!MaybeNames = MaybeNames
      /\ Catalogue!IndexSchemaNode = IndexSchemaNode
      /\ Catalogue!SearchSchemaNode = SearchSchemaNode
      /\ Catalogue!NoIndexerProps = NoIndexerProps
      /\ Catalogue!NoSearcherProps = NoSearcherProps
  BY DEF Catalogue!MaybeNames, Catalogue!Names, MaybeNames, Names, Catalogue!IndexSchemaNode,
         IndexSchemaNode, Catalogue!SearchSchemaNode, SearchSchemaNode, Catalogue!NoIndexerProps,
         NoIndexerProps, Catalogue!NoSearcherProps, NoSearcherProps
<1> USE <1>0 DEF Catalogue!Next
<1>1. ASSUME NEW i \in Iids, NEW v \in IndexerNode, db' = [db EXCEPT !.ix[i] = v]
      PROVE  Catalogue!Next
  <2>1. PICK ia \in MaybeNames, qa \in MaybeNames : v = [ia |-> ia, qa |-> qa]
    BY DEF IndexerNode
  <2>2. Catalogue!DefineIndexer(i, ia, qa)
    BY <1>1, <2>1 DEF Catalogue!DefineIndexer, Catalogue!SetIndexer
  <2> QED BY <2>2
<1>2. ASSUME NEW i \in Iids,
             db' = [db EXCEPT !.ix[i] = Absent,
                              !.is = [p \in Iids \X Fields |-> IF p[1] = i THEN Absent ELSE db.is[p]]]
      PROVE  Catalogue!Next
  <2>1. Catalogue!RemoveIndexer(i)
    BY <1>2 DEF Catalogue!RemoveIndexer
  <2> QED BY <2>1
<1>3. ASSUME NEW i \in Iids, NEW f \in Fields, NEW v \in IndexSchemaNode, v # Empty,
             db' = [db EXCEPT !.is[<<i, f>>] = v, !.ix[i] = IF @ = Absent THEN NoIndexerProps ELSE @]
      PROVE  Catalogue!Next
  <2>1. Catalogue!AddIndexSchema(i, f, v)
    BY <1>3 DEF Catalogue!AddIndexSchema
  <2> QED BY <2>1
<1>4. ASSUME NEW i \in Iids, NEW f \in Fields, db' = [db EXCEPT !.is[<<i, f>>] = Absent]
      PROVE  Catalogue!Next
  <2>1. Catalogue!RemoveIndexSchema(i, f)
    BY <1>4 DEF Catalogue!RemoveIndexSchema
  <2> QED BY <2>1
<1>5. ASSUME NEW s \in Sids, NEW v \in SearcherNode, db' = [db EXCEPT !.sr[s] = v]
      PROVE  Catalogue!Next
  <2>1. PICK T \in SUBSET Iids, qa \in MaybeNames : v = [target |-> T, qa |-> qa]
    BY DEF SearcherNode
  <2>2. Catalogue!DefineSearcher(s, T, qa)
    BY <1>5, <2>1 DEF Catalogue!DefineSearcher, Catalogue!SetSearcher
  <2> QED BY <2>2
<1>6. ASSUME NEW s \in Sids,
             db' = [db EXCEPT !.sr[s] = Absent,
                              !.ss = [p \in Sids \X Fields |-> IF p[1] = s THEN Absent ELSE db.ss[p]]]
      PROVE  Catalogue!Next
  <2>1. Catalogue!RemoveSearcher(s)
    BY <1>6 DEF Catalogue!RemoveSearcher
  <2> QED BY <2>1
<1>7. ASSUME NEW s \in Sids, NEW f \in Fields, NEW v \in SearchSchemaNode, v # Empty,
             db' = [db EXCEPT !.ss[<<s, f>>] = v, !.sr[s] = IF @ = Absent THEN NoSearcherProps ELSE @]
      PROVE  Catalogue!Next
  <2>1. Catalogue!AddSearchSchema(s, f, v)
    BY <1>7 DEF Catalogue!AddSearchSchema
  <2> QED BY <2>1
<1>8. ASSUME NEW s \in Sids, NEW f \in Fields, db' = [db EXCEPT !.ss[<<s, f>>] = Absent]
      PROVE  Catalogue!Next
  <2>1. Catalogue!RemoveSearchSchema(s, f)
    BY <1>8 DEF Catalogue!RemoveSearchSchema
  <2> QED BY <2>1
<1> QED BY <1>1, <1>2, <1>3, <1>4, <1>5, <1>6, <1>7, <1>8 DEF Changes

(* On the store that rolls back, the puts, removes, failures, rollbacks and   *)
(* crashes behind a request change the committed definitions as if every      *)
(* request were one step, done as a whole or not at all (MapWorkspace.tran    *)
(* around the requests of IndexerWeb and SearcherWeb).                        *)
THEOREM RequestsAreAtomic == Transactional => (Spec => Atomic)
<1> SUFFICES ASSUME Transactional PROVE Spec => Atomic
  OBVIOUS
<1> DEFINE Inv == TypeOK /\ RegisteredInv /\ TranInv /\ AimInv
<1>1. Init => Inv /\ Catalogue!Init
  BY TypeInit, RegisteredInit, TranInit, AimInit
     DEF Init, Catalogue!Init, EmptyStore, Catalogue!EmptyStore
<1>2. Inv /\ [Next]_vars => Inv' /\ [Catalogue!Next]_db
  <2> SUFFICES ASSUME Inv, [Next]_vars PROVE Inv' /\ [Catalogue!Next]_db
    OBVIOUS
  <2>1. TypeOK' /\ RegisteredInv'
    BY TypeStep, RegisteredStep
  <2>2. TranInv' /\ AimInv' /\ (db' = db \/ Changes(db, db'))
    BY <2>1, TranStep, AimStep DEF RegisteredInv
  <2> QED BY <2>1, <2>2, ChangeIsRequest
<1> QED BY <1>1, <1>2, PTL DEF Spec, Atomic, Catalogue!Spec

------------------------------------------------------------------------------
(* Parents.  A searcher that is registered is stored; a schema whose parent   *)
(* is not there is one that is being removed, or the parent is on its way.    *)
Brought(p, o) ==
  LET n == Len(tran.puts)
  IN /\ tran.puts # <<>> /\ Brings(tran.puts, n - 1)
     /\ (OfIndexer(tran.puts[n]) <=> p) /\ Owner(tran.puts[n]) = o

HasParents(st) ==
  /\ \A i \in Iids, f \in Fields : st.is[<<i, f>>] # Absent => st.ix[i] # Absent
  /\ \A s \in Sids, f \in Fields : st.ss[<<s, f>>] # Absent => st.sr[s] # Absent

ParentInv ==
  /\ HasParents(db)
  /\ \A i \in Iids, f \in Fields :
       wk.is[<<i, f>>] # Absent =>
         wk.ix[i] # Absent \/ IndexSchemaAt(i, f) \in tran.dels \/ Brought(TRUE, i)
  /\ \A s \in Sids, f \in Fields :
       wk.ss[<<s, f>>] # Absent =>
         wk.sr[s] # Absent \/ SearchSchemaAt(s, f) \in tran.dels \/ Brought(FALSE, s)
  /\ \A s \in Sids : HasSearch(s) => /\ wk.sr[s] # Absent
                                     /\ tran.puts # <<>> => db.sr[s] # Absent

(* When a put fails that makes a node without properties, it is the schema of *)
(* a searcher; only a put with targets registers a searcher.                  *)
LEMMA HandlersSearch ==
  ASSUME TypeOK, Handlers
  PROVE  \/ /\ tran.puts # <<>> /\ PutDone
            /\ \A s \in Sids : HasSearch(s)' =>
                 HasSearch(s) \/ (NextPut.at = "sr" /\ NextPut.key = s /\ ~ IsFresh(NextPut))
         \/ /\ tran.puts # <<>> /\ PutFailed /\ UNCHANGED srch
            /\ \/ ~ IsFresh(NextPut)
               \/ NextPut.at = "ss" /\ HasSearch(NextPut.key[1])
         \/ \E d \in Removes :
              /\ Removing(d)
              /\ \A s \in Sids : HasSearch(s)' => HasSearch(s) /\ ~ (d.at = "sr" /\ d.key = s)
<1> DEFINE Done == /\ tran.puts # <<>> /\ PutDone
                   /\ \A s \in Sids : HasSearch(s)' =>
                        HasSearch(s) \/ (NextPut.at = "sr" /\ NextPut.key = s /\ ~ IsFresh(NextPut))
           Failed == /\ tran.puts # <<>> /\ PutFailed /\ UNCHANGED srch
                     /\ \/ ~ IsFresh(NextPut)
                        \/ NextPut.at = "ss" /\ HasSearch(NextPut.key[1])
           Taken == \E d \in Removes :
                      /\ Removing(d)
                      /\ \A s \in Sids : HasSearch(s)' => HasSearch(s) /\ ~ (d.at = "sr" /\ d.key = s)
<1>0. /\ ctl \in Seq(Controller) /\ idx \in [Iids -> 0 .. Len(ctl)]
      /\ srch \in [Sids -> Searcher \cup {Unregistered}]
  BY DEF TypeOK
<1>p. ASSUME NEW at, PutsAt(at) PROVE tran.puts # <<>> /\ NextPut \in Puts /\ NextPut.at = at
  BY <1>p, NextPutType DEF PutsAt, NextPut
<1>s. srch' = srch => \A s \in Sids : HasSearch(s)' => HasSearch(s)
  BY DEF HasSearch
<1>1. CASE IndexerCreated
  BY <1>1, <1>p, <1>s DEF IndexerCreated
<1>2. CASE IndexerModified
  <2> DEFINE p == NextPut
  <2>1. tran.puts # <<>> /\ p \in Puts /\ p.at = "ix" /\ p.key \in Iids /\ UNCHANGED srch
    BY <1>2, <1>p, PutParts DEF IndexerModified
  <2>2. CASE PutDone
    BY <1>s, <2>1, <2>2
  <2>3. CASE PutFailed /\ (Chosen(p.val.ia, ctl[idx[p.key]].ia) = Bad
                           \/ Chosen(p.val.qa, ctl[idx[p.key]].qa) = Bad)
    <3>1. idx[p.key] \in DOMAIN ctl
      BY <1>0, <1>2, <2>1 DEF IndexerModified, Registered
    <3>2. ctl[idx[p.key]] \in Controller
      BY <1>0, <3>1
    <3>3. ctl[idx[p.key]].ia # Bad /\ ctl[idx[p.key]].qa # Bad
      BY <3>2, NamesDistinct DEF Controller
    <3>4. ~ IsFresh(p)
      BY <2>1, <2>3, <3>3 DEF IsFresh, NoIndexerProps, Chosen
    <3> QED BY <2>1, <2>3, <3>4
  <2> QED BY <1>2, <2>2, <2>3 DEF IndexerModified
<1>3. CASE IndexSchemaModified
  <2>1. tran.puts # <<>> /\ NextPut.at = "is" /\ UNCHANGED srch
    BY <1>3, <1>p DEF IndexSchemaModified
  <2>2. Empty # Bad
    BY NamesDistinct
  <2> QED BY <1>3, <1>s, <2>1, <2>2 DEF IndexSchemaModified, IsFresh
<1>4. CASE SearcherModified
  <2>1. tran.puts # <<>> /\ NextPut.at = "sr" /\ NextPut.key \in Sids
    BY <1>4, <1>p, PutParts DEF SearcherModified
  <2>2. NextPut.val.target # {} => ~ IsFresh(NextPut)
    BY <2>1 DEF IsFresh, NoSearcherProps
  <2>3. CASE srch' = srch /\ PutDone
    BY <1>s, <2>1, <2>3
  <2>4. CASE UNCHANGED srch /\ PutFailed /\ NextPut.val.target # {}
    BY <2>1, <2>2, <2>4
  <2>5. CASE /\ PutDone /\ NextPut.val.target # {}
             /\ \E r : srch' = [srch EXCEPT ![NextPut.key] = r]
    <3>1. \A s \in Sids : s # NextPut.key => (HasSearch(s)' => HasSearch(s))
      BY <1>0, <2>5 DEF HasSearch
    <3> QED BY <2>1, <2>2, <2>5, <3>1
  <2> QED BY <1>4, <2>3, <2>4, <2>5 DEF SearcherModified, RegisterThrows
<1>5. CASE SearchSchemaModified
  <2>1. tran.puts # <<>> /\ NextPut.at = "ss"
    BY <1>5, <1>p DEF SearchSchemaModified
  <2>2. CASE PutDone
    <3>1. \/ srch' = srch
          \/ \E s, f, v : HasSearch(s) /\ srch' = [srch EXCEPT ![s].fields[f] = v]
      BY <1>5 DEF SearchSchemaModified
    <3>2. ASSUME NEW s, NEW f, NEW v, HasSearch(s), srch' = [srch EXCEPT ![s].fields[f] = v]
          PROVE  \A t \in Sids : HasSearch(t)' => HasSearch(t)
      BY <1>0, <3>2 DEF HasSearch
    <3> QED BY <1>s, <2>1, <2>2, <3>1, <3>2
  <2>3. CASE PutFailed /\ HasSearch(NextPut.key[1]) /\ UNCHANGED srch
    BY <2>1, <2>3
  <2> QED BY <1>5, <2>2, <2>3 DEF SearchSchemaModified
<1>6. CASE IndexerDeleted \/ IndexSchemaDeleted
  <2>1. PICK d \in Removes : Removing(d) /\ d.at \in {"ix", "is"} /\ UNCHANGED srch
    BY <1>6, CellParts DEF IndexerDeleted, IndexSchemaDeleted
  <2> QED BY <1>s, <2>1
<1>7. CASE SearcherDeleted
  <2>1. PICK t \in Sids : Removing([at |-> "sr", key |-> t]) /\ srch' = [srch EXCEPT ![t] = Unregistered]
    BY <1>7 DEF SearcherDeleted
  <2>2. [at |-> "sr", key |-> t] \in Removes
    BY CellParts
  <2>3. \A s \in Sids : HasSearch(s)' => HasSearch(s) /\ s # t
    BY <1>0, <2>1 DEF HasSearch
  <2> QED BY <2>1, <2>2, <2>3
<1>8. CASE SearchSchemaDeleted
  <2>1. PICK s \in Sids, f \in Fields :
          /\ Removing([at |-> "ss", key |-> <<s, f>>])
          /\ srch' = IF HasSearch(s) THEN [srch EXCEPT ![s].fields[f] = Null] ELSE srch
    BY <1>8 DEF SearchSchemaDeleted
  <2>2. [at |-> "ss", key |-> <<s, f>>] \in Removes
    BY CellParts
  <2>3. \A t \in Sids : HasSearch(t)' => HasSearch(t)
    BY <1>0, <2>1 DEF HasSearch
  <2> QED BY <2>1, <2>2, <2>3
<1> QED BY <1>1, <1>2, <1>3, <1>4, <1>5, <1>6, <1>7, <1>8 DEF Handlers

(* The parent of the last put is there, or it is on its way.                  *)
LEMMA OnItsWay ==
  ASSUME TypeOK, TypeOK', IdleIsCommitted, TranInv, [Next]_vars, tran.puts # <<>>, PutDone
  PROVE  LET p == tran.puts[Len(tran.puts)]
         IN \/ Parent(wk', p) # Absent
            \/ /\ tran'.puts # <<>> /\ tran'.puts[Len(tran'.puts)] = p
               /\ Brings(tran'.puts, Len(tran'.puts) - 1)
<1> DEFINE n == Len(tran.puts)
           p == tran.puts[n]
           h == tran.puts[1]
<1>1. tran \in Tran /\ tran.puts \in Seq(Puts) /\ wk \in Store
  BY NextPutType DEF Tran, TypeOK
<1>2. tran'.puts = Tail(tran.puts) /\ wk' = Put(wk, h)
  BY <1>1, TailIs DEF PutDone, Tran, NextPut
<1>3. n \in Nat \ {0} /\ p \in Puts /\ h \in Puts
  BY <1>1, TailIs
<1>4. CASE n = 1
  <2>1. ~ Brings(tran.puts, n - 1)
    BY <1>4 DEF Brings
  <2>2. Parent(wk, p) # Absent
    BY <2>1 DEF TranInv, Merges
  <2>3. Parent(wk', p) # Absent
    BY <1>1, <1>2, <1>3, <2>2, PutIs, PutParts DEF Parent
  <2> QED BY <2>3
<1>5. CASE n # 1
  <2>1. /\ tran'.puts # <<>> /\ Len(tran'.puts) = n - 1 /\ tran'.puts[n - 1] = p
    BY <1>1, <1>2, <1>3, <1>5, TailIs
  <2>2. Merges(tran'.puts, wk')
    BY <2>1, TranStep DEF TranInv
  <2>3. Parent(wk', p) # Absent \/ Brings(tran'.puts, Len(tran'.puts) - 1)
    BY <2>1, <2>2 DEF Merges
  <2> QED BY <2>1, <2>3
<1> QED BY <1>4, <1>5

LEMMA ParentInit == Init => ParentInv
<1> SUFFICES ASSUME Init PROVE ParentInv
  OBVIOUS
<1>1. /\ \A p \in Iids \X Fields : db.is[p] = Absent /\ wk.is[p] = Absent
      /\ \A p \in Sids \X Fields : db.ss[p] = Absent /\ wk.ss[p] = Absent
      /\ \A s \in Sids : ~ HasSearch(s)
  BY DEF Init, EmptyStore, HasSearch
<1>2. /\ \A i \in Iids, f \in Fields : db.is[<<i, f>>] = Absent /\ wk.is[<<i, f>>] = Absent
      /\ \A s \in Sids, f \in Fields : db.ss[<<s, f>>] = Absent /\ wk.ss[<<s, f>>] = Absent
  BY <1>1
<1> QED BY <1>1, <1>2 DEF ParentInv, HasParents

(* A put that is no fresh node is the last one: nothing is on its way.        *)
LEMMA LastHasParents ==
  ASSUME TypeOK, TranInv, ParentInv, tran.puts # <<>>,
         ~ IsFresh(NextPut) \/ (NextPut.at = "ss" /\ HasSearch(NextPut.key[1]))
  PROVE  HasParents(Put(wk, NextPut))
<1> DEFINE n == Len(tran.puts)
           p == tran.puts[n]
           h == tran.puts[1]
<1>1. tran \in Tran /\ tran.puts \in Seq(Puts) /\ wk \in Store /\ tran.dels = {}
  BY NextPutType DEF Tran, TypeOK, TranInv
<1>2. n \in Nat \ {0} /\ p \in Puts /\ h \in Puts /\ NextPut = h
  BY <1>1, TailIs DEF NextPut
<1>3. /\ \A m \in 1 .. n - 1 : IsFresh(tran.puts[m])
      /\ OfIndexer(h) <=> OfIndexer(p)
      /\ Owner(h) = Owner(p)
      /\ Parent(wk, p) # Absent \/ Brings(tran.puts, n - 1)
  BY <1>2 DEF TranInv, Merges
<1>4. \/ n = 1 /\ ~ Brings(tran.puts, n - 1)
      \/ h.at = "ss" /\ HasSearch(h.key[1]) /\ h.key \in Sids \X Fields
  <2>1. CASE ~ IsFresh(h)
    <3>1. n = 1
      <4>0. \A k \in Nat \ {0} : k # 1 => 1 \in 1 .. k - 1
        OBVIOUS
      <4>1. n # 1 => 1 \in 1 .. n - 1
        BY <1>2, <4>0
      <4>2. 1 \in 1 .. n - 1 => IsFresh(tran.puts[1])
        BY <1>3
      <4> QED BY <2>1, <4>1, <4>2
    <3>2. n - 1 = 0
      BY <3>1
    <3>3. ~ Brings(tran.puts, 0)
      BY DEF Brings
    <3> QED BY <3>1, <3>2, <3>3
  <2>2. CASE h.at = "ss" /\ HasSearch(h.key[1])
    BY <1>2, <2>2, PutParts
  <2> QED BY <1>2, <2>1, <2>2
<1>5. Parent(wk, h) # Absent
  <2>1. CASE n = 1 /\ ~ Brings(tran.puts, n - 1)
    BY <1>3, <2>1
  <2>2. CASE h.at = "ss" /\ HasSearch(h.key[1]) /\ h.key \in Sids \X Fields
    <3>1. h.key[1] \in Sids
      BY <2>2
    <3>2. Owner(h) = h.key[1] /\ ~ OfIndexer(h)
      BY <2>2 DEF Owner, OfIndexer
    <3> QED BY <2>2, <3>1, <3>2 DEF Parent, ParentInv
  <2> QED BY <1>4, <2>1, <2>2
<1>6. HasParents(wk)
  <2>1. ASSUME NEW i \in Iids, Brought(TRUE, i) PROVE wk.ix[i] # Absent
    <3>1. Brings(tran.puts, n - 1) /\ OfIndexer(p) /\ Owner(p) = i
      BY <2>1 DEF Brought
    <3> QED BY <1>3, <1>4, <3>1 DEF OfIndexer
  <2>2. ASSUME NEW s \in Sids, Brought(FALSE, s) PROVE wk.sr[s] # Absent
    <3>1. Brings(tran.puts, n - 1) /\ ~ OfIndexer(p) /\ Owner(p) = s
      BY <2>2 DEF Brought
    <3> QED BY <1>3, <1>5, <3>1 DEF Parent
  <2> QED BY <1>1, <2>1, <2>2 DEF ParentInv, HasParents
<1>7. ASSUME NEW i \in Iids, NEW f \in Fields, Put(wk, h).is[<<i, f>>] # Absent
      PROVE  Put(wk, h).ix[i] # Absent
  <2>1. CASE wk.is[<<i, f>>] # Absent
    BY <1>1, <1>2, <1>6, <2>1, PutIs, PutParts DEF HasParents
  <2>2. CASE h.at = "is" /\ h.key = <<i, f>>
    <3>1. Owner(h) = i /\ OfIndexer(h)
      BY <2>2 DEF Owner, OfIndexer
    <3> QED BY <1>1, <1>2, <1>5, <2>2, <3>1, PutIs, PutParts DEF Parent
  <2> QED BY <1>1, <1>2, <1>7, <2>1, <2>2, PutIs
<1>8. ASSUME NEW s \in Sids, NEW f \in Fields, Put(wk, h).ss[<<s, f>>] # Absent
      PROVE  Put(wk, h).sr[s] # Absent
  <2>1. CASE wk.ss[<<s, f>>] # Absent
    BY <1>1, <1>2, <1>6, <2>1, PutIs, PutParts DEF HasParents
  <2>2. CASE h.at = "ss" /\ h.key = <<s, f>>
    <3>1. Owner(h) = s /\ ~ OfIndexer(h)
      BY <2>2 DEF Owner, OfIndexer
    <3> QED BY <1>1, <1>2, <1>5, <2>2, <3>1, PutIs, PutParts DEF Parent
  <2> QED BY <1>1, <1>2, <1>8, <2>1, <2>2, PutIs
<1> QED BY <1>2, <1>7, <1>8 DEF HasParents

LEMMA ParentPutDone ==
  ASSUME TypeOK, TypeOK', IdleIsCommitted, TranInv, ParentInv, [Next]_vars, tran.puts # <<>>, PutDone,
         \A s \in Sids : HasSearch(s)' =>
           HasSearch(s) \/ (NextPut.at = "sr" /\ NextPut.key = s /\ ~ IsFresh(NextPut))
  PROVE  ParentInv'
<1> DEFINE n == Len(tran.puts)
           p == tran.puts[n]
           h == tran.puts[1]
<1>1. tran \in Tran /\ tran.puts \in Seq(Puts) /\ wk \in Store /\ tran.dels = {}
  BY NextPutType DEF Tran, TypeOK, TranInv
<1>2. /\ n \in Nat \ {0} /\ p \in Puts /\ h \in Puts /\ NextPut = h
      /\ Tail(tran.puts) # <<>> <=> n # 1
  BY <1>1, TailIs DEF NextPut
<1>3. /\ \A m \in 1 .. n - 1 : IsFresh(tran.puts[m])
      /\ OfIndexer(h) <=> OfIndexer(p)
      /\ Owner(h) = Owner(p)
      /\ Parent(wk, p) # Absent \/ Brings(tran.puts, n - 1)
  BY <1>2 DEF TranInv, Merges
<1>4. wk' = Put(wk, h) /\ db' = db /\ tran'.puts = Tail(tran.puts)
  BY <1>1, <1>2 DEF PutDone, Tran
<1>5. \/ Parent(wk', p) # Absent
      \/ /\ tran'.puts # <<>> /\ tran'.puts[Len(tran'.puts)] = p
         /\ Brings(tran'.puts, Len(tran'.puts) - 1)
  BY OnItsWay
<1>6. \A o : OfIndexer(p) /\ Owner(p) = o => wk'.ix[o] # Absent \/ Brought(TRUE, o)'
  BY <1>5 DEF Parent, Brought
<1>7. \A o : ~ OfIndexer(p) /\ Owner(p) = o => wk'.sr[o] # Absent \/ Brought(FALSE, o)'
  BY <1>5 DEF Parent, Brought
<1>8. ASSUME NEW i \in Iids, NEW f \in Fields, wk'.is[<<i, f>>] # Absent
      PROVE  wk'.ix[i] # Absent \/ IndexSchemaAt(i, f) \in tran'.dels \/ Brought(TRUE, i)'
  <2>1. CASE wk.ix[i] # Absent
    <3>1. wk'.ix[i] # Absent
      BY <1>1, <1>2, <1>4, <2>1, PutIs, PutParts
    <3> QED BY <3>1
  <2>2. CASE Brought(TRUE, i)
    <3>1. OfIndexer(p) /\ Owner(p) = i
      BY <2>2 DEF Brought
    <3> QED BY <1>6, <3>1
  <2>3. CASE h.at = "is" /\ h.key = <<i, f>>
    <3>1. OfIndexer(h) /\ Owner(h) = i
      BY <2>3 DEF OfIndexer, Owner
    <3>2. OfIndexer(p) /\ Owner(p) = i
      BY <1>3, <3>1
    <3> QED BY <1>6, <3>2
  <2>4. wk.is[<<i, f>>] # Absent \/ (h.at = "is" /\ h.key = <<i, f>>)
    BY <1>1, <1>2, <1>4, <1>8, PutIs
  <2> QED BY <1>1, <2>1, <2>2, <2>3, <2>4 DEF ParentInv
<1>9. ASSUME NEW s \in Sids, NEW f \in Fields, wk'.ss[<<s, f>>] # Absent
      PROVE  wk'.sr[s] # Absent \/ SearchSchemaAt(s, f) \in tran'.dels \/ Brought(FALSE, s)'
  <2>1. CASE wk.sr[s] # Absent
    <3>1. wk'.sr[s] # Absent
      BY <1>1, <1>2, <1>4, <2>1, PutIs, PutParts
    <3> QED BY <3>1
  <2>2. CASE Brought(FALSE, s)
    <3>1. ~ OfIndexer(p) /\ Owner(p) = s
      BY <2>2 DEF Brought
    <3> QED BY <1>7, <3>1
  <2>3. CASE h.at = "ss" /\ h.key = <<s, f>>
    <3>1. ~ OfIndexer(h) /\ Owner(h) = s
      BY <2>3 DEF OfIndexer, Owner
    <3>2. ~ OfIndexer(p) /\ Owner(p) = s
      BY <1>3, <3>1
    <3> QED BY <1>7, <3>2
  <2>4. wk.ss[<<s, f>>] # Absent \/ (h.at = "ss" /\ h.key = <<s, f>>)
    BY <1>1, <1>2, <1>4, <1>9, PutIs
  <2> QED BY <1>1, <2>1, <2>2, <2>3, <2>4 DEF ParentInv
<1>10. ASSUME NEW s \in Sids, HasSearch(s)'
       PROVE  wk'.sr[s] # Absent /\ (tran'.puts # <<>> => db'.sr[s] # Absent)
  <2>1. CASE HasSearch(s)
    BY <1>1, <1>2, <1>4, <2>1, PutIs, PutParts DEF ParentInv
  <2>2. CASE NextPut.at = "sr" /\ NextPut.key = s /\ ~ IsFresh(NextPut)
    <3>1. n = 1 /\ tran'.puts = <<>>
      BY <1>2, <1>3, <1>4, <2>2
    <3> QED BY <1>1, <1>2, <1>4, <2>2, <3>1, PutIs, PutParts
  <2> QED BY <1>10, <2>1, <2>2
<1>11. HasParents(db)'
  BY <1>4 DEF ParentInv, HasParents
<1> QED BY <1>8, <1>9, <1>10, <1>11 DEF ParentInv

LEMMA ParentPutFailed ==
  ASSUME TypeOK, TranInv, ParentInv, tran.puts # <<>>, PutFailed, UNCHANGED srch,
         ~ IsFresh(NextPut) \/ (NextPut.at = "ss" /\ HasSearch(NextPut.key[1]))
  PROVE  ParentInv'
<1>1. NextPut \in Puts /\ wk \in Store
  BY NextPutType DEF TypeOK
<1>2. wk' = (IF Transactional THEN db ELSE Put(wk, NextPut)) /\ db' = wk' /\ tran'.puts = <<>>
  BY DEF PutFailed, Idle
<1>3. HasParents(db) /\ HasParents(Put(wk, NextPut))
  BY LastHasParents DEF ParentInv
<1>4. HasParents(db') /\ HasParents(wk')
  BY <1>2, <1>3
<1>5. ASSUME NEW s \in Sids, HasSearch(s)' PROVE wk'.sr[s] # Absent
  <2>1. wk.sr[s] # Absent /\ db.sr[s] # Absent
    BY <1>5 DEF HasSearch, ParentInv
  <2>2. Put(wk, NextPut).sr[s] # Absent
    BY <1>1, <2>1, PutIs, PutParts
  <2> QED BY <1>2, <2>1, <2>2
<1> QED BY <1>2, <1>4, <1>5 DEF ParentInv, HasParents

LEMMA ParentRemoving ==
  ASSUME TypeOK, IdleIsCommitted, TranInv, ParentInv, NEW d \in Removes, Removing(d),
         \A s \in Sids : HasSearch(s)' => HasSearch(s) /\ ~ (d.at = "sr" /\ d.key = s)
  PROVE  ParentInv'
<1>1. tran \in Tran /\ wk \in Store /\ tran.dels \in SUBSET Removes
  BY TranParts DEF TypeOK, Tran
<1>2. /\ tran.puts = <<>> /\ tran'.puts = <<>> /\ d \in tran.dels
      /\ tran'.dels = tran.dels \ {d} /\ wk' = Take(wk, d) /\ db' = db
  BY <1>1 DEF Removing, Tran
<1>3. ASSUME NEW i \in Iids, NEW f \in Fields, wk'.is[<<i, f>>] # Absent
      PROVE  wk'.ix[i] # Absent \/ IndexSchemaAt(i, f) \in tran'.dels
  <2>1. wk.is[<<i, f>>] # Absent /\ d # IndexSchemaAt(i, f)
    BY <1>1, <1>2, <1>3, TakeIs DEF IndexSchemaAt
  <2>2. CASE d.at = "ix" /\ d.key = i
    <3>1. d = [at |-> "ix", key |-> i]
      BY <2>2, CellParts
    <3> QED BY <1>2, <2>1, <3>1 DEF TranInv, TakesTrees
  <2>3. CASE ~ (d.at = "ix" /\ d.key = i)
    <3>1. wk'.ix[i] = wk.ix[i]
      BY <1>1, <1>2, <2>3, TakeIs
    <3> QED BY <1>2, <2>1, <3>1 DEF ParentInv, Brought
  <2> QED BY <2>2, <2>3
<1>4. ASSUME NEW s \in Sids, NEW f \in Fields, wk'.ss[<<s, f>>] # Absent
      PROVE  wk'.sr[s] # Absent \/ SearchSchemaAt(s, f) \in tran'.dels
  <2>1. wk.ss[<<s, f>>] # Absent /\ d # SearchSchemaAt(s, f)
    BY <1>1, <1>2, <1>4, TakeIs DEF SearchSchemaAt
  <2>2. CASE d.at = "sr" /\ d.key = s
    <3>1. d = [at |-> "sr", key |-> s]
      BY <2>2, CellParts
    <3> QED BY <1>2, <2>1, <3>1 DEF TranInv, TakesTrees
  <2>3. CASE ~ (d.at = "sr" /\ d.key = s)
    <3>1. wk'.sr[s] = wk.sr[s]
      BY <1>1, <1>2, <2>3, TakeIs
    <3> QED BY <1>2, <2>1, <3>1 DEF ParentInv, Brought
  <2> QED BY <2>2, <2>3
<1>5. ASSUME NEW s \in Sids, HasSearch(s)' PROVE wk'.sr[s] # Absent
  BY <1>1, <1>2, <1>5, TakeIs DEF ParentInv
<1> QED BY <1>2, <1>3, <1>4, <1>5 DEF ParentInv, HasParents

LEMMA ParentStep ==
  ASSUME TypeOK, TypeOK', IdleIsCommitted, TranInv, ParentInv, [Next]_vars
  PROVE  ParentInv'
<1>0. HasParents(EmptyStore)
  <2>1. /\ \A p \in Iids \X Fields : EmptyStore.is[p] = Absent
        /\ \A p \in Sids \X Fields : EmptyStore.ss[p] = Absent
    BY DEF EmptyStore
  <2>2. /\ \A i \in Iids, f \in Fields : EmptyStore.is[<<i, f>>] = Absent
        /\ \A s \in Sids, f \in Fields : EmptyStore.ss[<<s, f>>] = Absent
    BY <2>1
  <2> QED BY <2>2 DEF HasParents
<1>1. CASE UNCHANGED <<tran, db, wk, srch>>
  BY <1>1 DEF ParentInv, HasParents, Brought, HasSearch
<1>2. CASE Requests
  <2>1. tran = Idle /\ UNCHANGED <<db, wk, srch>>
    BY <1>2, RequestAsked DEF Begin, memory
  <2>2. wk = db
    BY <2>1, TranParts
  <2>3. \A s \in Sids : HasSearch(s)' => wk'.sr[s] # Absent /\ db'.sr[s] # Absent
    BY <2>1, <2>2 DEF ParentInv, HasSearch
  <2>4. HasParents(db') /\ HasParents(wk')
    BY <2>1, <2>2 DEF ParentInv
  <2> QED BY <2>3, <2>4 DEF ParentInv, HasParents
<1>3. CASE Handlers
  BY <1>3, HandlersSearch, ParentPutDone, ParentPutFailed, ParentRemoving
<1>4. CASE Commit
  <2>1. tran.puts = <<>> /\ tran.dels = {} /\ db' = wk /\ wk' = wk /\ tran'.puts = <<>> /\ UNCHANGED srch
    BY <1>4 DEF Commit, memory, Idle
  <2>2. HasParents(wk)
    BY <2>1 DEF ParentInv, HasParents, Brought
  <2> QED BY <2>1, <2>2 DEF ParentInv, HasParents, HasSearch
<1>5. CASE Load
  <2>1. phase = "down" /\ UNCHANGED <<db, wk, tran>>
        /\ \A s \in Sids : srch'[s] = LoadedSearcher(idx', s)
    BY <1>5 DEF Load
  <2>2. tran = Idle /\ wk = db /\ tran.puts = <<>>
    BY <2>1, TranParts
  <2>3. \A s \in Sids : HasSearch(s)' => db.sr[s] # Absent
    BY <2>1 DEF HasSearch, LoadedSearcher
  <2> QED BY <2>1, <2>2, <2>3 DEF ParentInv, HasParents, Brought
<1>6. CASE Crash
  <2>1. (db' = db \/ db' = EmptyStore) /\ wk' = db' /\ tran'.puts = <<>>
        /\ \A s \in Sids : ~ HasSearch(s)'
    BY <1>6 DEF Crash, HasSearch, Idle
  <2>2. HasParents(db')
    BY <1>0, <2>1 DEF ParentInv
  <2> QED BY <2>1, <2>2 DEF ParentInv, HasParents
<1> QED BY <1>1, <1>2, <1>3, <1>4, <1>5, <1>6 DEF Next, LoadFails, Retry, vars, memory

(* No committed schema hangs under an indexer or searcher that is not there,  *)
(* on the store that rolls back and on the one that cannot, whatever handler  *)
(* throws half way: a restart would lose it without an error (it reads the    *)
(* children of what REntry.initCDDListener finds).                            *)
THEOREM SchemasHaveParents == Spec => []NoOrphanSchema
<1> DEFINE Inv == TypeOK /\ RegisteredInv /\ TranInv /\ ParentInv
<1>1. Init => Inv
  BY TypeInit, RegisteredInit, TranInit, ParentInit
<1>2. Inv /\ [Next]_vars => Inv'
  BY TypeStep, RegisteredStep, TranStep, ParentStep DEF RegisteredInv
<1>3. Inv => NoOrphanSchema
  BY DEF ParentInv, HasParents, NoOrphanSchema, Catalogue!NoOrphanSchema
<1> QED BY <1>1, <1>2, <1>3, PTL DEF Spec

------------------------------------------------------------------------------
(* What the managers hold is what the store says.  A put that could register  *)
(* or change anything is the last of its transaction, so that a rollback      *)
(* never has to undo a change in memory.                                      *)
NamesLoad(st) ==
  /\ \A i \in Iids : st.ix[i] # Absent => st.ix[i].ia # Bad /\ st.ix[i].qa # Bad
  /\ \A i \in Iids, f \in Fields : st.is[<<i, f>>] # Bad

SchemasForced(st) ==
  \A i \in Iids, f \in Fields :
    st.is[<<i, f>>] \in Good =>
      IF Registered(i) THEN ctl[idx[i]].fields[f] = st.is[<<i, f>>]
      ELSE IndexSchemaAt(i, f) \in tran.dels

AnalyzersForced(st) ==
  \A i \in Iids :
    st.ix[i] # Absent /\ st.ix[i].qa \in Good => Registered(i) /\ ctl[idx[i]].qa = st.ix[i].qa

(* cs: the controllers, r: a searcher. *)
ServesIn(cs, r, T) ==
  T # {} /\ cs[r.base].iid = First[T] /\ \A c \in {r.base} \cup r.append : cs[c].iid \in T

(* ... that of s. *)
SearchIs(cs, r, st, s) ==
  /\ st.sr[s] # Absent
  /\ \A f \in Fields : st.ss[<<s, f>>] # Absent => r.fields[f] = st.ss[<<s, f>>]
  /\ \E T \in SUBSET Iids : ServesIn(cs, r, T) /\ st.sr[s].target \in {T, {}}

SearchForced(st) == \A s \in Sids : HasSearch(s) => SearchIs(ctl, srch[s], st, s)

NamesInv == NamesLoad(db) /\ NamesLoad(wk)

SchemaForceInv ==
  phase = "up" => SchemasForced(wk) /\ (tran.puts # <<>> => SchemasForced(db))
AnalyzerForceInv ==
  phase = "up" => AnalyzersForced(wk) /\ (tran.puts # <<>> => AnalyzersForced(db))
SearchForceInv == SearchForced(wk) /\ (tran.puts # <<>> => SearchForced(db))

(* A put of anything but a node without properties is the last one, and its   *)
(* indexer or searcher is there.                                              *)
LEMMA LastPut ==
  ASSUME TypeOK, TranInv, tran.puts # <<>>, ~ IsFresh(NextPut)
  PROVE  Tail(tran.puts) = <<>> /\ Parent(wk, NextPut) # Absent
<1> DEFINE n == Len(tran.puts)
<1>1. tran.puts \in Seq(Puts)
  BY NextPutType DEF Tran
<1>2. /\ n \in Nat \ {0} /\ NextPut = tran.puts[1]
      /\ Tail(tran.puts) # <<>> <=> n # 1
  BY <1>1, TailIs DEF NextPut
<1>3. /\ \A m \in 1 .. n - 1 : IsFresh(tran.puts[m])
      /\ Parent(wk, tran.puts[n]) # Absent \/ Brings(tran.puts, n - 1)
  BY <1>2 DEF TranInv, Merges
<1>4. n = 1
  <2>0. \A k \in Nat \ {0} : k # 1 => 1 \in 1 .. k - 1
    OBVIOUS
  <2>1. n # 1 => 1 \in 1 .. n - 1
    BY <1>2, <2>0
  <2>2. 1 \in 1 .. n - 1 => IsFresh(tran.puts[1])
    BY <1>3
  <2> QED BY <1>2, <2>1, <2>2
<1>5. n - 1 = 0
  BY <1>4
<1>6. ~ Brings(tran.puts, 0)
  BY DEF Brings
<1>7. Parent(wk, tran.puts[1]) # Absent
  BY <1>3, <1>4, <1>5, <1>6
<1> QED BY <1>2, <1>4, <1>7

(* The steps of a transaction, in terms of the store and what is left.        *)
LEMMA PutDoneIs ==
  ASSUME TypeOK, RegisteredInv, TranInv, tran.puts # <<>>, PutDone
  PROVE  /\ phase = "up" /\ phase' = "up" /\ NextPut \in Puts
         /\ wk' = Put(wk, NextPut) /\ db' = db /\ tran'.puts = Tail(tran.puts) /\ tran' # Idle
         /\ tran.dels = {} /\ tran'.dels = {}
         /\ ~ IsFresh(NextPut) => tran'.puts = <<>>
         /\ OfIndexer(NextPut) /\ ~ IsFresh(NextPut) => Registered(Owner(NextPut))
<1>1. tran \in Tran /\ NextPut \in Puts /\ tran.dels = {}
  BY NextPutType DEF TranInv
<1>2. phase = "up" /\ phase' = "up"
  BY <1>1, TranParts DEF RegisteredInv, PutDone
<1>3. /\ wk' = Put(wk, NextPut) /\ db' = db
      /\ tran'.puts = Tail(tran.puts) /\ tran'.dels = {} /\ tran'.open = TRUE
  BY <1>1 DEF PutDone, Tran
<1>4. tran' # Idle
  BY <1>3 DEF Idle
<1>5. OfIndexer(NextPut) /\ ~ IsFresh(NextPut) => Registered(Owner(NextPut))
  <2> SUFFICES ASSUME OfIndexer(NextPut), ~ IsFresh(NextPut) PROVE Registered(Owner(NextPut))
    OBVIOUS
  <2>1. wk.ix[Owner(NextPut)] # Absent /\ Owner(NextPut) \in Iids
    BY <1>1, LastPut, PutParts DEF Parent
  <2> QED BY <1>2, <2>1 DEF RegisteredInv, ReadIsRegistered
<1> QED BY <1>1, <1>2, <1>3, <1>4, <1>5, LastPut

LEMMA PutFailedIs ==
  ASSUME TypeOK, RegisteredInv, TranInv, tran.puts # <<>>, PutFailed
  PROVE  /\ phase = "up" /\ phase' = "up" /\ NextPut \in Puts
         /\ wk' = (IF Transactional THEN db ELSE Put(wk, NextPut)) /\ db' = wk'
         /\ tran.dels = {} /\ tran' = Idle /\ tran'.puts = <<>> /\ tran'.dels = {}
<1>1. tran \in Tran /\ NextPut \in Puts /\ tran.dels = {}
  BY NextPutType DEF TranInv
<1>2. phase = "up"
  BY <1>1, TranParts DEF RegisteredInv
<1> QED BY <1>1, <1>2 DEF PutFailed, Idle

LEMMA RemovingIs ==
  ASSUME TypeOK, RegisteredInv, NEW d \in Removes, Removing(d)
  PROVE  /\ phase = "up" /\ phase' = "up" /\ d \in tran.dels
         /\ wk' = Take(wk, d) /\ db' = db /\ tran.puts = <<>> /\ tran'.puts = <<>>
         /\ tran'.dels = tran.dels \ {d}
<1>1. tran \in Tran
  BY TranParts DEF RegisteredInv
<1>2. phase = "up"
  BY <1>1, TranParts DEF RegisteredInv
<1> QED BY <1>1, <1>2 DEF Removing, Tran

(* Every loaded controller is the one of its stored indexer.                  *)
LEMMA LoadIs ==
  ASSUME TypeOK, Load
  PROVE  /\ phase' = "up" /\ UNCHANGED <<db, wk, tran>>
         /\ \A i \in Iids : Registered(i)' <=> db.ix[i] # Absent
         /\ \A i \in Iids : Registered(i)' => ctl'[idx'[i]] = LoadedController(i)
<1>1. /\ ctl' \in Seq(Controller) /\ idx' \in [Iids -> 0 .. Len(ctl')]
      /\ \A i \in Iids : idx'[i] # 0 <=> db.ix[i] # Absent
      /\ \A i \in Iids : idx'[i] # 0 => ctl'[idx'[i]].iid = i
  BY LoadShape
<1>2. \E m \in {Cardinality(StoredIndexers(db))} :
        \E order \in Bijection(1 .. m, StoredIndexers(db)) :
          ctl' = [k \in 1 .. m |-> LoadedController(order[k])]
  BY DEF Load
<1>3. PICK m, order : ctl' = [k \in 1 .. m |-> LoadedController(order[k])]
  BY <1>2
<1>4. ASSUME NEW i \in Iids, idx'[i] # 0 PROVE ctl'[idx'[i]] = LoadedController(i)
  <2>1. idx'[i] \in DOMAIN ctl'
    BY <1>1, <1>4
  <2>2. ctl'[idx'[i]] = LoadedController(order[idx'[i]])
    BY <1>3, <2>1
  <2>3. order[idx'[i]] = i
    BY <1>1, <1>4, <2>2 DEF LoadedController
  <2> QED BY <2>2, <2>3
<1> QED BY <1>1, <1>4 DEF Load, Registered
------------------------------------------------------------------------------
(* No name reaches the store that a start could not load.                     *)

LEMMA DoneIsLoadable ==
  ASSUME TypeOK, RegisteredInv, TranInv, Handlers, tran.puts # <<>>, PutDone
  PROVE  /\ NextPut.at = "ix" => NextPut.val.ia # Bad /\ NextPut.val.qa # Bad
         /\ NextPut.at = "is" => NextPut.val # Bad
<1>1. /\ NextPut \in Puts /\ tran' # Idle
      /\ OfIndexer(NextPut) /\ ~ IsFresh(NextPut) => Registered(Owner(NextPut))
  BY PutDoneIs
<1>2. ~ PutFailed
  BY <1>1 DEF PutFailed
<1>3. ASSUME NEW d, Removing(d) PROVE FALSE
  BY <1>3 DEF Removing
<1>4. NoIndexerProps.ia = Null /\ NoIndexerProps.qa = Null /\ Null # Bad /\ Empty # Bad
  BY NamesDistinct DEF NoIndexerProps
<1>5. CASE IndexerCreated
  <2>1. NextPut.at = "ix" /\ ~ Registered(NextPut.key)
    BY <1>5 DEF IndexerCreated, PutsAt, NextPut
  <2>2. NextPut.val = NoIndexerProps
    BY <1>1, <2>1 DEF OfIndexer, Owner, IsFresh
  <2> QED BY <1>4, <2>1, <2>2
<1>6. CASE IndexerModified
  <2>1. NextPut.at = "ix" /\ \E ia, qa : /\ Chosen(NextPut.val.ia, ia) # Bad
                                         /\ Chosen(NextPut.val.qa, qa) # Bad
    BY <1>2, <1>6 DEF IndexerModified, PutsAt, NextPut
  <2>2. Bad \notin {Null, Blank}
    BY NamesDistinct
  <2> QED BY <2>1, <2>2 DEF Chosen
<1>7. CASE IndexSchemaModified
  <2>1. NextPut.at = "is"
    BY <1>7 DEF IndexSchemaModified, PutsAt, NextPut
  <2>2. Owner(NextPut) = NextPut.key[1] /\ OfIndexer(NextPut)
    BY <2>1 DEF Owner, OfIndexer
  <2>3. NextPut.val # Bad \/ ~ Registered(NextPut.key[1])
    BY <1>2, <1>7 DEF IndexSchemaModified, IsManual, Names
  <2>4. IsFresh(NextPut) => NextPut.val = Empty
    BY <2>1 DEF IsFresh
  <2> QED BY <1>1, <1>4, <2>1, <2>2, <2>3, <2>4
<1>8. CASE SearcherModified \/ SearchSchemaModified
  BY <1>8 DEF SearcherModified, SearchSchemaModified, PutsAt, NextPut
<1> QED BY <1>3, <1>5, <1>6, <1>7, <1>8
        DEF Handlers, IndexerDeleted, IndexSchemaDeleted, SearcherDeleted, SearchSchemaDeleted

LEMMA NamesStep ==
  ASSUME Transactional, TypeOK, RegisteredInv, TranInv, NamesInv, [Next]_vars
  PROVE  NamesInv'
<1>s. wk \in Store /\ db \in Store
  BY DEF TypeOK
<1>1. CASE wk' \in {wk, db} /\ db' \in {wk, db}
  BY <1>1 DEF NamesInv, NamesLoad
<1>2. ASSUME Handlers, tran.puts # <<>>, PutDone PROVE NamesInv'
  <2>1. NextPut \in Puts /\ wk' = Put(wk, NextPut) /\ db' = db
    BY <1>2, PutDoneIs
  <2>2. \A i \in Iids : wk'.ix[i] = wk.ix[i] \/ (wk'.ix[i].ia # Bad /\ wk'.ix[i].qa # Bad)
    BY <1>2, <1>s, <2>1, PutIs, DoneIsLoadable
  <2>3. \A k \in Iids \X Fields : wk'.is[k] = wk.is[k] \/ wk'.is[k] # Bad
    BY <1>2, <1>s, <2>1, PutIs, DoneIsLoadable
  <2>4. \A i \in Iids, f \in Fields : wk'.is[<<i, f>>] # Bad
    BY <2>3 DEF NamesInv, NamesLoad
  <2> QED BY <2>1, <2>2, <2>4 DEF NamesInv, NamesLoad
<1>3. ASSUME NEW d \in Removes, Removing(d) PROVE NamesInv'
  <2>1. wk' = Take(wk, d) /\ db' = db
    BY <1>3, RemovingIs
  <2>2. \A i \in Iids : wk'.ix[i] = wk.ix[i] \/ wk'.ix[i] = Absent
    BY <1>s, <2>1, TakeIs
  <2>3. \A k \in Iids \X Fields : wk'.is[k] = wk.is[k] \/ wk'.is[k] # Bad
    BY <1>s, <2>1, TakeIs, NamesDistinct
  <2>4. \A i \in Iids, f \in Fields : wk'.is[<<i, f>>] # Bad
    BY <2>3 DEF NamesInv, NamesLoad
  <2> QED BY <2>1, <2>2, <2>4 DEF NamesInv, NamesLoad
<1>4. ASSUME tran.puts # <<>>, PutFailed PROVE NamesInv'
  BY <1>1, <1>4, PutFailedIs
<1>5. CASE Handlers
  BY <1>2, <1>3, <1>4, <1>5, HandlersAre
<1>6. CASE Requests
  BY <1>1, <1>6, RequestAsked DEF Begin
<1> QED BY <1>1, <1>5, <1>6 DEF Next, Commit, Load, LoadFails, Crash, Retry, vars

(* On the store that rolls back no class name is committed that a start could *)
(* not load: the handler of IndexManager that rejects it takes its put with   *)
(* it, and a put without a controller to reject it has no name.               *)
THEOREM CommittedNamesAreLoadable == Transactional => (Spec => []CommittedNamesLoad)
<1> SUFFICES ASSUME Transactional PROVE Spec => []CommittedNamesLoad
  OBVIOUS
<1> DEFINE Inv == TypeOK /\ RegisteredInv /\ TranInv /\ NamesInv
<1>1. Init => NamesInv
  <2>1. /\ \A i \in Iids : EmptyStore.ix[i] = Absent
        /\ \A k \in Iids \X Fields : EmptyStore.is[k] = Absent
    BY DEF EmptyStore
  <2>2. Absent # Bad /\ \A i \in Iids, f \in Fields : EmptyStore.is[<<i, f>>] = Absent
    BY <2>1, NamesDistinct
  <2> QED BY <2>1, <2>2 DEF Init, NamesInv, NamesLoad
<1>2. Init => Inv
  BY <1>1, TypeInit, RegisteredInit, TranInit
<1>3. Inv /\ [Next]_vars => Inv'
  BY TypeStep, RegisteredStep, TranStep, NamesStep DEF RegisteredInv
<1>4. Inv => CommittedNamesLoad
  BY DEF NamesInv, NamesLoad, CommittedNamesLoad, StoredIndexers
<1> QED BY <1>2, <1>3, <1>4, PTL DEF Spec

------------------------------------------------------------------------------
(* What the handlers of the indexers leave of the controllers.                *)
EditsOnly(e) == /\ DOMAIN ctl' = DOMAIN ctl
                /\ \A c \in DOMAIN ctl : ctl'[c].iid = ctl[c].iid /\ (c # e => ctl'[c] = ctl[c])

SetsAnalyzer(e, ia)      == ctl' = [ctl EXCEPT ![e].ia = ia]
SetsAnalyzers(e, ia, qa) == ctl' = [ctl EXCEPT ![e].ia = ia, ![e].qa = qa]
Closes(e)                == ctl' = [ctl EXCEPT ![e].open = FALSE]
SetsField(e, f, v)       == ctl' = [ctl EXCEPT ![e].fields[f] = v]

LEMMA Edits ==
  ASSUME TypeOK, NEW e \in DOMAIN ctl
  PROVE  /\ \A ia : SetsAnalyzer(e, ia) =>
              EditsOnly(e) /\ ctl'[e].qa = ctl[e].qa /\ ctl'[e].fields = ctl[e].fields
         /\ \A ia, qa : SetsAnalyzers(e, ia, qa) =>
              EditsOnly(e) /\ ctl'[e].qa = qa /\ ctl'[e].fields = ctl[e].fields
         /\ Closes(e) =>
              EditsOnly(e) /\ ctl'[e].qa = ctl[e].qa /\ ctl'[e].fields = ctl[e].fields
         /\ \A g, v : SetsField(e, g, v) =>
              /\ EditsOnly(e) /\ ctl'[e].qa = ctl[e].qa
              /\ \A f \in Fields : ctl'[e].fields[f] = IF f = g THEN v ELSE ctl[e].fields[f]
<1>1. ctl \in Seq(Controller) /\ ctl[e] \in Controller
  BY DEF TypeOK
<1>2. ASSUME NEW ia, SetsAnalyzer(e, ia)
      PROVE  EditsOnly(e) /\ ctl'[e].qa = ctl[e].qa /\ ctl'[e].fields = ctl[e].fields
  BY <1>1, <1>2 DEF Controller, EditsOnly, SetsAnalyzer
<1>3. ASSUME NEW ia, NEW qa, SetsAnalyzers(e, ia, qa)
      PROVE  EditsOnly(e) /\ ctl'[e].qa = qa /\ ctl'[e].fields = ctl[e].fields
  BY <1>1, <1>3 DEF Controller, EditsOnly, SetsAnalyzers
<1>4. ASSUME Closes(e)
      PROVE  EditsOnly(e) /\ ctl'[e].qa = ctl[e].qa /\ ctl'[e].fields = ctl[e].fields
  BY <1>1, <1>4 DEF Controller, EditsOnly, Closes
<1>5. ASSUME NEW g, NEW v, SetsField(e, g, v)
      PROVE  /\ EditsOnly(e) /\ ctl'[e].qa = ctl[e].qa
             /\ \A f \in Fields : ctl'[e].fields[f] = IF f = g THEN v ELSE ctl[e].fields[f]
  BY <1>1, <1>5 DEF Controller, EditsOnly, SetsField
<1> QED BY <1>2, <1>3, <1>4, <1>5
------------------------------------------------------------------------------
(* The analyzers of the indexers' schemas.                                    *)

LEMMA SchemaPutDone ==
  ASSUME TypeOK, RegisteredInv, TranInv, SchemaForceInv, tran.puts # <<>>, PutDone,
         \A i \in Iids : Registered(i) => Registered(i)',
         \A i \in Iids, f \in Fields : Registered(i) =>
           \/ ctl'[idx'[i]].fields[f] = ctl[idx[i]].fields[f]
           \/ NextPut.at = "is" /\ NextPut.key = <<i, f>> /\ ~ IsFresh(NextPut),
         NextPut.at = "is" /\ NextPut.val \in Good =>
           \A i \in Iids, f \in Fields :
             NextPut.key = <<i, f>> => ctl'[idx'[i]].fields[f] = NextPut.val
  PROVE  SchemaForceInv'
<1>1. /\ phase = "up" /\ NextPut \in Puts /\ wk \in Store
      /\ wk' = Put(wk, NextPut) /\ db' = db /\ tran.dels = {} /\ tran'.dels = {}
      /\ ~ IsFresh(NextPut) => tran'.puts = <<>>
      /\ OfIndexer(NextPut) /\ ~ IsFresh(NextPut) => Registered(Owner(NextPut))
  BY PutDoneIs DEF TypeOK
<1>2. SchemasForced(wk) /\ SchemasForced(db)
  BY <1>1 DEF SchemaForceInv
<1>3. ASSUME NEW i \in Iids, NEW f \in Fields, wk'.is[<<i, f>>] \in Good
      PROVE  Registered(i)' /\ ctl'[idx'[i]].fields[f] = wk'.is[<<i, f>>]
  <2>1. CASE NextPut.at = "is" /\ NextPut.key = <<i, f>>
    <3>1. wk'.is[<<i, f>>] = NextPut.val
      BY <1>1, <2>1, PutIs
    <3>2. OfIndexer(NextPut) /\ Owner(NextPut) = i
      BY <2>1 DEF OfIndexer, Owner
    <3>3. ~ IsFresh(NextPut)
      BY <1>3, <2>1, <3>1, NamesDistinct DEF IsFresh
    <3>4. Registered(i)
      BY <1>1, <3>2, <3>3
    <3> QED BY <1>3, <2>1, <3>1, <3>4
  <2>2. CASE ~ (NextPut.at = "is" /\ NextPut.key = <<i, f>>)
    <3>1. wk'.is[<<i, f>>] = wk.is[<<i, f>>]
      BY <1>1, <2>2, PutIs
    <3>2. Registered(i) /\ ctl[idx[i]].fields[f] = wk.is[<<i, f>>]
      BY <1>1, <1>2, <1>3, <3>1 DEF SchemasForced
    <3> QED BY <2>2, <3>1, <3>2
  <2> QED BY <2>1, <2>2
<1>4. ASSUME tran'.puts # <<>>, NEW i \in Iids, NEW f \in Fields, db.is[<<i, f>>] \in Good
      PROVE  Registered(i)' /\ ctl'[idx'[i]].fields[f] = db.is[<<i, f>>]
  <2>1. IsFresh(NextPut)
    BY <1>1, <1>4
  <2>2. Registered(i) /\ ctl[idx[i]].fields[f] = db.is[<<i, f>>]
    BY <1>1, <1>2, <1>4 DEF SchemasForced
  <2> QED BY <2>1, <2>2
<1> QED BY <1>1, <1>3, <1>4 DEF SchemaForceInv, SchemasForced

LEMMA SchemaPutFailed ==
  ASSUME TypeOK, RegisteredInv, TranInv, SchemaForceInv, tran.puts # <<>>, PutFailed, idx' = idx,
         NextPut.at = "is" => NextPut.val \notin Good,
         \A i \in Iids, f \in Fields : Registered(i) => ctl'[idx[i]].fields[f] = ctl[idx[i]].fields[f]
  PROVE  SchemaForceInv'
<1>1. /\ phase = "up" /\ NextPut \in Puts /\ wk \in Store
      /\ wk' = (IF Transactional THEN db ELSE Put(wk, NextPut))
      /\ tran.dels = {} /\ tran'.puts = <<>>
  BY PutFailedIs DEF TypeOK
<1>2. SchemasForced(wk) /\ SchemasForced(db)
  BY <1>1 DEF SchemaForceInv
<1>3. ASSUME NEW i \in Iids, NEW f \in Fields, wk'.is[<<i, f>>] \in Good
      PROVE  Registered(i)' /\ ctl'[idx'[i]].fields[f] = wk'.is[<<i, f>>]
  <2>1. wk'.is[<<i, f>>] \in {db.is[<<i, f>>], wk.is[<<i, f>>]}
    BY <1>1, <1>3, PutIs
  <2>2. Registered(i) /\ ctl[idx[i]].fields[f] = wk'.is[<<i, f>>]
    BY <1>1, <1>2, <1>3, <2>1 DEF SchemasForced
  <2> QED BY <2>2 DEF Registered
<1> QED BY <1>1, <1>3 DEF SchemaForceInv, SchemasForced

LEMMA SchemaRemoving ==
  ASSUME TypeOK, RegisteredInv, TranInv, SchemaForceInv, NEW d \in Removes, Removing(d),
         \A i \in Iids : idx'[i] = idx[i] \/ (idx'[i] = 0 /\ d = [at |-> "ix", key |-> i]),
         \A i \in Iids, f \in Fields : Registered(i) =>
           ctl'[idx[i]].fields[f] = ctl[idx[i]].fields[f] \/ d = IndexSchemaAt(i, f)
  PROVE  SchemaForceInv'
<1>1. /\ phase = "up" /\ wk \in Store /\ d \in tran.dels
      /\ wk' = Take(wk, d) /\ tran'.puts = <<>> /\ tran'.dels = tran.dels \ {d}
  BY RemovingIs DEF TypeOK
<1>2. ASSUME NEW i \in Iids, NEW f \in Fields, wk'.is[<<i, f>>] \in Good
      PROVE  IF idx'[i] # 0 THEN ctl'[idx'[i]].fields[f] = wk'.is[<<i, f>>]
             ELSE IndexSchemaAt(i, f) \in tran'.dels
  <2>1. d # IndexSchemaAt(i, f) /\ wk'.is[<<i, f>>] = wk.is[<<i, f>>]
    BY <1>1, <1>2, TakeIs, NamesDistinct DEF IndexSchemaAt
  <2>2. IF Registered(i) THEN ctl[idx[i]].fields[f] = wk.is[<<i, f>>]
        ELSE IndexSchemaAt(i, f) \in tran.dels
    BY <1>1, <1>2, <2>1 DEF SchemaForceInv, SchemasForced
  <2>3. CASE idx'[i] = idx[i]
    BY <1>1, <2>1, <2>2, <2>3 DEF Registered
  <2>4. CASE idx'[i] = 0 /\ d = [at |-> "ix", key |-> i]
    <3>1. wk.is[<<i, f>>] # Absent
      BY <1>2, <2>1, NamesDistinct
    <3>2. IndexSchemaAt(i, f) \in tran.dels
      BY <1>1, <2>4, <3>1 DEF TranInv, TakesTrees
    <3> QED BY <1>1, <2>1, <2>4, <3>2
  <2> QED BY <2>3, <2>4
<1> QED BY <1>1, <1>2 DEF SchemaForceInv, SchemasForced, Registered

LEMMA SchemaHandlers ==
  ASSUME TypeOK, ControllerInv, RegisteredInv, TranInv, SchemaForceInv, Handlers
  PROVE  SchemaForceInv'
<1>0. /\ ctl \in Seq(Controller) /\ idx \in [Iids -> 0 .. Len(ctl)]
      /\ \A i \in Iids : Registered(i) => idx[i] \in DOMAIN ctl /\ ctl[idx[i]].iid = i
  BY DEF TypeOK, Registered, ControllerInv, Owned
<1>p. ASSUME NEW at, PutsAt(at) PROVE tran.puts # <<>> /\ NextPut \in Puts /\ NextPut.at = at
  BY <1>p, NextPutType DEF PutsAt, NextPut
<1>s. ASSUME UNCHANGED <<ctl, idx>>, NextPut.at \in {"sr", "ss"}, tran.puts # <<>>, PutDone \/ PutFailed
      PROVE  SchemaForceInv'
  BY <1>s, SchemaPutDone, SchemaPutFailed DEF Registered
<1>1. CASE IndexerCreated
  <2>1. /\ tran.puts # <<>> /\ NextPut \in Puts /\ NextPut.at = "ix" /\ NextPut.key \in Iids
        /\ ~ Registered(NextPut.key) /\ PutDone
        /\ ctl' = Append(ctl, NewController(NextPut.key))
        /\ idx' = [idx EXCEPT ![NextPut.key] = Len(ctl) + 1]
    BY <1>1, <1>p, PutParts DEF IndexerCreated
  <2>2. \A i \in Iids : Registered(i) => idx'[i] = idx[i]
    BY <1>0, <2>1
  <2>3. \A c \in DOMAIN ctl : ctl'[c] = ctl[c]
    BY <1>0, <2>1
  <2> QED BY <1>0, <2>1, <2>2, <2>3, SchemaPutDone DEF Registered
<1>2. CASE IndexerModified
  <2>1. /\ tran.puts # <<>> /\ NextPut \in Puts /\ NextPut.at = "ix" /\ NextPut.key \in Iids
        /\ idx' = idx
    BY <1>2, <1>p, PutParts DEF IndexerModified
  <2>2. PutDone \/ PutFailed
    BY <1>2 DEF IndexerModified
  <2>3. \A c \in DOMAIN ctl : ctl'[c].fields = ctl[c].fields
    <3>1. idx[NextPut.key] \in DOMAIN ctl
      BY <1>0, <1>2, <2>1 DEF IndexerModified
    <3> DEFINE e == idx[NextPut.key]
    <3>2. \/ UNCHANGED ctl
          \/ \E ia, qa : SetsAnalyzer(e, ia) \/ SetsAnalyzers(e, ia, qa)
      BY <1>2 DEF IndexerModified, SetsAnalyzer, SetsAnalyzers
    <3> HIDE DEF e
    <3>3. e \in DOMAIN ctl
      BY <3>1 DEF e
    <3>4. UNCHANGED ctl \/ (EditsOnly(e) /\ ctl'[e].fields = ctl[e].fields)
      BY <3>2, <3>3, Edits
    <3> QED BY <3>4 DEF EditsOnly
  <2> QED BY <1>0, <2>1, <2>2, <2>3, SchemaPutDone, SchemaPutFailed DEF Registered
<1>3. CASE IndexSchemaModified
  <2> DEFINE k == NextPut.key[1]
             g == NextPut.key[2]
             v == NextPut.val
  <2>1. /\ tran.puts # <<>> /\ NextPut \in Puts /\ NextPut.at = "is"
        /\ NextPut.key \in Iids \X Fields /\ idx' = idx
    BY <1>3, <1>p, PutParts DEF IndexSchemaModified
  <2>2. k \in Iids /\ g \in Fields /\ NextPut.key = <<k, g>> /\ Owner(NextPut) = k /\ OfIndexer(NextPut)
    BY <2>1 DEF Owner, OfIndexer
  <2>3. IsFresh(NextPut) <=> v = Empty
    BY <2>1 DEF IsFresh
  <2>4. CASE ~ (Registered(k) /\ IsManual(v)) /\ PutDone /\ UNCHANGED ctl
    <3>1. v \notin Good
      BY <2>1, <2>2, <2>3, <2>4, PutDoneIs, NamesDistinct DEF IsManual, Names
    <3> QED BY <2>1, <2>4, <3>1, SchemaPutDone DEF Registered
  <2>5. CASE Registered(k) /\ v = Bad /\ PutFailed /\ UNCHANGED ctl
    BY <2>1, <2>5, SchemaPutFailed, NamesDistinct DEF Registered
  <2>6. CASE /\ Registered(k) /\ IsManual(v) /\ v # Bad /\ PutDone
             /\ SetsField(idx[k], g, v)
    <3>1. v # Empty
      BY <2>6, NamesDistinct DEF IsManual, Names
    <3>2. \A c \in DOMAIN ctl, f \in Fields :
            ctl'[c].fields[f] = IF c = idx[k] /\ f = g THEN v ELSE ctl[c].fields[f]
      <4>1. idx[k] \in DOMAIN ctl
        BY <1>0, <2>2, <2>6
      <4>2. EditsOnly(idx[k]) /\ \A f \in Fields :
              ctl'[idx[k]].fields[f] = IF f = g THEN v ELSE ctl[idx[k]].fields[f]
        BY <2>6, <4>1, Edits
      <4> QED BY <4>2 DEF EditsOnly
    <3>3. \A i \in Iids : Registered(i) /\ idx[i] = idx[k] => i = k
      BY <1>0, <2>2, <2>6
    <3> HIDE DEF k, g, v
    <3>4. ASSUME NEW i \in Iids, NEW f \in Fields, Registered(i)
          PROVE  \/ ctl'[idx'[i]].fields[f] = ctl[idx[i]].fields[f]
                 \/ NextPut.at = "is" /\ NextPut.key = <<i, f>> /\ ~ IsFresh(NextPut)
      BY <1>0, <2>1, <2>2, <2>3, <3>1, <3>2, <3>3, <3>4
    <3>5. ASSUME NEW i \in Iids, NEW f \in Fields, NextPut.key = <<i, f>>
          PROVE  ctl'[idx'[i]].fields[f] = NextPut.val
      <4>1. i = k /\ f = g
        BY <2>2, <3>5
      <4> QED BY <1>0, <2>1, <2>2, <2>6, <3>2, <4>1 DEF v
    <3> QED BY <2>1, <2>6, <3>4, <3>5, SchemaPutDone DEF Registered
  <2> QED BY <1>3, <2>4, <2>5, <2>6 DEF IndexSchemaModified, SetsField
<1>4. CASE SearcherModified \/ SearchSchemaModified
  BY <1>4, <1>p, <1>s DEF SearcherModified, SearchSchemaModified
<1>5. CASE IndexerDeleted
  <2>1. PICK k \in Iids :
          /\ Removing([at |-> "ix", key |-> k])
          /\ IF Registered(k) THEN Closes(idx[k]) ELSE UNCHANGED ctl
          /\ idx' = [idx EXCEPT ![k] = 0]
    BY <1>5 DEF IndexerDeleted, Closes
  <2>2. [at |-> "ix", key |-> k] \in Removes
    BY CellParts
  <2>3. \A i \in Iids : idx'[i] = idx[i] \/ (idx'[i] = 0 /\ i = k)
    BY <1>0, <2>1
  <2>4. \A c \in DOMAIN ctl : ctl'[c].fields = ctl[c].fields
    BY <1>0, <2>1, Edits DEF EditsOnly
  <2> QED BY <1>0, <2>1, <2>2, <2>3, <2>4, SchemaRemoving
<1>6. CASE IndexSchemaDeleted
  <2>1. PICK k \in Iids, g \in Fields :
          /\ Removing(IndexSchemaAt(k, g)) /\ UNCHANGED idx
          /\ IF Registered(k) THEN SetsField(idx[k], g, Null) ELSE UNCHANGED ctl
    BY <1>6 DEF IndexSchemaDeleted, IndexSchemaAt, SetsField
  <2>2. IndexSchemaAt(k, g) \in Removes
    BY CellParts DEF IndexSchemaAt
  <2>3. ASSUME NEW i \in Iids, NEW f \in Fields, Registered(i), ~ (i = k /\ f = g)
        PROVE  ctl'[idx[i]].fields[f] = ctl[idx[i]].fields[f]
    <3>1. Registered(k) => idx[k] \in DOMAIN ctl /\ (idx[i] = idx[k] => i = k)
      BY <1>0, <2>3
    <3>2. ASSUME Registered(k)
          PROVE  EditsOnly(idx[k]) /\ \A h \in Fields :
                   ctl'[idx[k]].fields[h] = IF h = g THEN Null ELSE ctl[idx[k]].fields[h]
      BY <2>1, <3>1, <3>2, Edits
    <3> QED BY <1>0, <2>1, <2>3, <3>1, <3>2 DEF EditsOnly
  <2> QED BY <2>1, <2>2, <2>3, SchemaRemoving
<1>7. CASE SearcherDeleted \/ SearchSchemaDeleted
  <2>1. PICK d \in Removes : Removing(d) /\ UNCHANGED <<ctl, idx>>
    BY <1>7, CellParts DEF SearcherDeleted, SearchSchemaDeleted
  <2> QED BY <2>1, SchemaRemoving
<1> QED BY <1>1, <1>2, <1>3, <1>4, <1>5, <1>6, <1>7 DEF Handlers

LEMMA SchemaForceStep ==
  ASSUME TypeOK, TypeOK', ControllerInv, RegisteredInv, TranInv, ParentInv, SchemaForceInv, [Next]_vars
  PROVE  SchemaForceInv'
<1>1. CASE phase' # "up"
  BY <1>1 DEF SchemaForceInv
<1>2. CASE UNCHANGED <<phase, tran, db, wk, ctl, idx>>
  BY <1>2 DEF SchemaForceInv, SchemasForced, Registered
<1>3. CASE Requests
  <2>1. phase = "up" /\ tran = Idle /\ UNCHANGED <<phase, db, wk, ctl, idx>>
    BY <1>3, RequestAsked DEF Begin, memory
  <2>2. wk = db /\ tran.dels = {}
    BY <2>1, TranParts DEF RegisteredInv
  <2>3. \A i \in Iids, f \in Fields :
          wk.is[<<i, f>>] \in Good => Registered(i) /\ ctl[idx[i]].fields[f] = wk.is[<<i, f>>]
    BY <2>1, <2>2 DEF SchemaForceInv, SchemasForced
  <2> QED BY <2>1, <2>2, <2>3 DEF SchemaForceInv, SchemasForced, Registered
<1>4. CASE Handlers
  BY <1>4, SchemaHandlers
<1>5. CASE Commit
  <2>1. /\ phase = "up" /\ tran.dels = {} /\ tran'.puts = <<>> /\ tran'.dels = {}
        /\ UNCHANGED <<phase, wk, ctl, idx>>
    BY <1>5, TranParts DEF RegisteredInv, Commit, memory, Idle
  <2> QED BY <2>1 DEF SchemaForceInv, SchemasForced, Registered
<1>6. CASE Load
  <2>1. /\ UNCHANGED <<db, wk, tran>> /\ wk = db /\ tran.puts = <<>> /\ tran.dels = {}
        /\ \A i \in Iids : Registered(i)' <=> db.ix[i] # Absent
        /\ \A i \in Iids : Registered(i)' => ctl'[idx'[i]] = LoadedController(i)
    BY <1>6, LoadIs, TranParts DEF RegisteredInv, IdleIsCommitted, Load
  <2>2. ASSUME NEW i \in Iids, NEW f \in Fields, db.is[<<i, f>>] \in Good
        PROVE  Registered(i)' /\ ctl'[idx'[i]].fields[f] = db.is[<<i, f>>]
    <3>1. db.is[<<i, f>>] # Absent
      BY <2>2, NamesDistinct
    <3>2. db.ix[i] # Absent
      BY <3>1 DEF ParentInv, HasParents
    <3>3. LoadedController(i).fields[f] = db.is[<<i, f>>]
      BY <2>2 DEF LoadedController, IsManual, Names
    <3> QED BY <2>1, <3>2, <3>3
  <2> QED BY <2>1, <2>2 DEF SchemaForceInv, SchemasForced
<1> QED BY <1>1, <1>2, <1>3, <1>4, <1>5, <1>6 DEF Next, LoadFails, Crash, Retry, vars

(* An analyzer that a manual schema of an indexer names is the one in force   *)
(* in the indexer's controller, whatever was removed, re-created, refused or  *)
(* reloaded in between (IndexManager's handlers and REntry.initCDDListener).  *)
THEOREM SchemasAreInForce == Spec => []ManualSchemaInForce
<1> DEFINE Inv == /\ TypeOK /\ ControllerInv /\ RegisteredInv /\ TranInv /\ ParentInv
                  /\ SchemaForceInv
<1>1. Init => SchemaForceInv
  BY DEF Init, SchemaForceInv
<1>2. Init => Inv
  BY <1>1, TypeInit, ControllerInit, RegisteredInit, TranInit, ParentInit
<1>3. Inv /\ [Next]_vars => Inv'
  <2> SUFFICES ASSUME Inv, [Next]_vars PROVE Inv'
    OBVIOUS
  <2>1. TypeOK' /\ ControllerInv' /\ RegisteredInv'
    BY TypeStep, ControllerStep, RegisteredStep
  <2>2. TranInv' /\ ParentInv' /\ SchemaForceInv'
    BY <2>1, TranStep, ParentStep, SchemaForceStep DEF RegisteredInv
  <2> QED BY <2>1, <2>2
<1>4. Inv => ManualSchemaInForce
  <2> SUFFICES ASSUME Inv, Quiet, NEW i \in Iids, NEW f \in Fields, db.is[<<i, f>>] \in Good
               PROVE  ctl[idx[i]].fields[f] = db.is[<<i, f>>]
    BY DEF ManualSchemaInForce
  <2>1. phase = "up" /\ wk = db /\ tran.dels = {}
    BY TranParts DEF Quiet, RegisteredInv
  <2> QED BY <2>1 DEF SchemaForceInv, SchemasForced
<1> QED BY <1>2, <1>3, <1>4, PTL DEF Spec
------------------------------------------------------------------------------
(* The query analyzers of the indexers.                                       *)

LEMMA AnalyzerPutDone ==
  ASSUME TypeOK, RegisteredInv, TranInv, AnalyzerForceInv, tran.puts # <<>>, PutDone,
         \A i \in Iids : Registered(i) => Registered(i)',
         \A i \in Iids : Registered(i) =>
           \/ ctl'[idx'[i]].qa = ctl[idx[i]].qa
           \/ NextPut.at = "ix" /\ NextPut.key = i /\ ~ IsFresh(NextPut),
         NextPut.at = "ix" /\ NextPut.val.qa \in Good /\ Registered(NextPut.key) =>
           ctl'[idx'[NextPut.key]].qa = NextPut.val.qa
  PROVE  AnalyzerForceInv'
<1>1. /\ phase = "up" /\ NextPut \in Puts /\ wk \in Store
      /\ wk' = Put(wk, NextPut) /\ db' = db
      /\ ~ IsFresh(NextPut) => tran'.puts = <<>>
      /\ OfIndexer(NextPut) /\ ~ IsFresh(NextPut) => Registered(Owner(NextPut))
  BY PutDoneIs DEF TypeOK
<1>2. AnalyzersForced(wk) /\ AnalyzersForced(db)
  BY <1>1 DEF AnalyzerForceInv
<1>3. ASSUME NEW i \in Iids, wk'.ix[i] # Absent, wk'.ix[i].qa \in Good
      PROVE  Registered(i)' /\ ctl'[idx'[i]].qa = wk'.ix[i].qa
  <2>1. CASE NextPut.at = "ix" /\ NextPut.key = i
    <3>1. wk'.ix[i] = NextPut.val
      BY <1>1, <2>1, PutIs
    <3>2. OfIndexer(NextPut) /\ Owner(NextPut) = i
      BY <2>1 DEF OfIndexer, Owner
    <3>3. ~ IsFresh(NextPut)
      BY <1>3, <2>1, <3>1, NamesDistinct DEF IsFresh, NoIndexerProps
    <3>4. Registered(i)
      BY <1>1, <3>2, <3>3
    <3> QED BY <1>3, <2>1, <3>1, <3>4
  <2>2. CASE ~ (NextPut.at = "ix" /\ NextPut.key = i)
    <3>1. wk'.ix[i] = wk.ix[i]
      BY <1>1, <2>2, PutIs
    <3>2. Registered(i) /\ ctl[idx[i]].qa = wk.ix[i].qa
      BY <1>2, <1>3, <3>1 DEF AnalyzersForced
    <3> QED BY <2>2, <3>1, <3>2
  <2> QED BY <2>1, <2>2
<1>4. ASSUME tran'.puts # <<>>, NEW i \in Iids, db.ix[i] # Absent, db.ix[i].qa \in Good
      PROVE  Registered(i)' /\ ctl'[idx'[i]].qa = db.ix[i].qa
  <2>1. IsFresh(NextPut)
    BY <1>1, <1>4
  <2>2. Registered(i) /\ ctl[idx[i]].qa = db.ix[i].qa
    BY <1>2, <1>4 DEF AnalyzersForced
  <2> QED BY <2>1, <2>2
<1> QED BY <1>1, <1>3, <1>4 DEF AnalyzerForceInv, AnalyzersForced

LEMMA AnalyzerPutFailed ==
  ASSUME Transactional, TypeOK, RegisteredInv, TranInv, AnalyzerForceInv, tran.puts # <<>>, PutFailed,
         idx' = idx, \A i \in Iids : Registered(i) => ctl'[idx[i]].qa = ctl[idx[i]].qa
  PROVE  AnalyzerForceInv'
<1>1. phase = "up" /\ wk' = db /\ tran'.puts = <<>>
  BY PutFailedIs
<1> QED BY <1>1 DEF AnalyzerForceInv, AnalyzersForced, Registered

LEMMA AnalyzerRemoving ==
  ASSUME TypeOK, RegisteredInv, AnalyzerForceInv, NEW d \in Removes, Removing(d),
         \A i \in Iids : idx'[i] = idx[i] \/ d = [at |-> "ix", key |-> i],
         \A i \in Iids : Registered(i) => ctl'[idx[i]].qa = ctl[idx[i]].qa
  PROVE  AnalyzerForceInv'
<1>1. phase = "up" /\ wk \in Store /\ wk' = Take(wk, d) /\ tran'.puts = <<>>
  BY RemovingIs DEF TypeOK
<1>2. ASSUME NEW i \in Iids, wk'.ix[i] # Absent, wk'.ix[i].qa \in Good
      PROVE  Registered(i)' /\ ctl'[idx'[i]].qa = wk'.ix[i].qa
  <2>1. d # [at |-> "ix", key |-> i] /\ wk'.ix[i] = wk.ix[i]
    BY <1>1, <1>2, TakeIs
  <2>2. Registered(i) /\ ctl[idx[i]].qa = wk.ix[i].qa
    BY <1>1, <1>2, <2>1 DEF AnalyzerForceInv, AnalyzersForced
  <2> QED BY <2>1, <2>2 DEF Registered
<1> QED BY <1>1, <1>2 DEF AnalyzerForceInv, AnalyzersForced

LEMMA AnalyzerHandlers ==
  ASSUME Transactional, TypeOK, ControllerInv, RegisteredInv, TranInv, AnalyzerForceInv, Handlers
  PROVE  AnalyzerForceInv'
<1>0. /\ ctl \in Seq(Controller) /\ idx \in [Iids -> 0 .. Len(ctl)]
      /\ \A i \in Iids : Registered(i) => idx[i] \in DOMAIN ctl /\ ctl[idx[i]].iid = i
  BY DEF TypeOK, Registered, ControllerInv, Owned
<1>p. ASSUME NEW at, PutsAt(at) PROVE tran.puts # <<>> /\ NextPut \in Puts /\ NextPut.at = at
  BY <1>p, NextPutType DEF PutsAt, NextPut
<1>s. ASSUME idx' = idx, \A c \in DOMAIN ctl : ctl'[c].qa = ctl[c].qa, tran.puts # <<>>,
             (PutDone /\ NextPut.at # "ix") \/ PutFailed
      PROVE  AnalyzerForceInv'
  BY <1>0, <1>s, AnalyzerPutDone, AnalyzerPutFailed DEF Registered
<1>1. CASE IndexerCreated
  <2>1. /\ tran.puts # <<>> /\ NextPut \in Puts /\ NextPut.at = "ix" /\ NextPut.key \in Iids
        /\ ~ Registered(NextPut.key) /\ PutDone
        /\ ctl' = Append(ctl, NewController(NextPut.key))
        /\ idx' = [idx EXCEPT ![NextPut.key] = Len(ctl) + 1]
    BY <1>1, <1>p, PutParts DEF IndexerCreated
  <2>2. \A i \in Iids : Registered(i) => idx'[i] = idx[i]
    BY <1>0, <2>1
  <2>3. \A c \in DOMAIN ctl : ctl'[c] = ctl[c]
    BY <1>0, <2>1
  <2> QED BY <1>0, <2>1, <2>2, <2>3, AnalyzerPutDone DEF Registered
<1>2. CASE IndexerModified
  <2> DEFINE k == NextPut.key
             e == idx[k]
             v == NextPut.val
  <2>1. /\ tran.puts # <<>> /\ NextPut \in Puts /\ NextPut.at = "ix" /\ k \in Iids
        /\ idx' = idx /\ Registered(k) /\ e \in DOMAIN ctl /\ v \in IndexerNode
    BY <1>0, <1>2, <1>p, PutParts DEF IndexerModified
  <2>2. \/ PutFailed /\ (UNCHANGED ctl \/ \E ia : SetsAnalyzer(e, ia))
        \/ PutDone /\ \E ia : SetsAnalyzers(e, ia, Chosen(v.qa, ctl[e].qa))
    BY <1>2 DEF IndexerModified, SetsAnalyzer, SetsAnalyzers
  <2>3. CASE PutFailed /\ (UNCHANGED ctl \/ \E ia : SetsAnalyzer(e, ia))
    <3>1. \A c \in DOMAIN ctl : ctl'[c].qa = ctl[c].qa
      BY <2>1, <2>3, Edits DEF EditsOnly
    <3> QED BY <1>s, <2>1, <2>3, <3>1
  <2>4. CASE PutDone /\ \E ia : SetsAnalyzers(e, ia, Chosen(v.qa, ctl[e].qa))
    <3>1. /\ ctl'[e].qa = Chosen(v.qa, ctl[e].qa)
          /\ \A c \in DOMAIN ctl : c # e => ctl'[c].qa = ctl[c].qa
      BY <2>1, <2>4, Edits DEF EditsOnly
    <3>2. v.qa \in Good => ctl'[e].qa = v.qa
      BY <3>1, NamesDistinct DEF Chosen
    <3>3. IsFresh(NextPut) => ctl'[e].qa = ctl[e].qa
      BY <2>1, <3>1 DEF IsFresh, NoIndexerProps, Chosen
    <3>4. \A i \in Iids : Registered(i) /\ idx[i] = e => i = k
      BY <1>0, <2>1
    <3> HIDE DEF v, e, k
    <3>5. ASSUME NEW i \in Iids, Registered(i)
          PROVE  \/ ctl'[idx'[i]].qa = ctl[idx[i]].qa
                 \/ NextPut.at = "ix" /\ NextPut.key = i /\ ~ IsFresh(NextPut)
      BY <1>0, <2>1, <3>1, <3>3, <3>4, <3>5 DEF k
    <3>6. NextPut.val.qa \in Good => ctl'[idx'[NextPut.key]].qa = NextPut.val.qa
      BY <2>1, <3>2 DEF v, e, k
    <3> QED BY <2>1, <2>4, <3>5, <3>6, AnalyzerPutDone DEF Registered
  <2> QED BY <2>2, <2>3, <2>4
<1>3. CASE IndexSchemaModified
  <2> DEFINE k == NextPut.key[1]
  <2>1. /\ tran.puts # <<>> /\ NextPut \in Puts /\ NextPut.at = "is"
        /\ k \in Iids /\ idx' = idx
    BY <1>3, <1>p, PutParts DEF IndexSchemaModified
  <2>2. /\ PutDone \/ PutFailed
        /\ UNCHANGED ctl \/ (Registered(k) /\ \E g, v : SetsField(idx[k], g, v))
    BY <1>3 DEF IndexSchemaModified, SetsField
  <2>3. \A c \in DOMAIN ctl : ctl'[c].qa = ctl[c].qa
    BY <1>0, <2>1, <2>2, Edits DEF EditsOnly
  <2> QED BY <1>s, <2>1, <2>2, <2>3
<1>4. CASE SearcherModified \/ SearchSchemaModified
  BY <1>4, <1>p, <1>s DEF SearcherModified, SearchSchemaModified
<1>5. CASE IndexerDeleted
  <2>1. PICK k \in Iids :
          /\ Removing([at |-> "ix", key |-> k])
          /\ IF Registered(k) THEN Closes(idx[k]) ELSE UNCHANGED ctl
          /\ idx' = [idx EXCEPT ![k] = 0]
    BY <1>5 DEF IndexerDeleted, Closes
  <2>2. [at |-> "ix", key |-> k] \in Removes
    BY CellParts
  <2>3. \A i \in Iids : idx'[i] = idx[i] \/ i = k
    BY <1>0, <2>1
  <2>4. \A c \in DOMAIN ctl : ctl'[c].qa = ctl[c].qa
    BY <1>0, <2>1, Edits DEF EditsOnly
  <2> QED BY <1>0, <2>1, <2>2, <2>3, <2>4, AnalyzerRemoving
<1>6. CASE IndexSchemaDeleted
  <2>1. PICK k \in Iids, g \in Fields :
          /\ Removing(IndexSchemaAt(k, g)) /\ UNCHANGED idx
          /\ IF Registered(k) THEN SetsField(idx[k], g, Null) ELSE UNCHANGED ctl
    BY <1>6 DEF IndexSchemaDeleted, IndexSchemaAt, SetsField
  <2>2. IndexSchemaAt(k, g) \in Removes
    BY CellParts DEF IndexSchemaAt
  <2>3. \A c \in DOMAIN ctl : ctl'[c].qa = ctl[c].qa
    BY <1>0, <2>1, Edits DEF EditsOnly
  <2> QED BY <1>0, <2>1, <2>2, <2>3, AnalyzerRemoving
<1>7. CASE SearcherDeleted \/ SearchSchemaDeleted
  <2>1. PICK d \in Removes : Removing(d) /\ UNCHANGED <<ctl, idx>>
    BY <1>7, CellParts DEF SearcherDeleted, SearchSchemaDeleted
  <2> QED BY <2>1, AnalyzerRemoving
<1> QED BY <1>1, <1>2, <1>3, <1>4, <1>5, <1>6, <1>7 DEF Handlers

LEMMA AnalyzerForceStep ==
  ASSUME Transactional, TypeOK, ControllerInv, RegisteredInv, TranInv, AnalyzerForceInv, [Next]_vars
  PROVE  AnalyzerForceInv'
<1>1. CASE phase' # "up"
  BY <1>1 DEF AnalyzerForceInv
<1>2. CASE UNCHANGED <<phase, tran, db, wk, ctl, idx>>
  BY <1>2 DEF AnalyzerForceInv, AnalyzersForced, Registered
<1>3. CASE Requests
  <2>1. phase = "up" /\ tran = Idle /\ UNCHANGED <<phase, db, wk, ctl, idx>>
    BY <1>3, RequestAsked DEF Begin, memory
  <2>2. wk = db
    BY <2>1, TranParts DEF RegisteredInv
  <2> QED BY <2>1, <2>2 DEF AnalyzerForceInv, AnalyzersForced, Registered
<1>4. CASE Handlers
  BY <1>4, AnalyzerHandlers
<1>5. CASE Commit
  <2>1. phase = "up" /\ tran'.puts = <<>> /\ UNCHANGED <<phase, wk, ctl, idx>>
    BY <1>5, TranParts DEF RegisteredInv, Commit, memory, Idle
  <2> QED BY <2>1 DEF AnalyzerForceInv, AnalyzersForced, Registered
<1>6. CASE Load
  <2>1. /\ UNCHANGED <<db, wk, tran>> /\ wk = db /\ tran.puts = <<>>
        /\ \A i \in Iids : Registered(i)' <=> db.ix[i] # Absent
        /\ \A i \in Iids : Registered(i)' => ctl'[idx'[i]] = LoadedController(i)
    BY <1>6, LoadIs, TranParts DEF RegisteredInv, IdleIsCommitted, Load
  <2>2. \A i \in Iids : db.ix[i].qa \in Good => LoadedController(i).qa = db.ix[i].qa
    BY NamesDistinct DEF LoadedController, Chosen
  <2> QED BY <2>1, <2>2 DEF AnalyzerForceInv, AnalyzersForced
<1> QED BY <1>1, <1>2, <1>3, <1>4, <1>5, <1>6 DEF Next, LoadFails, Crash, Retry, vars

(* On the store that rolls back, the query analyzer an indexer is stored with *)
(* is the one its controller uses: IndexManager changes it only in the last   *)
(* put of a transaction, after the index analyzer, which a refused request    *)
(* may leave changed (the store goes back and the controller does not).       *)
THEOREM QueryAnalyzersAreInForce == Transactional => (Spec => []QueryAnalyzerInForce)
<1> SUFFICES ASSUME Transactional PROVE Spec => []QueryAnalyzerInForce
  OBVIOUS
<1> DEFINE Inv == TypeOK /\ ControllerInv /\ RegisteredInv /\ TranInv /\ AnalyzerForceInv
<1>1. Init => AnalyzerForceInv
  BY DEF Init, AnalyzerForceInv
<1>2. Init => Inv
  BY <1>1, TypeInit, ControllerInit, RegisteredInit, TranInit
<1>3. Inv /\ [Next]_vars => Inv'
  <2> SUFFICES ASSUME Inv, [Next]_vars PROVE Inv'
    OBVIOUS
  <2>1. TypeOK' /\ ControllerInv' /\ RegisteredInv'
    BY TypeStep, ControllerStep, RegisteredStep
  <2>2. TranInv' /\ AnalyzerForceInv'
    BY <2>1, TranStep, AnalyzerForceStep DEF RegisteredInv
  <2> QED BY <2>1, <2>2
<1>4. Inv => QueryAnalyzerInForce
  <2> SUFFICES ASSUME Inv, Quiet, NEW i \in StoredIndexers(db), db.ix[i].qa \in Good
               PROVE  ctl[idx[i]].qa = db.ix[i].qa
    BY DEF QueryAnalyzerInForce
  <2>1. phase = "up" /\ wk = db
    BY TranParts DEF Quiet, RegisteredInv
  <2> QED BY <2>1 DEF AnalyzerForceInv, AnalyzersForced, StoredIndexers
<1> QED BY <1>2, <1>3, <1>4, PTL DEF Spec

------------------------------------------------------------------------------
(* The searchers.                                                             *)

LEMMA SearchSame ==
  ASSUME NEW cs, NEW ds, NEW r, NEW q, NEW st, NEW t, NEW s,
         SearchIs(cs, r, st, s), {r.base} \cup r.append \subseteq DOMAIN cs,
         \A c \in DOMAIN cs : ds[c].iid = cs[c].iid,
         q.base = r.base, q.append = r.append,
         t.sr[s] = st.sr[s] \/ (t.sr[s] # Absent /\ t.sr[s].target = {}),
         \A f \in Fields : \/ t.ss[<<s, f>>] = Absent
                           \/ t.ss[<<s, f>>] = st.ss[<<s, f>>] /\ q.fields[f] = r.fields[f]
  PROVE  SearchIs(ds, q, t, s)
<1>1. PICK T \in SUBSET Iids : ServesIn(cs, r, T) /\ st.sr[s].target \in {T, {}}
  BY DEF SearchIs
<1>2. ServesIn(ds, q, T)
  BY <1>1 DEF ServesIn
<1>3. t.sr[s] # Absent /\ t.sr[s].target \in {T, {}}
  BY <1>1 DEF SearchIs
<1>4. \A f \in Fields : t.ss[<<s, f>>] # Absent => q.fields[f] = t.ss[<<s, f>>]
  BY DEF SearchIs
<1> QED BY <1>2, <1>3, <1>4 DEF SearchIs

LEMMA RegisterIs ==
  ASSUME NEW cs, NEW ix \in [Iids -> Nat], NEW st \in Store, NEW s \in Sids, NEW v \in SearcherNode,
         v.target # {}, ~ RegisterThrows(ix, st, s, v),
         \A i \in Iids : ix[i] # 0 => cs[ix[i]].iid = i,
         NEW t, t.sr[s] = v, \A f \in Fields : t.ss[<<s, f>>] = st.ss[<<s, f>>]
  PROVE  SearchIs(cs, RegisterSearcher(ix, st, s, v), t, s)
<1> DEFINE r == RegisterSearcher(ix, st, s, v)
<1>1. First[v.target] \in v.target /\ v.target \in SUBSET Iids /\ v # Absent
  BY FirstChooses, AbsentIsNoNode DEF SearcherNode
<1>2. ix[First[v.target]] # 0
  BY DEF RegisterThrows
<1>3. /\ r.base = ix[First[v.target]]
      /\ \A c \in r.append : \E i \in v.target : ix[i] # 0 /\ c = ix[i]
      /\ \A f \in Fields : st.ss[<<s, f>>] # Absent => r.fields[f] = st.ss[<<s, f>>]
  BY DEF RegisterSearcher, Appended
<1> HIDE DEF r
<1>4. cs[r.base].iid = First[v.target] /\ \A c \in {r.base} \cup r.append : cs[c].iid \in v.target
  BY <1>1, <1>2, <1>3
<1>5. ServesIn(cs, r, v.target)
  BY <1>4 DEF ServesIn
<1>6. SearchIs(cs, r, t, s)
  BY <1>1, <1>3, <1>5 DEF SearchIs
<1> QED BY <1>6 DEF r

LEMMA SearchPutDone ==
  ASSUME TypeOK, ControllerInv, RegisteredInv, TranInv, SearchForceInv, tran.puts # <<>>, PutDone,
         \A c \in DOMAIN ctl : ctl'[c].iid = ctl[c].iid,
         \A s \in Sids : HasSearch(s)' =>
           \/ /\ srch'[s] = srch[s]
              /\ \A f \in Fields : wk'.ss[<<s, f>>] = wk.ss[<<s, f>>]
              /\ wk'.sr[s] = wk.sr[s] \/ (wk'.sr[s] # Absent /\ wk'.sr[s].target = {})
           \/ tran'.puts = <<>> /\ SearchIs(ctl', srch'[s], wk', s)
  PROVE  SearchForceInv'
<1>1. db' = db
  BY PutDoneIs
<1>2. ASSUME NEW s \in Sids, HasSearch(s)'
      PROVE  SearchIs(ctl', srch'[s], wk', s) /\ (tran'.puts # <<>> => SearchIs(ctl', srch'[s], db', s))
  <2>1. CASE tran'.puts = <<>> /\ SearchIs(ctl', srch'[s], wk', s)
    BY <2>1
  <2>2. CASE /\ srch'[s] = srch[s]
             /\ \A f \in Fields : wk'.ss[<<s, f>>] = wk.ss[<<s, f>>]
             /\ wk'.sr[s] = wk.sr[s] \/ (wk'.sr[s] # Absent /\ wk'.sr[s].target = {})
    <3>1. HasSearch(s)
      BY <1>2, <2>2 DEF HasSearch
    <3>2. {srch[s].base} \cup srch[s].append \subseteq DOMAIN ctl
      BY <3>1 DEF ControllerInv, SearchesOpened, Used
    <3>3. SearchIs(ctl, srch[s], wk, s) /\ SearchIs(ctl, srch[s], db, s)
      BY <3>1 DEF SearchForceInv, SearchForced
    <3>4. SearchIs(ctl', srch[s], wk', s)
      BY <2>2, <3>2, <3>3, SearchSame
    <3>5. SearchIs(ctl', srch[s], db, s)
      BY <3>2, <3>3, SearchSame
    <3> QED BY <1>1, <2>2, <3>4, <3>5
  <2> QED BY <1>2, <2>1, <2>2
<1> QED BY <1>2 DEF SearchForceInv, SearchForced

LEMMA SearchPutFailed ==
  ASSUME Transactional, TypeOK, ControllerInv, RegisteredInv, TranInv, SearchForceInv,
         tran.puts # <<>>, PutFailed, srch' = srch,
         \A c \in DOMAIN ctl : ctl'[c].iid = ctl[c].iid
  PROVE  SearchForceInv'
<1>1. wk' = db /\ tran'.puts = <<>>
  BY PutFailedIs
<1>2. ASSUME NEW s \in Sids, HasSearch(s)' PROVE SearchIs(ctl', srch[s], db, s)
  <2>1. HasSearch(s)
    BY <1>2 DEF HasSearch
  <2>2. {srch[s].base} \cup srch[s].append \subseteq DOMAIN ctl
    BY <2>1 DEF ControllerInv, SearchesOpened, Used
  <2>3. SearchIs(ctl, srch[s], db, s)
    BY <2>1 DEF SearchForceInv, SearchForced
  <2> QED BY <2>2, <2>3, SearchSame
<1> QED BY <1>1, <1>2 DEF SearchForceInv, SearchForced

LEMMA SearchRemoving ==
  ASSUME TypeOK, ControllerInv, RegisteredInv, SearchForceInv, NEW d \in Removes, Removing(d),
         \A c \in DOMAIN ctl : ctl'[c].iid = ctl[c].iid,
         \A s \in Sids : HasSearch(s)' =>
           /\ HasSearch(s) /\ ~ (d.at = "sr" /\ d.key = s)
           /\ srch'[s].base = srch[s].base /\ srch'[s].append = srch[s].append
           /\ \A f \in Fields : d = SearchSchemaAt(s, f) \/ srch'[s].fields[f] = srch[s].fields[f]
  PROVE  SearchForceInv'
<1>1. wk \in Store /\ wk' = Take(wk, d) /\ tran'.puts = <<>>
  BY RemovingIs DEF TypeOK
<1>2. ASSUME NEW s \in Sids, HasSearch(s)' PROVE SearchIs(ctl', srch'[s], wk', s)
  <2>1. HasSearch(s) /\ wk'.sr[s] = wk.sr[s]
    BY <1>1, <1>2, TakeIs
  <2>2. {srch[s].base} \cup srch[s].append \subseteq DOMAIN ctl
    BY <2>1 DEF ControllerInv, SearchesOpened, Used
  <2>3. SearchIs(ctl, srch[s], wk, s)
    BY <2>1 DEF SearchForceInv, SearchForced
  <2>4. ASSUME NEW f \in Fields
        PROVE  \/ wk'.ss[<<s, f>>] = Absent
               \/ wk'.ss[<<s, f>>] = wk.ss[<<s, f>>] /\ srch'[s].fields[f] = srch[s].fields[f]
    <3>1. wk'.ss[<<s, f>>] \in {Absent, wk.ss[<<s, f>>]}
      BY <1>1, TakeIs
    <3>2. d = SearchSchemaAt(s, f) => wk'.ss[<<s, f>>] = Absent
      BY <1>1, TakeIs DEF SearchSchemaAt
    <3> QED BY <1>2, <3>1, <3>2
  <2> QED BY <1>2, <2>1, <2>2, <2>3, <2>4, SearchSame
<1> QED BY <1>1, <1>2 DEF SearchForceInv, SearchForced

LEMMA SearcherHandlers ==
  ASSUME Transactional, TypeOK, ControllerInv, RegisteredInv, TranInv, SearchForceInv,
         SearcherModified \/ SearchSchemaModified \/ SearcherDeleted \/ SearchSchemaDeleted
  PROVE  SearchForceInv'
<1>0. /\ ctl \in Seq(Controller) /\ idx \in [Iids -> 0 .. Len(ctl)] /\ wk \in Store
      /\ srch \in [Sids -> Searcher \cup {Unregistered}]
      /\ \A i \in Iids : idx[i] # 0 => ctl[idx[i]].iid = i
  BY DEF TypeOK, ControllerInv, Owned
<1>p. ASSUME NEW at, PutsAt(at) PROVE tran.puts # <<>> /\ NextPut \in Puts /\ NextPut.at = at
  BY <1>p, NextPutType DEF PutsAt, NextPut
<1>1. CASE SearcherModified
  <2> DEFINE k == NextPut.key
             v == NextPut.val
  <2>1. /\ tran.puts # <<>> /\ NextPut \in Puts /\ NextPut.at = "sr" /\ k \in Sids
        /\ v \in SearcherNode /\ v # Absent /\ UNCHANGED <<ctl, idx>>
    BY <1>1, <1>p, PutParts DEF SearcherModified
  <2>2. ASSUME PutDone
        PROVE  /\ \A s \in Sids : wk'.sr[s] = IF s = k THEN v ELSE wk.sr[s]
               /\ \A s \in Sids, f \in Fields : wk'.ss[<<s, f>>] = wk.ss[<<s, f>>]
    BY <1>0, <2>1, <2>2, PutDoneIs, PutIs
  <2>3. CASE v.target = {} /\ PutDone /\ UNCHANGED srch
    BY <2>1, <2>2, <2>3, SearchPutDone
  <2>4. CASE PutFailed /\ UNCHANGED srch
    BY <2>1, <2>4, SearchPutFailed
  <2>5. CASE /\ v.target # {} /\ ~ RegisterThrows(idx, wk, k, v) /\ PutDone
             /\ srch' = [srch EXCEPT ![k] = RegisterSearcher(idx, wk, k, v)]
    <3>1. tran'.puts = <<>>
      BY <2>1, <2>5, PutDoneIs DEF IsFresh, NoSearcherProps
    <3>2. wk'.sr[k] = v /\ \A f \in Fields : wk'.ss[<<k, f>>] = wk.ss[<<k, f>>]
      BY <2>1, <2>2, <2>5
    <3>3. idx \in [Iids -> Nat]
      BY <1>0
    <3>4. SearchIs(ctl, RegisterSearcher(idx, wk, k, v), wk', k)
      BY <1>0, <2>1, <2>5, <3>2, <3>3, RegisterIs
    <3>5. srch'[k] = RegisterSearcher(idx, wk, k, v) /\ \A s \in Sids \ {k} : srch'[s] = srch[s]
      BY <1>0, <2>1, <2>5
    <3>6. SearchIs(ctl', srch'[k], wk', k)
      BY <2>1, <3>4, <3>5
    <3> HIDE DEF k, v
    <3>7. ASSUME NEW s \in Sids, s # k
          PROVE  /\ srch'[s] = srch[s] /\ wk'.sr[s] = wk.sr[s]
                 /\ \A f \in Fields : wk'.ss[<<s, f>>] = wk.ss[<<s, f>>]
      BY <2>2, <2>5, <3>5, <3>7
    <3> QED BY <2>1, <2>5, <3>1, <3>6, <3>7, SearchPutDone
  <2> QED BY <1>1, <2>3, <2>4, <2>5 DEF SearcherModified
<1>2. CASE SearchSchemaModified
  <2> DEFINE k == NextPut.key[1]
             g == NextPut.key[2]
             v == NextPut.val
  <2>1. /\ tran.puts # <<>> /\ NextPut \in Puts /\ NextPut.at = "ss"
        /\ NextPut.key \in Sids \X Fields /\ UNCHANGED <<ctl, idx>>
    BY <1>2, <1>p, PutParts DEF SearchSchemaModified
  <2>2. k \in Sids /\ g \in Fields /\ NextPut.key = <<k, g>>
    BY <2>1
  <2>3. ASSUME PutDone
        PROVE  /\ \A s \in Sids : wk'.sr[s] = wk.sr[s]
               /\ \A s \in Sids, f \in Fields :
                    wk'.ss[<<s, f>>] = IF s = k /\ f = g THEN v ELSE wk.ss[<<s, f>>]
    <3>1. wk' = Put(wk, NextPut) /\ NextPut.val = v
      BY <2>1, <2>3, PutDoneIs
    <3>2. \A s \in Sids : wk'.sr[s] = wk.sr[s]
      BY <1>0, <2>1, <3>1, PutIs
    <3> HIDE DEF k, g, v
    <3>3. \A q \in Sids \X Fields : wk'.ss[q] = IF q = <<k, g>> THEN v ELSE wk.ss[q]
      BY <1>0, <2>1, <2>2, <3>1, PutIs
    <3> QED BY <3>2, <3>3
  <2>4. CASE ~ HasSearch(k) /\ PutDone /\ UNCHANGED srch
    <3>1. ASSUME NEW s \in Sids, HasSearch(s)'
          PROVE  srch'[s] = srch[s] /\ wk'.sr[s] = wk.sr[s]
                 /\ \A f \in Fields : wk'.ss[<<s, f>>] = wk.ss[<<s, f>>]
      BY <2>3, <2>4, <3>1 DEF HasSearch
    <3> QED BY <2>1, <2>4, <3>1, SearchPutDone
  <2>5. CASE PutFailed /\ UNCHANGED srch
    BY <2>1, <2>5, SearchPutFailed
  <2>6. CASE HasSearch(k) /\ v \in Good /\ PutDone /\ srch' = [srch EXCEPT ![k].fields[g] = v]
    <3>1. tran'.puts = <<>>
      BY <2>1, <2>6, PutDoneIs, NamesDistinct DEF IsFresh
    <3>2. srch[k] \in Searcher
      BY <1>0, <2>2, <2>6 DEF HasSearch
    <3>3. /\ srch'[k].base = srch[k].base /\ srch'[k].append = srch[k].append
          /\ \A f \in Fields : srch'[k].fields[f] = IF f = g THEN v ELSE srch[k].fields[f]
          /\ \A s \in Sids \ {k} : srch'[s] = srch[s]
      BY <1>0, <2>2, <2>6, <3>2 DEF Searcher
    <3>4. SearchIs(ctl, srch[k], wk, k) /\ {srch[k].base} \cup srch[k].append \subseteq DOMAIN ctl
      BY <2>2, <2>6 DEF SearchForceInv, SearchForced, ControllerInv, SearchesOpened, Used
    <3>5. wk'.sr[k] = wk.sr[k] /\ \A f \in Fields :
            wk'.ss[<<k, f>>] = IF f = g THEN v ELSE wk.ss[<<k, f>>]
      BY <2>2, <2>3, <2>6
    <3> HIDE DEF k, g, v
    <3>6. SearchIs(ctl', srch'[k], wk', k)
      <4>1. PICK T \in SUBSET Iids : ServesIn(ctl, srch[k], T) /\ wk.sr[k].target \in {T, {}}
        BY <3>4 DEF SearchIs
      <4>2. ServesIn(ctl', srch'[k], T)
        BY <2>1, <3>3, <4>1 DEF ServesIn
      <4>3. wk'.sr[k] # Absent /\ wk'.sr[k].target \in {T, {}}
        BY <3>4, <3>5, <4>1 DEF SearchIs
      <4>4. \A f \in Fields : wk'.ss[<<k, f>>] # Absent => srch'[k].fields[f] = wk'.ss[<<k, f>>]
        BY <3>3, <3>4, <3>5 DEF SearchIs
      <4> QED BY <4>2, <4>3, <4>4 DEF SearchIs
    <3>7. ASSUME NEW s \in Sids, s # k
          PROVE  srch'[s] = srch[s] /\ wk'.sr[s] = wk.sr[s]
                 /\ \A f \in Fields : wk'.ss[<<s, f>>] = wk.ss[<<s, f>>]
      BY <2>3, <2>6, <3>3, <3>7
    <3> QED BY <2>1, <2>6, <3>1, <3>6, <3>7, SearchPutDone
  <2> QED BY <1>2, <2>4, <2>5, <2>6 DEF SearchSchemaModified
<1>3. CASE SearcherDeleted
  <2>1. PICK k \in Sids : /\ Removing([at |-> "sr", key |-> k]) /\ UNCHANGED <<ctl, idx>>
                          /\ srch' = [srch EXCEPT ![k] = Unregistered]
    BY <1>3 DEF SearcherDeleted
  <2> DEFINE d == [at |-> "sr", key |-> k]
  <2>2. d \in Removes /\ d.at = "sr" /\ d.key = k
    BY CellParts
  <2>3. \A s \in Sids : HasSearch(s)' => HasSearch(s) /\ s # k /\ srch'[s] = srch[s]
    BY <1>0, <2>1 DEF HasSearch
  <2> HIDE DEF d
  <2>4. Removing(d)
    BY <2>1 DEF d
  <2> QED BY <2>1, <2>2, <2>3, <2>4, SearchRemoving
<1>4. CASE SearchSchemaDeleted
  <2>1. PICK k \in Sids, g \in Fields :
          /\ Removing(SearchSchemaAt(k, g)) /\ UNCHANGED <<ctl, idx>>
          /\ srch' = IF HasSearch(k) THEN [srch EXCEPT ![k].fields[g] = Null] ELSE srch
    BY <1>4 DEF SearchSchemaDeleted, SearchSchemaAt
  <2> DEFINE d == SearchSchemaAt(k, g)
  <2>2. d \in Removes /\ d.at = "ss"
    BY CellParts DEF SearchSchemaAt
  <2>3. ASSUME NEW s \in Sids, HasSearch(s)'
        PROVE  /\ HasSearch(s) /\ srch'[s].base = srch[s].base /\ srch'[s].append = srch[s].append
               /\ \A f \in Fields : (s = k /\ f = g) \/ srch'[s].fields[f] = srch[s].fields[f]
    <3>1. HasSearch(s)
      BY <1>0, <2>1, <2>3 DEF HasSearch
    <3>2. srch[s] \in Searcher
      BY <1>0, <3>1 DEF HasSearch
    <3> QED BY <1>0, <2>1, <3>1, <3>2 DEF Searcher
  <2>4. \A s \in Sids, f \in Fields : s = k /\ f = g => d = SearchSchemaAt(s, f)
    OBVIOUS
  <2> HIDE DEF d
  <2>5. Removing(d)
    BY <2>1 DEF d
  <2> QED BY <2>1, <2>2, <2>3, <2>4, <2>5, SearchRemoving
<1> QED BY <1>1, <1>2, <1>3, <1>4

LEMMA SearchHandlers ==
  ASSUME Transactional, TypeOK, ControllerInv, RegisteredInv, TranInv, SearchForceInv, Handlers
  PROVE  SearchForceInv'
<1>0. /\ ctl \in Seq(Controller) /\ wk \in Store
      /\ \A i \in Iids : Registered(i) => idx[i] \in DOMAIN ctl
  BY DEF TypeOK, Registered
<1>p. ASSUME NEW at, PutsAt(at) PROVE tran.puts # <<>> /\ NextPut \in Puts /\ NextPut.at = at
  BY <1>p, NextPutType DEF PutsAt, NextPut
<1>s. ASSUME srch' = srch, \A c \in DOMAIN ctl : ctl'[c].iid = ctl[c].iid, tran.puts # <<>>,
             NextPut.at \in {"ix", "is"}, PutDone \/ PutFailed
      PROVE  SearchForceInv'
  <2>1. ASSUME PutDone
        PROVE  /\ \A s \in Sids : wk'.sr[s] = wk.sr[s]
               /\ \A s \in Sids, f \in Fields : wk'.ss[<<s, f>>] = wk.ss[<<s, f>>]
    BY <1>0, <1>s, <2>1, PutDoneIs, PutIs
  <2> QED BY <1>s, <2>1, SearchPutDone, SearchPutFailed
<1>r. ASSUME srch' = srch, \A c \in DOMAIN ctl : ctl'[c].iid = ctl[c].iid,
             NEW d \in Removes, Removing(d), d.at \in {"ix", "is"}
      PROVE  SearchForceInv'
  <2>1. \A s \in Sids : HasSearch(s)' => HasSearch(s)
    BY <1>r DEF HasSearch
  <2> QED BY <1>r, <2>1, SearchRemoving
<1>1. CASE IndexerCreated
  <2>1. /\ tran.puts # <<>> /\ NextPut.at = "ix" /\ PutDone /\ srch' = srch
        /\ ctl' = Append(ctl, NewController(NextPut.key))
    BY <1>1, <1>p DEF IndexerCreated
  <2>2. \A c \in DOMAIN ctl : ctl'[c] = ctl[c]
    BY <1>0, <2>1
  <2> QED BY <1>s, <2>1, <2>2
<1>2. CASE IndexerModified
  <2> DEFINE e == idx[NextPut.key]
  <2>1. /\ tran.puts # <<>> /\ NextPut.at = "ix" /\ srch' = srch /\ e \in DOMAIN ctl
        /\ PutDone \/ PutFailed
    BY <1>0, <1>2, <1>p, PutParts DEF IndexerModified
  <2>2. \/ UNCHANGED ctl
        \/ \E ia, qa : SetsAnalyzer(e, ia) \/ SetsAnalyzers(e, ia, qa)
    BY <1>2 DEF IndexerModified, SetsAnalyzer, SetsAnalyzers
  <2>3. \A c \in DOMAIN ctl : ctl'[c].iid = ctl[c].iid
    BY <2>1, <2>2, Edits DEF EditsOnly
  <2> QED BY <1>s, <2>1, <2>3
<1>3. CASE IndexSchemaModified
  <2> DEFINE k == NextPut.key[1]
  <2>1. /\ tran.puts # <<>> /\ NextPut \in Puts /\ NextPut.at = "is"
        /\ k \in Iids /\ srch' = srch
    BY <1>3, <1>p, PutParts DEF IndexSchemaModified
  <2>2. /\ PutDone \/ PutFailed
        /\ UNCHANGED ctl \/ (Registered(k) /\ \E g, v : SetsField(idx[k], g, v))
    BY <1>3 DEF IndexSchemaModified, SetsField
  <2>3. \A c \in DOMAIN ctl : ctl'[c].iid = ctl[c].iid
    BY <1>0, <2>1, <2>2, Edits DEF EditsOnly
  <2> QED BY <1>s, <2>1, <2>2, <2>3
<1>4. CASE IndexerDeleted
  <2>1. PICK k \in Iids :
          /\ Removing([at |-> "ix", key |-> k]) /\ srch' = srch
          /\ IF Registered(k) THEN Closes(idx[k]) ELSE UNCHANGED ctl
    BY <1>4 DEF IndexerDeleted, Closes
  <2>2. [at |-> "ix", key |-> k] \in Removes
    BY CellParts
  <2>3. \A c \in DOMAIN ctl : ctl'[c].iid = ctl[c].iid
    BY <1>0, <2>1, Edits DEF EditsOnly
  <2> QED BY <1>r, <2>1, <2>2, <2>3
<1>5. CASE IndexSchemaDeleted
  <2>1. PICK k \in Iids, g \in Fields :
          /\ Removing(IndexSchemaAt(k, g)) /\ srch' = srch
          /\ IF Registered(k) THEN SetsField(idx[k], g, Null) ELSE UNCHANGED ctl
    BY <1>5 DEF IndexSchemaDeleted, IndexSchemaAt, SetsField
  <2>2. IndexSchemaAt(k, g) \in Removes /\ IndexSchemaAt(k, g).at = "is"
    BY CellParts DEF IndexSchemaAt
  <2>3. \A c \in DOMAIN ctl : ctl'[c].iid = ctl[c].iid
    BY <1>0, <2>1, Edits DEF EditsOnly
  <2> QED BY <1>r, <2>1, <2>2, <2>3
<1>6. CASE SearcherModified \/ SearchSchemaModified \/ SearcherDeleted \/ SearchSchemaDeleted
  BY <1>6, SearcherHandlers
<1> QED BY <1>1, <1>2, <1>3, <1>4, <1>5, <1>6 DEF Handlers

(* What a start registers. *)
LEMMA LoadedSearch ==
  ASSUME TypeOK, Load, NEW s \in Sids, HasSearch(s)'
  PROVE  SearchIs(ctl', srch'[s], db, s)
<1> DEFINE v == db.sr[s]
           numbered == [i \in Iids |-> IF db.ix[i] = Absent THEN 0 ELSE 1]
<1>1. srch'[s] = LoadedSearcher(idx', s) /\ db \in Store /\ idx' \in [Iids -> Nat]
  BY LoadedSearcherType, LoadShape DEF TypeOK
<1>2. v # Absent /\ v.target # {} /\ srch'[s] = RegisterSearcher(idx', db, s, v) /\ v \in SearcherNode
  BY <1>1 DEF HasSearch, LoadedSearcher, Store
<1>3. ~ RegisterThrows(numbered, db, s, v)
  BY <1>2 DEF Load, Loadable, SearcherLoads
<1>4. First[v.target] \in Iids
  BY <1>2, FirstChooses DEF SearcherNode
<1>5. db.ix[First[v.target]] # Absent
  BY <1>2, <1>3, <1>4 DEF RegisterThrows
<1>6. ~ RegisterThrows(idx', db, s, v)
  BY <1>3, <1>4, <1>5, LoadShape DEF RegisterThrows
<1>7. \A i \in Iids : idx'[i] # 0 => ctl'[idx'[i]].iid = i
  BY LoadShape
<1> QED BY <1>1, <1>2, <1>6, <1>7, RegisterIs

LEMMA SearchForceStep ==
  ASSUME Transactional, TypeOK, ControllerInv, RegisteredInv, TranInv, SearchForceInv, [Next]_vars
  PROVE  SearchForceInv'
<1>1. CASE UNCHANGED <<tran, db, wk, ctl, srch>>
  BY <1>1 DEF SearchForceInv, SearchForced, HasSearch
<1>2. CASE Requests
  <2>1. tran = Idle /\ UNCHANGED <<db, wk, ctl, srch>>
    BY <1>2, RequestAsked DEF Begin, memory
  <2>2. wk = db
    BY <2>1, TranParts DEF RegisteredInv
  <2> QED BY <2>1, <2>2 DEF SearchForceInv, SearchForced, HasSearch
<1>3. CASE Handlers
  BY <1>3, SearchHandlers
<1>4. CASE Commit
  <2>1. tran'.puts = <<>> /\ UNCHANGED <<wk, ctl, srch>>
    BY <1>4 DEF Commit, memory, Idle
  <2> QED BY <2>1 DEF SearchForceInv, SearchForced, HasSearch
<1>5. CASE Load
  <2>1. UNCHANGED <<db, wk, tran>> /\ wk = db /\ tran.puts = <<>>
    BY <1>5, TranParts DEF RegisteredInv, IdleIsCommitted, Load
  <2>2. \A s \in Sids : HasSearch(s)' => SearchIs(ctl', srch'[s], db, s)
    BY <1>5, LoadedSearch
  <2> QED BY <2>1, <2>2 DEF SearchForceInv, SearchForced
<1>6. CASE Crash
  <2>1. \A s \in Sids : ~ HasSearch(s)'
    BY <1>6 DEF Crash, HasSearch
  <2> QED BY <2>1 DEF SearchForceInv, SearchForced
<1> QED BY <1>1, <1>2, <1>3, <1>4, <1>5, <1>6 DEF Next, LoadFails, Retry, vars, memory

LEMMA SearchersFollow ==
  Transactional => (Spec => [](SearcherFollowsTarget /\ SearchSchemaInForce))
<1> SUFFICES ASSUME Transactional PROVE Spec => [](SearcherFollowsTarget /\ SearchSchemaInForce)
  OBVIOUS
<1> DEFINE Inv == TypeOK /\ ControllerInv /\ RegisteredInv /\ TranInv /\ SearchForceInv
<1>1. Init => SearchForceInv
  BY DEF Init, SearchForceInv, SearchForced, HasSearch
<1>2. Init => Inv
  BY <1>1, TypeInit, ControllerInit, RegisteredInit, TranInit
<1>3. Inv /\ [Next]_vars => Inv'
  <2> SUFFICES ASSUME Inv, [Next]_vars PROVE Inv'
    OBVIOUS
  <2>1. TypeOK' /\ ControllerInv' /\ RegisteredInv'
    BY TypeStep, ControllerStep, RegisteredStep
  <2>2. TranInv' /\ SearchForceInv'
    BY <2>1, TranStep, SearchForceStep DEF RegisteredInv
  <2> QED BY <2>1, <2>2
<1>4. Inv => SearcherFollowsTarget /\ SearchSchemaInForce
  <2> SUFFICES ASSUME Inv, Quiet PROVE SearcherFollowsTarget /\ SearchSchemaInForce
    BY DEF SearcherFollowsTarget, SearchSchemaInForce
  <2>1. wk = db
    BY TranParts DEF Quiet, RegisteredInv
  <2>2. \A s \in Sids : HasSearch(s) => SearchIs(ctl, srch[s], db, s)
    BY <2>1 DEF SearchForceInv, SearchForced
  <2>3. SearchSchemaInForce
    BY <2>2 DEF SearchSchemaInForce, SearchIs
  <2>4. ASSUME NEW s \in Sids, HasSearch(s)
        PROVE  /\ db.sr[s] # Absent
               /\ \E T \in SUBSET Iids : Serves(s, T) /\ db.sr[s].target \in {T, {}}
    <3>1. PICK T \in SUBSET Iids : ServesIn(ctl, srch[s], T) /\ db.sr[s].target \in {T, {}}
      BY <2>2, <2>4 DEF SearchIs
    <3>2. Serves(s, T)
      BY <3>1 DEF Serves, ServesIn, Used
    <3> QED BY <2>2, <2>4, <3>1, <3>2 DEF SearchIs
  <2> QED BY <2>3, <2>4 DEF SearcherFollowsTarget
<1> QED BY <1>2, <1>3, <1>4, PTL DEF Spec

(* On the store that rolls back, a searcher that answers queries is a stored  *)
(* one and searches controllers of its stored targets only, the first of them *)
(* as its base (SearchManager's handlers and registerSearcher); or those of a *)
(* definition before the stored one, when that one has no targets.            *)
THEOREM SearchersFollowTargets == Transactional => (Spec => []SearcherFollowsTarget)
<1>1. SearcherFollowsTarget /\ SearchSchemaInForce => SearcherFollowsTarget
  OBVIOUS
<1> QED BY <1>1, SearchersFollow, PTL

(* There, too, the analyzers of a searcher's schema are those of its stored   *)
(* schema: the handlers of both paths, a rollback and a restart agree on them.*)
THEOREM SearchSchemasAreInForce == Transactional => (Spec => []SearchSchemaInForce)
<1>1. SearcherFollowsTarget /\ SearchSchemaInForce => SearchSchemaInForce
  OBVIOUS
<1> QED BY <1>1, SearchersFollow, PTL
------------------------------------------------------------------------------
(* What can stop a start.  A searcher with a target is registered while the   *)
(* server is up, so a put that its load would reject is rejected by a handler.*)
Targets(st, s) == st.sr[s] # Absent /\ st.sr[s].target # {}

SearchersLoad(st) ==
  \A s \in Sids : Targets(st, s) =>
    /\ st.sr[s].qa # Bad
    /\ \A f \in Fields : st.ss[<<s, f>>] \in Good \cup {Absent}

TargetsAreHeld(st) == \A s \in Sids : Targets(st, s) => HasSearch(s)

StartInv ==
  /\ SearchersLoad(db) /\ SearchersLoad(wk)
  /\ phase = "up" => TargetsAreHeld(wk) /\ (tran.puts # <<>> => TargetsAreHeld(db))

(* What is registered is no longer "not registered". *)
LEMMA RegisteredIsHeld ==
  ASSUME NEW ix \in [Iids -> Nat], NEW st \in Store, NEW s \in Sids, NEW v \in SearcherNode,
         v.target # {}, ~ RegisterThrows(ix, st, s, v)
  PROVE  /\ RegisterSearcher(ix, st, s, v) # Unregistered
         /\ v.qa # Bad /\ \A f \in Fields : st.ss[<<s, f>>] \in Good \cup {Absent}
<1>1. RegisterSearcher(ix, st, s, v) \in Searcher
  BY RegisterType
<1>2. RegisterSearcher(ix, st, s, v).base # 0
  BY <1>1 DEF Searcher
<1>3. v.qa # Bad /\ SchemaNames(st, s) \subseteq Good
  BY DEF RegisterThrows
<1> QED BY <1>2, <1>3 DEF Unregistered, SchemaNames

(* One put whose handler returned: it changes the nodes of searcher k only,   *)
(* and what it leaves is registered and can be loaded.                        *)
LEMMA StartPutDone ==
  ASSUME TypeOK, RegisteredInv, TranInv, StartInv, tran.puts # <<>>, PutDone,
         \A s \in Sids : HasSearch(s) => HasSearch(s)',
         NEW k,
         \A s \in Sids : s # k => /\ wk'.sr[s] = wk.sr[s]
                                 /\ \A f \in Fields : wk'.ss[<<s, f>>] = wk.ss[<<s, f>>],
         k \in Sids /\ Targets(wk', k) =>
           /\ srch'[k] # Unregistered /\ wk'.sr[k].qa # Bad
           /\ \A f \in Fields : wk'.ss[<<k, f>>] \in Good \cup {Absent}
  PROVE  StartInv'
<1>1. phase = "up" /\ phase' = "up" /\ db' = db
  BY PutDoneIs
<1>2. SearchersLoad(wk')
  BY DEF StartInv, SearchersLoad, Targets
<1>3. TargetsAreHeld(wk)' /\ TargetsAreHeld(db)'
  BY <1>1 DEF StartInv, TargetsAreHeld, Targets, HasSearch
<1> QED BY <1>1, <1>2, <1>3 DEF StartInv, SearchersLoad, Targets

LEMMA StartPutFailed ==
  ASSUME Transactional, TypeOK, RegisteredInv, TranInv, StartInv, tran.puts # <<>>, PutFailed,
         UNCHANGED srch
  PROVE  StartInv'
<1>1. phase = "up" /\ wk' = db /\ db' = db /\ tran'.puts = <<>>
  BY PutFailedIs
<1> QED BY <1>1 DEF StartInv, SearchersLoad, TargetsAreHeld, Targets, HasSearch

LEMMA StartRemoving ==
  ASSUME TypeOK, RegisteredInv, StartInv, NEW d \in Removes, Removing(d),
         \A s \in Sids : HasSearch(s) /\ d # [at |-> "sr", key |-> s] => HasSearch(s)'
  PROVE  StartInv'
<1>1. /\ phase = "up" /\ phase' = "up" /\ db' = db /\ wk' = Take(wk, d)
      /\ tran'.puts = <<>> /\ wk \in Store
  BY RemovingIs DEF TypeOK
<1>2. /\ \A s \in Sids : wk'.sr[s] \in {Absent, wk.sr[s]}
      /\ \A s \in Sids, f \in Fields : wk'.ss[<<s, f>>] \in {Absent, wk.ss[<<s, f>>]}
      /\ \A s \in Sids : d = [at |-> "sr", key |-> s] => wk'.sr[s] = Absent
  BY <1>1, TakeIs
<1>3. \A s \in Sids : Targets(wk', s) =>
        Targets(wk, s) /\ wk'.sr[s] = wk.sr[s] /\ d # [at |-> "sr", key |-> s]
  BY <1>2 DEF Targets
<1>4. SearchersLoad(wk')
  BY <1>2, <1>3 DEF StartInv, SearchersLoad
<1>5. TargetsAreHeld(wk)'
  BY <1>1, <1>3 DEF StartInv, TargetsAreHeld
<1> QED BY <1>1, <1>4, <1>5 DEF StartInv, SearchersLoad, Targets

LEMMA StartHandlers ==
  ASSUME Transactional, TypeOK, RegisteredInv, TranInv, StartInv, Handlers
  PROVE  StartInv'
<1>0. /\ idx \in [Iids -> Nat] /\ wk \in Store
      /\ srch \in [Sids -> Searcher \cup {Unregistered}]
  BY DEF TypeOK
<1>p. ASSUME NEW at, PutsAt(at) PROVE tran.puts # <<>> /\ NextPut \in Puts /\ NextPut.at = at
  BY <1>p, NextPutType DEF PutsAt, NextPut
<1>1. CASE IndexerCreated \/ IndexerModified \/ IndexSchemaModified
  <2>1. /\ srch' = srch /\ tran.puts # <<>> /\ NextPut \in Puts
        /\ NextPut.at \in {"ix", "is"} /\ (PutDone \/ PutFailed)
    BY <1>1, <1>p DEF IndexerCreated, IndexerModified, IndexSchemaModified
  <2>2. ASSUME PutDone PROVE StartInv'
    <3>1. wk' = Put(wk, NextPut)
      BY <2>1, <2>2, PutDoneIs
    <3>2. /\ \A s \in Sids : wk'.sr[s] = wk.sr[s]
          /\ \A s \in Sids, f \in Fields : wk'.ss[<<s, f>>] = wk.ss[<<s, f>>]
      BY <1>0, <2>1, <3>1, PutIs
    <3>3. \A s \in Sids : Targets(wk', s) => Targets(wk, s)
      BY <3>2 DEF Targets
    <3>4. ASSUME NEW k, k \in Sids, Targets(wk', k)
          PROVE  /\ srch'[k] # Unregistered /\ wk'.sr[k].qa # Bad
                 /\ \A f \in Fields : wk'.ss[<<k, f>>] \in Good \cup {Absent}
      <4>1. phase = "up"
        BY <2>1, <2>2, PutDoneIs
      <4> QED BY <2>1, <3>2, <3>3, <3>4, <4>1 DEF StartInv, SearchersLoad, TargetsAreHeld, HasSearch
    <3>5. \A s \in Sids : HasSearch(s) => HasSearch(s)'
      BY <2>1 DEF HasSearch
    <3> QED BY <2>1, <2>2, <3>2, <3>4, <3>5, StartPutDone
  <2> QED BY <2>1, <2>2, StartPutFailed
<1>2. CASE SearcherModified
  <2> DEFINE k == NextPut.key
             v == NextPut.val
  <2>1. /\ tran.puts # <<>> /\ NextPut \in Puts /\ NextPut.at = "sr" /\ k \in Sids
        /\ v \in SearcherNode /\ v # Absent
    BY <1>2, <1>p, PutParts DEF SearcherModified
  <2>2. ASSUME PutDone
        PROVE  /\ \A s \in Sids : wk'.sr[s] = IF s = k THEN v ELSE wk.sr[s]
               /\ \A s \in Sids, f \in Fields : wk'.ss[<<s, f>>] = wk.ss[<<s, f>>]
    BY <1>0, <2>1, <2>2, PutDoneIs, PutIs
  <2>3. CASE v.target = {} /\ PutDone /\ UNCHANGED srch
    <3>1. ~ Targets(wk', k)
      BY <2>1, <2>2, <2>3 DEF Targets
    <3>2. \A s \in Sids : HasSearch(s) => HasSearch(s)'
      BY <2>3 DEF HasSearch
    <3> HIDE DEF k, v
    <3> QED BY <2>1, <2>2, <2>3, <3>1, <3>2, StartPutDone
  <2>4. CASE PutFailed /\ UNCHANGED srch
    BY <2>1, <2>4, StartPutFailed
  <2>5. CASE /\ v.target # {} /\ ~ RegisterThrows(idx, wk, k, v) /\ PutDone
             /\ srch' = [srch EXCEPT ![k] = RegisterSearcher(idx, wk, k, v)]
    <3> DEFINE r == RegisterSearcher(idx, wk, k, v)
    <3>1. r # Unregistered /\ v.qa # Bad /\ \A f \in Fields : wk.ss[<<k, f>>] \in Good \cup {Absent}
      BY <1>0, <2>1, <2>5, RegisteredIsHeld
    <3> HIDE DEF r
    <3>2. srch' = [srch EXCEPT ![k] = r]
      BY <2>5 DEF r
    <3> HIDE DEF k, v
    <3>6. srch'[k] = r /\ \A s \in Sids \ {k} : srch'[s] = srch[s]
      BY <1>0, <2>1, <3>2
    <3>3. srch'[k] # Unregistered /\ \A s \in Sids : HasSearch(s) => HasSearch(s)'
      BY <3>1, <3>6 DEF HasSearch
    <3>4. wk'.sr[k] = v /\ \A f \in Fields : wk'.ss[<<k, f>>] = wk.ss[<<k, f>>]
      BY <2>1, <2>2, <2>5
    <3>5. /\ wk'.sr[k].qa # Bad
          /\ \A f \in Fields : wk'.ss[<<k, f>>] \in Good \cup {Absent}
      BY <3>1, <3>4
    <3>7. \A s \in Sids : s # k => /\ wk'.sr[s] = wk.sr[s]
                                  /\ \A f \in Fields : wk'.ss[<<s, f>>] = wk.ss[<<s, f>>]
      BY <2>2, <2>5
    <3> QED BY <2>1, <2>5, <3>3, <3>5, <3>7, StartPutDone
  <2> QED BY <1>2, <2>3, <2>4, <2>5 DEF SearcherModified
<1>3. CASE SearchSchemaModified
  <2> DEFINE k == NextPut.key[1]
             g == NextPut.key[2]
             v == NextPut.val
  <2>1. /\ tran.puts # <<>> /\ NextPut \in Puts /\ NextPut.at = "ss"
        /\ NextPut.key \in Sids \X Fields
    BY <1>3, <1>p, PutParts DEF SearchSchemaModified
  <2>2. k \in Sids /\ g \in Fields /\ NextPut.key = <<k, g>>
    BY <2>1
  <2>3. ASSUME PutDone
        PROVE  /\ phase = "up"
               /\ \A s \in Sids : wk'.sr[s] = wk.sr[s]
               /\ \A s \in Sids, f \in Fields :
                    wk'.ss[<<s, f>>] = IF s = k /\ f = g THEN v ELSE wk.ss[<<s, f>>]
    <3>1. wk' = Put(wk, NextPut) /\ NextPut.val = v /\ phase = "up"
      BY <2>1, <2>3, PutDoneIs
    <3>2. \A s \in Sids : wk'.sr[s] = wk.sr[s]
      BY <1>0, <2>1, <3>1, PutIs
    <3> HIDE DEF k, g, v
    <3>3. \A q \in Sids \X Fields : wk'.ss[q] = IF q = <<k, g>> THEN v ELSE wk.ss[q]
      BY <1>0, <2>1, <2>2, <3>1, PutIs
    <3> QED BY <3>1, <3>2, <3>3
  <2>4. CASE ~ HasSearch(k) /\ PutDone /\ UNCHANGED srch
    <3>1. ~ Targets(wk', k)
      BY <2>2, <2>3, <2>4 DEF StartInv, TargetsAreHeld, Targets
    <3>2. \A s \in Sids : HasSearch(s) => HasSearch(s)'
      BY <2>4 DEF HasSearch
    <3> HIDE DEF k, g, v
    <3> QED BY <2>1, <2>3, <2>4, <3>1, <3>2, StartPutDone
  <2>5. CASE PutFailed /\ UNCHANGED srch
    BY <2>1, <2>5, StartPutFailed
  <2>6. CASE HasSearch(k) /\ v \in Good /\ PutDone /\ srch' = [srch EXCEPT ![k].fields[g] = v]
    <3>1. srch[k].base # 0
      BY <1>0, <2>2, <2>6 DEF HasSearch, Searcher
    <3>2. srch'[k].base = srch[k].base /\ \A s \in Sids \ {k} : srch'[s] = srch[s]
      BY <1>0, <2>2, <2>6 DEF Searcher, Unregistered
    <3> HIDE DEF k, g, v
    <3>5. srch'[k] # Unregistered
      BY <3>1, <3>2 DEF Unregistered
    <3>3. srch'[k] # Unregistered /\ \A s \in Sids : HasSearch(s) => HasSearch(s)'
      BY <3>2, <3>5 DEF HasSearch
    <3>4. ASSUME Targets(wk', k)
          PROVE  /\ wk'.sr[k].qa # Bad
                 /\ \A f \in Fields : wk'.ss[<<k, f>>] \in Good \cup {Absent}
      <4>1. Targets(wk, k) /\ wk'.sr[k] = wk.sr[k]
        BY <2>2, <2>3, <2>6, <3>4 DEF Targets
      <4> QED BY <2>2, <2>3, <2>6, <4>1 DEF StartInv, SearchersLoad
    <3> QED BY <2>1, <2>3, <2>6, <3>3, <3>4, StartPutDone
  <2> QED BY <1>3, <2>4, <2>5, <2>6 DEF SearchSchemaModified
<1>4. CASE SearcherDeleted
  <2>1. PICK k \in Sids : /\ Removing([at |-> "sr", key |-> k])
                          /\ srch' = [srch EXCEPT ![k] = Unregistered]
    BY <1>4 DEF SearcherDeleted
  <2> DEFINE d == [at |-> "sr", key |-> k]
  <2>2. d \in Removes
    BY CellParts
  <2>3. \A s \in Sids : HasSearch(s) /\ d # [at |-> "sr", key |-> s] => HasSearch(s)'
    BY <1>0, <2>1 DEF HasSearch
  <2> HIDE DEF d
  <2>4. Removing(d)
    BY <2>1 DEF d
  <2> QED BY <2>2, <2>3, <2>4, StartRemoving
<1>5. CASE SearchSchemaDeleted
  <2>1. PICK k \in Sids, g \in Fields :
          /\ Removing(SearchSchemaAt(k, g))
          /\ srch' = IF HasSearch(k) THEN [srch EXCEPT ![k].fields[g] = Null] ELSE srch
    BY <1>5 DEF SearchSchemaDeleted, SearchSchemaAt
  <2>2. SearchSchemaAt(k, g) \in Removes
    BY CellParts DEF SearchSchemaAt
  <2>3. ASSUME NEW s \in Sids, HasSearch(s) PROVE HasSearch(s)'
    <3>1. srch[s].base # 0
      BY <1>0, <2>3 DEF HasSearch, Searcher
    <3>2. srch'[s].base = srch[s].base
      BY <1>0, <2>1, <2>3 DEF Searcher, Unregistered
    <3> QED BY <3>1, <3>2 DEF HasSearch, Unregistered
  <2> QED BY <2>1, <2>2, <2>3, StartRemoving
<1>6. CASE IndexerDeleted \/ IndexSchemaDeleted
  <2>1. PICK d \in Removes : Removing(d) /\ srch' = srch
    BY <1>6, CellParts DEF IndexerDeleted, IndexSchemaDeleted
  <2>2. \A s \in Sids : HasSearch(s) => HasSearch(s)'
    BY <2>1 DEF HasSearch
  <2> QED BY <2>1, <2>2, StartRemoving
<1> QED BY <1>1, <1>2, <1>3, <1>4, <1>5, <1>6 DEF Handlers

LEMMA StartStep ==
  ASSUME Transactional, TypeOK, RegisteredInv, TranInv, StartInv, [Next]_vars
  PROVE  StartInv'
<1>1. CASE UNCHANGED <<tran, db, wk, srch>> /\ phase' \in {phase, "down", "failed"}
  BY <1>1 DEF StartInv, SearchersLoad, TargetsAreHeld, Targets, HasSearch
<1>2. CASE Requests
  <2>1. tran = Idle /\ UNCHANGED <<phase, db, wk, srch>>
    BY <1>2, RequestAsked DEF Begin, memory
  <2>2. wk = db
    BY <2>1, TranParts DEF RegisteredInv
  <2> QED BY <2>1, <2>2 DEF StartInv, SearchersLoad, TargetsAreHeld, Targets, HasSearch
<1>3. CASE Handlers
  BY <1>3, StartHandlers
<1>4. CASE Commit
  <2>1. tran'.puts = <<>> /\ db' = wk /\ UNCHANGED <<phase, wk, srch>>
    BY <1>4 DEF Commit, memory, Idle
  <2> QED BY <2>1 DEF StartInv, SearchersLoad, TargetsAreHeld, Targets, HasSearch
<1>5. CASE Load
  <2>1. UNCHANGED <<db, wk, tran>> /\ wk = db /\ tran.puts = <<>> /\ db \in Store
    BY <1>5, TranParts DEF RegisteredInv, IdleIsCommitted, Load, TypeOK
  <2>2. ASSUME NEW s \in Sids, Targets(db, s) PROVE HasSearch(s)'
    <3> DEFINE v == db.sr[s]
               numbered == [i \in Iids |-> IF db.ix[i] = Absent THEN 0 ELSE 1]
    <3>1. v # Absent /\ v.target # {} /\ v \in SearcherNode
      BY <2>1, <2>2 DEF Targets, Store
    <3>2. ~ RegisterThrows(numbered, db, s, v)
      BY <1>5, <3>1 DEF Load, Loadable, SearcherLoads
    <3>3. First[v.target] \in Iids
      BY <3>1, FirstChooses DEF SearcherNode
    <3>4. db.ix[First[v.target]] # Absent
      BY <3>1, <3>2, <3>3 DEF RegisterThrows
    <3>5. ~ RegisterThrows(idx', db, s, v) /\ idx' \in [Iids -> Nat]
      BY <1>5, <3>2, <3>3, <3>4, LoadShape DEF RegisterThrows
    <3>6. srch'[s] = RegisterSearcher(idx', db, s, v)
      BY <1>5, <3>1, LoadedSearcherType DEF LoadedSearcher
    <3> QED BY <2>1, <3>1, <3>5, <3>6, RegisteredIsHeld DEF HasSearch
  <2>3. TargetsAreHeld(wk)'
    BY <2>1, <2>2 DEF TargetsAreHeld, Targets
  <2> QED BY <2>1, <2>3 DEF StartInv, SearchersLoad, Targets
<1>6. CASE Crash
  <2>1. phase' = "down" /\ db' = db /\ wk' = db
    BY <1>6 DEF Crash
  <2> QED BY <2>1 DEF StartInv, SearchersLoad, Targets
<1>7. CASE LoadFails \/ Retry \/ UNCHANGED vars
  BY <1>1, <1>7 DEF LoadFails, Retry, vars, memory
<1> QED BY <1>2, <1>3, <1>4, <1>5, <1>6, <1>7 DEF Next

(* What a start of the committed store can stumble over. *)
LEMMA BlockedBy ==
  ASSUME db \in Store, NamesLoad(db), SearchersLoad(db), ~ BlankOrNoTarget(db)
  PROVE  Loadable(db)
<1>1. ASSUME NEW i \in StoredIndexers(db) PROVE IndexerLoads(db, i)
  BY <1>1 DEF NamesLoad, BlankOrNoTarget, IndexerLoads, StoredIndexers
<1>2. ASSUME NEW s \in Sids, db.sr[s] # Absent PROVE SearcherLoads(db, s)
  <2> DEFINE v == db.sr[s]
             numbered == [i \in Iids |-> IF db.ix[i] = Absent THEN 0 ELSE 1]
  <2> SUFFICES ASSUME v.target # {} PROVE ~ RegisterThrows(numbered, db, s, v)
    BY DEF SearcherLoads, RegisterThrows
  <2>1. v.qa # Bad /\ \A f \in Fields : db.ss[<<s, f>>] \in Good \cup {Absent}
    BY <1>2 DEF SearchersLoad, Targets
  <2>2. First[v.target] \in Iids /\ db.ix[First[v.target]] # Absent
    BY <1>2 DEF BlankOrNoTarget, StoredIndexers
  <2>3. numbered[First[v.target]] # 0
    BY <2>2
  <2>4. SchemaNames(db, s) \subseteq Good
    BY <2>1 DEF SchemaNames
  <2> HIDE DEF numbered, v
  <2> QED BY <2>1, <2>3, <2>4 DEF RegisterThrows
<1> QED BY <1>1, <1>2 DEF Loadable

(* On the store that rolls back, a start of what is committed fails in three  *)
(* ways only: a blank query analyzer, a blank manual schema, a searcher whose *)
(* first target is gone.  No searcher is ever committed with an analyzer or a *)
(* schema that registerSearcher would reject at the load (REntry.java:123).   *)
THEOREM StartsAreBlockedByFew == Transactional => (Spec => []StartBlockedByFew)
<1> SUFFICES ASSUME Transactional PROVE Spec => []StartBlockedByFew
  OBVIOUS
<1> DEFINE Inv == TypeOK /\ RegisteredInv /\ TranInv /\ NamesInv /\ StartInv
<1>1. Init => NamesInv /\ StartInv
  <2>1. /\ \A i \in Iids : EmptyStore.ix[i] = Absent
        /\ \A k \in Iids \X Fields : EmptyStore.is[k] = Absent
        /\ \A s \in Sids : EmptyStore.sr[s] = Absent
    BY DEF EmptyStore
  <2>2. Absent # Bad /\ \A i \in Iids, f \in Fields : EmptyStore.is[<<i, f>>] = Absent
    BY <2>1, NamesDistinct
  <2> QED BY <2>1, <2>2 DEF Init, NamesInv, NamesLoad, StartInv, SearchersLoad, Targets
<1>2. Init => Inv
  BY <1>1, TypeInit, RegisteredInit, TranInit
<1>3. Inv /\ [Next]_vars => Inv'
  BY TypeStep, RegisteredStep, TranStep, NamesStep, StartStep DEF RegisteredInv
<1>4. Inv => StartBlockedByFew
  BY BlockedBy DEF StartBlockedByFew, NamesInv, StartInv, TypeOK
<1> QED BY <1>2, <1>3, <1>4, PTL DEF Spec
==============================================================================
