------------------------- MODULE IndexRequestsProofs -------------------------
(* Theorems about IndexRequests, for any indexes, requests and batches.       *)
EXTENDS IndexRequests, TLAPS

(* While a thread has the directory of an index it is running a request for   *)
(* that index, and what it would commit is a set of documents.                *)
WriterRunsOn(i) == writer[i] # None => /\ Running(writer[i]) /\ On(writer[i]) = i
                                       /\ draft[i] \in SUBSET Document
WriterRuns == \A i \in Indexes : WriterRunsOn(i)

(* The request takes documents out of an index, and this is one of them.      *)
MayTake(r, d) == /\ d.id \in IdsOf(r)
                 /\ request[r].overwrite \/ request[r].kind = "remove"

(* What it would commit lacks no document that it may not take out.           *)
DraftKeepsOn(i) == writer[i] # None => \A d \in index[i] \ draft[i] : MayTake(writer[i], d)

DraftKeeps == \A i \in Indexes : DraftKeepsOn(i)

TInv == TypeOK /\ WriterRuns

LEMMA RequestFields ==
  ASSUME NEW q \in Request
  PROVE  /\ q.on \in Indexes /\ q.done \in Nat /\ q.docs \in Batches
         /\ q.docs \in Seq(Ids \cup {Bad})
         /\ q.within \in Withins /\ q.within \in Nat
BY BatchesAreSequences, WithinsAreNumbers DEF Request

LEMMA RunningFields ==
  ASSUME TypeOK, NEW r \in Requests, request[r] # Idle
  PROVE  /\ request[r] \in Request
         /\ On(r) \in Indexes
         /\ request[r].docs \in Seq(Ids \cup {Bad})
         /\ request[r].done \in 0 .. Len(request[r].docs)
         /\ Len(request[r].docs) \in Nat
<1>1. request[r] \in Request
  BY DEF TypeOK
<1>2. request[r].docs \in Seq(Ids \cup {Bad}) /\ On(r) \in Indexes
  BY <1>1, RequestFields DEF On
<1> QED BY <1>1, <1>2 DEF TypeOK

LEMMA NextDocIs ==
  ASSUME TypeOK, NEW r \in Requests, request[r] # Idle, More(r), NextDoc(r) # Bad
  PROVE  /\ NextDoc(r) \in Ids /\ NextDoc(r) \in IdsOf(r)
         /\ request[r].done + 1 \in 1 .. Len(request[r].docs)
<1>1. request[r].done + 1 \in 1 .. Len(request[r].docs)
  BY RunningFields DEF More
<1>2. request[r].done + 1 \in DOMAIN request[r].docs
  BY <1>1, RunningFields
<1>3. NextDoc(r) \in Ids \cup {Bad}
  BY <1>1, RunningFields DEF NextDoc
<1> QED BY <1>1, <1>2, <1>3 DEF NextDoc, IdsOf

LEMMA SessionTyped ==
  ASSUME TInv, NEW r \in Requests, request[r] # Idle
  PROVE  Session(r, On(r)) \in SUBSET Document
<1>1. On(r) \in Indexes
  BY RunningFields DEF TInv
<1> QED BY <1>1, NoneIsNoThread DEF TInv, TypeOK, IndexTypes, Session, WriterRuns, WriterRunsOn

LEMMA AppliedIs ==
  ASSUME TInv, NEW r \in Requests, request[r] # Idle, More(r), NextDoc(r) # Bad
  PROVE  /\ Applied(r) \in SUBSET Document
         /\ \A d \in Session(r, On(r)) \ Applied(r) : MayTake(r, d)
<1> DEFINE d == [by |-> r, n |-> request[r].done + 1, id |-> NextDoc(r)]
           old == Session(r, On(r))
           others == {e \in old : e.id # d.id}
<1>1. d \in Document
  BY NextDocIs, RunningFields DEF Document, TInv
<1>2. old \in SUBSET Document
  BY SessionTyped
<1>3. \/ Applied(r) = others /\ request[r].kind = "remove"
      \/ Applied(r) = others \cup {d} /\ request[r].overwrite
      \/ Applied(r) = old \cup {d}
  BY DEF Applied, On
<1>4. d.id = NextDoc(r) /\ NextDoc(r) \in IdsOf(r)
  BY NextDocIs DEF TInv
<1>5. \A e \in old \ Applied(r) : e.id = d.id /\ (request[r].overwrite \/ request[r].kind = "remove")
  BY <1>3
<1>6. Applied(r) \in SUBSET Document
  BY <1>1, <1>2, <1>3
<1> HIDE DEF d, old
<1>7. \A e \in old \ Applied(r) : MayTake(r, e)
  BY <1>4, <1>5 DEF MayTake
<1> QED BY <1>6, <1>7 DEF old
------------------------------------------------------------------------------
LEMMA TypeInit == Init => TInv
BY DEF Init, IndexInit, TInv, TypeOK, IndexTypes, WriterRuns, WriterRunsOn

LEMMA TypeStep == TInv /\ [Next]_vars => TInv'
<1> SUFFICES ASSUME TInv, [Next]_vars PROVE TInv'
  OBVIOUS
<1>0. TypeOK /\ WriterRuns
  BY DEF TInv
<1>1. ASSUME NEW r \in Requests, Arrive(r) PROVE TInv'
  <2>1. PICK k \in Kinds, b \in Batches, w \in Withins, o \in BOOLEAN, i \in Indexes :
          request' = [request EXCEPT ![r] =
            [kind |-> k, docs |-> b, within |-> w, overwrite |-> o, on |-> i,
             at |-> "wait", done |-> 0, answer |-> "none"]]
    BY <1>1 DEF Arrive
  <2> DEFINE q == [kind |-> k, docs |-> b, within |-> w, overwrite |-> o, on |-> i,
                   at |-> "wait", done |-> 0, answer |-> "none"]
  <2>2. q \in Request /\ q.done = 0
    BY DEF Request
  <2>3. Len(q.docs) \in Nat
    BY BatchesAreSequences
  <2>4. request' = [request EXCEPT ![r] = q]
    BY <2>1
  <2> HIDE DEF q
  <2>5. TypeOK'
    BY <1>0, <1>1, <2>2, <2>3, <2>4 DEF TypeOK, Arrive, ixvars, IndexTypes
  <2>6. \A i2 \in Indexes : writer[i2] # r
    BY <1>0, <1>1, NoneIsNoThread DEF WriterRuns, WriterRunsOn, Running, Arrive
  <2>7. WriterRuns'
    BY <1>0, <1>1, <2>4, <2>6 DEF WriterRuns, WriterRunsOn, Running, On, Arrive, ixvars, TypeOK, IndexTypes
  <2> QED BY <2>5, <2>7 DEF TInv
<1>2. ASSUME NEW r \in Requests, Enter(r) PROVE TInv'
  <2>1. request[r] # Idle /\ request[r].at = "wait"
    BY <1>2 DEF Enter, Waiting
  <2>2. request' = [request EXCEPT ![r].at = "work"]
    BY <1>2 DEF Enter
  <2>3. [request[r] EXCEPT !.at = "work"] \in Request
    BY <1>0, <2>1, RunningFields DEF Request
  <2>4. request' \in [Requests -> Request \cup {Idle}]
    BY <1>0, <2>2, <2>3 DEF TypeOK
  <2>5. UNCHANGED <<index, writer, draft>> /\ lock' \in [Indexes -> Requests \cup {None}]
    BY <1>0, <1>2, RunningFields, <2>1 DEF Enter, TakeLock, GiveUpLock, TypeOK, IndexTypes, ixvars
  <2>6. \A q \in Requests : request'[q] # Idle => request'[q].done \in 0 .. Len(request'[q].docs)
    BY <1>0, <2>1, <2>2, RunningFields DEF TypeOK
  <2>7. TypeOK'
    BY <1>0, <2>4, <2>5, <2>6 DEF TypeOK, IndexTypes
  <2>8. \A i \in Indexes : writer[i] # r
    BY <1>0, <2>1, NoneIsNoThread DEF WriterRuns, WriterRunsOn, Running
  <2>9. WriterRuns'
    BY <1>0, <2>2, <2>5, <2>8 DEF WriterRuns, WriterRunsOn, Running, On, TypeOK, IndexTypes
  <2> QED BY <2>7, <2>9 DEF TInv
<1>3. ASSUME NEW r \in Requests, Work(r) PROVE TInv'
  <2>1. request[r] # Idle /\ request[r].at = "work" /\ More(r) /\ NextDoc(r) # Bad
    BY <1>3 DEF Work, Running
  <2>2. request' = [request EXCEPT ![r].done = @ + 1]
    BY <1>3 DEF Work
  <2>3. Applied(r) \in SUBSET Document
    BY <2>1, AppliedIs
  <2>4. On(r) \in Indexes
    BY <1>0, <2>1, RunningFields
  <2>5. request[r].done + 1 \in 0 .. Len(request[r].docs)
    BY <1>0, <2>1, NextDocIs
  <2>6. request[r] \in Request
    BY <1>0, <2>1, RunningFields
  <2>7. [request[r] EXCEPT !.done = @ + 1] \in Request
    BY <2>5, <2>6 DEF Request
  <2>8. /\ lock' = lock
        /\ writer' = [writer EXCEPT ![On(r)] = r]
        /\ draft' = [draft EXCEPT ![On(r)] = Applied(r)]
        /\ index' = index \/ index' = [index EXCEPT ![On(r)] = Applied(r)]
    BY <1>3 DEF Work, Change, ChangeAndCommit
  <2>9. IndexTypes(SUBSET Document)'
    BY <1>0, <2>3, <2>4, <2>8 DEF TypeOK, IndexTypes
  <2>10. request' \in [Requests -> Request \cup {Idle}]
    BY <1>0, <2>2, <2>7 DEF TypeOK
  <2>11. \A q \in Requests : request'[q] # Idle => request'[q].done \in 0 .. Len(request'[q].docs)
    BY <1>0, <2>1, <2>2, <2>5 DEF TypeOK
  <2>12. \A q \in Requests : Running(q) => Running(q)' /\ On(q)' = On(q)
    BY <1>0, <2>1, <2>2, <2>7, <2>6, IdleIsNoRequest DEF TypeOK, Running, On
  <2>13. WriterRuns'
    <3> SUFFICES ASSUME NEW i \in Indexes PROVE WriterRunsOn(i)'
      BY DEF WriterRuns
    <3>1. CASE i = On(r)
      <4>1. writer'[i] = r /\ draft'[i] = Applied(r)
        BY <1>0, <2>4, <2>8, <3>1 DEF TypeOK, IndexTypes
      <4>2. Running(r)' /\ On(r)' = i
        BY <1>3, <2>12, <3>1 DEF Work
      <4> QED BY <2>3, <4>1, <4>2 DEF WriterRunsOn, Running, On
    <3>2. CASE i # On(r)
      <4>1. writer'[i] = writer[i] /\ draft'[i] = draft[i]
        BY <1>0, <2>4, <2>8, <3>2 DEF TypeOK, IndexTypes
      <4>2. CASE writer[i] = None
        BY <4>1, <4>2 DEF WriterRunsOn
      <4>3. CASE writer[i] # None
        <5>1. writer[i] \in Requests /\ Running(writer[i]) /\ On(writer[i]) = i /\ draft[i] \in SUBSET Document
          BY <1>0, <4>3 DEF TypeOK, IndexTypes, WriterRuns, WriterRunsOn
        <5>2. \A q \in Requests : Running(q) => request'[q] # Idle /\ request'[q].at = "work" /\ request'[q].on = On(q)
          BY <2>12 DEF Running, On
        <5> QED BY <4>1, <5>1, <5>2 DEF WriterRunsOn, Running, On
      <4> QED BY <4>2, <4>3
    <3> QED BY <3>1, <3>2
  <2> QED BY <2>9, <2>10, <2>11, <2>13 DEF TInv, TypeOK
<1>4. ASSUME NEW r \in Requests, NEW ok \in BOOLEAN, Running(r), Answered(r, ok), LetGo(r, On(r)),
             index' = index \/ index' = [index EXCEPT ![On(r)] = Session(r, On(r))]
      PROVE  TInv'
  <2>1. request[r] # Idle /\ request[r] \in Request /\ On(r) \in Indexes
    BY <1>0, <1>4, RunningFields DEF Running
  <2>2. AnswerOf(r, ok) \in {"ok", "null", "error"}
    BY DEF AnswerOf
  <2>3. request' = [request EXCEPT ![r] = [request[r] EXCEPT !.at = "end", !.answer = AnswerOf(r, ok)]]
    BY <1>0, <1>4 DEF Answered, TypeOK
  <2>4. [request[r] EXCEPT !.at = "end", !.answer = AnswerOf(r, ok)] \in Request
    BY <2>1, <2>2 DEF Request
  <2>5. request' \in [Requests -> Request \cup {Idle}]
    BY <1>0, <2>3, <2>4 DEF TypeOK
  <2>6. \A q \in Requests : request'[q] # Idle => request'[q].done \in 0 .. Len(request'[q].docs)
    BY <1>0, <2>1, <2>3 DEF TypeOK
  <2>7. Session(r, On(r)) \in SUBSET Document
    BY <2>1, SessionTyped
  <2>8. IndexTypes(SUBSET Document)'
    BY <1>0, <1>4, <2>1, <2>7 DEF TypeOK, IndexTypes, LetGo
  <2>9. WriterRuns'
    <3> SUFFICES ASSUME NEW i \in Indexes PROVE WriterRunsOn(i)'
      BY DEF WriterRuns
    <3>1. writer'[i] = None \/ (writer'[i] = writer[i] /\ draft'[i] = draft[i] /\ writer[i] # r)
      <4>1. CASE i = On(r)
        BY <1>0, <1>4, <2>1, <4>1 DEF LetGo, TypeOK, IndexTypes
      <4>2. CASE i # On(r)
        <5>1. writer'[i] = writer[i] /\ draft'[i] = draft[i]
          BY <1>0, <1>4, <2>1, <4>2 DEF LetGo, TypeOK, IndexTypes
        <5>2. writer[i] # r
          BY <1>0, <4>2, NoneIsNoThread DEF WriterRuns, WriterRunsOn
        <5> QED BY <5>1, <5>2
      <4> QED BY <4>1, <4>2
    <3>2. CASE writer'[i] = None
      BY <3>2 DEF WriterRunsOn
    <3>3. CASE writer'[i] # None
      <4>1. /\ writer[i] \in Requests \ {r} /\ Running(writer[i]) /\ On(writer[i]) = i
            /\ draft[i] \in SUBSET Document
        BY <1>0, <3>1, <3>3 DEF WriterRuns, WriterRunsOn, TypeOK, IndexTypes
      <4>2. request'[writer[i]] = request[writer[i]]
        BY <1>0, <2>3, <4>1 DEF TypeOK
      <4> QED BY <3>1, <3>3, <4>1, <4>2 DEF WriterRunsOn, Running, On
    <3> QED BY <3>2, <3>3
  <2> QED BY <2>5, <2>6, <2>8, <2>9 DEF TInv, TypeOK
<1>5. ASSUME NEW r \in Requests, Return(r) PROVE TInv'
  BY <1>4, <1>5 DEF Return, CloseSession
<1>6. ASSUME NEW r \in Requests, Throw(r) PROVE TInv'
  BY <1>4, <1>6 DEF Throw, AbortSession
<1>7. ASSUME Crash PROVE TInv'
  <2>1. \A r \in Requests : Open(r) => [request[r] EXCEPT !.at = "end", !.answer = "lost"] \in Request
    BY <1>0, RunningFields DEF Open, Request
  <2>2. request' \in [Requests -> Request \cup {Idle}]
    BY <1>0, <1>7, <2>1 DEF Crash, TypeOK
  <2>3. \A q \in Requests : request'[q] # Idle => request'[q].done \in 0 .. Len(request'[q].docs)
    <3> SUFFICES ASSUME NEW q \in Requests, request'[q] # Idle
                 PROVE  request'[q].done \in 0 .. Len(request'[q].docs)
      OBVIOUS
    <3>1. CASE Open(q)
      <4>1. request[q] # Idle /\ request[q] \in Request
        BY <1>0, <3>1, RunningFields DEF Open
      <4>2. request'[q] = [request[q] EXCEPT !.at = "end", !.answer = "lost"]
        BY <1>7, <3>1 DEF Crash
      <4>3. request'[q].done = request[q].done /\ request'[q].docs = request[q].docs
        BY <4>1, <4>2 DEF Request
      <4> QED BY <1>0, <4>1, <4>3 DEF TypeOK
    <3>2. CASE ~Open(q)
      <4>1. request'[q] = request[q]
        BY <1>7, <3>2 DEF Crash
      <4> QED BY <1>0, <4>1 DEF TypeOK
    <3> QED BY <3>1, <3>2
  <2>4. IndexTypes(SUBSET Document)'
    BY <1>0, <1>7 DEF Crash, IndexCrash, TypeOK, IndexTypes
  <2>5. WriterRuns'
    BY <1>7 DEF Crash, IndexCrash, WriterRuns, WriterRunsOn
  <2> QED BY <2>2, <2>3, <2>4, <2>5 DEF TInv, TypeOK
<1>8. CASE UNCHANGED vars
  BY <1>0, <1>8 DEF TInv, TypeOK, IndexTypes, WriterRuns, WriterRunsOn, Running, On, vars
<1> QED BY <1>1, <1>2, <1>3, <1>5, <1>6, <1>7, <1>8 DEF Next, Step

(* IndexerWeb.java:396-509: the indexes, the locks and the requests have      *)
(* their types, for any batches and any within.                               *)
THEOREM TypeCorrect == Spec => []TypeOK
<1>1. Init => TInv
  BY TypeInit
<1>2. TInv /\ [Next]_vars => TInv'
  BY TypeStep
<1>3. TInv => TypeOK
  BY DEF TInv
<1> QED BY <1>1, <1>2, <1>3, PTL DEF Spec
------------------------------------------------------------------------------
(* What the session of a writer would commit lacks only what it may take.     *)
LEMMA SessionKeeps ==
  ASSUME TInv, DraftKeeps, NEW r \in Requests, Running(r), CanWrite(r, On(r))
  PROVE  \A d \in index[On(r)] \ Session(r, On(r)) : MayTake(r, d)
<1>1. On(r) \in Indexes
  BY RunningFields DEF TInv, Running
<1> QED BY <1>1, NoneIsNoThread DEF Session, CanWrite, DraftKeeps, DraftKeepsOn

LEMMA KeepsStep == TInv /\ DraftKeeps /\ [Next]_vars => DraftKeeps' /\ (TakenByARequest \/ UNCHANGED vars)
<1> SUFFICES ASSUME TInv, DraftKeeps, [Next]_vars
             PROVE  DraftKeeps' /\ (TakenByARequest \/ UNCHANGED vars)
  OBVIOUS
<1>0. TypeOK /\ WriterRuns
  BY DEF TInv
<1>1. ASSUME UNCHANGED <<index, writer, draft>>,
             \A q \in Requests : Running(q) =>
               /\ request'[q] # Idle /\ request'[q].docs = request[q].docs
               /\ request'[q].overwrite = request[q].overwrite
               /\ request'[q].kind = request[q].kind
      PROVE  DraftKeeps' /\ TakenByARequest
  <2>1. ASSUME NEW i \in Indexes PROVE DraftKeepsOn(i)'
    <3>1. CASE writer[i] = None
      BY <1>1, <3>1 DEF DraftKeepsOn
    <3>2. CASE writer[i] # None
      <4>1. writer[i] \in Requests /\ Running(writer[i]) /\ request[writer[i]] # Idle
        BY <1>0, <3>2 DEF WriterRuns, WriterRunsOn, Running, TypeOK, IndexTypes
      <4>2. \A d \in index[i] \ draft[i] : MayTake(writer[i], d)
        BY <3>2 DEF DraftKeeps, DraftKeepsOn
      <4>3. \A d \in index[i] \ draft[i] : MayTake(writer[i], d)'
        <5> SUFFICES ASSUME NEW d \in index[i] \ draft[i] PROVE MayTake(writer[i], d)'
          OBVIOUS
        <5> QED BY <1>1, <4>1, <4>2 DEF MayTake, IdsOf
      <4> QED BY <1>1, <4>3 DEF DraftKeepsOn, MayTake, IdsOf
    <3> QED BY <3>1, <3>2
  <2> QED BY <1>1, <2>1 DEF DraftKeeps, TakenByARequest
<1>2. ASSUME NEW r \in Requests, Arrive(r) PROVE DraftKeeps' /\ TakenByARequest
  BY <1>0, <1>1, <1>2 DEF Arrive, ixvars, Running, TypeOK
<1>3. ASSUME NEW r \in Requests, Enter(r) PROVE DraftKeeps' /\ TakenByARequest
  <2>1. UNCHANGED <<index, writer, draft>>
    BY <1>3 DEF Enter, TakeLock, GiveUpLock, ixvars
  <2>2. \A q \in Requests : Running(q) => request'[q] = request[q] /\ request[q] # Idle
    BY <1>0, <1>3 DEF Enter, Waiting, Running, TypeOK
  <2> QED BY <1>1, <2>1, <2>2
<1>4. ASSUME NEW r \in Requests, NEW content, Running(r), CanWrite(r, On(r)),
             \A d \in index[On(r)] \ content : MayTake(r, d),
             index' = index \/ index' = [index EXCEPT ![On(r)] = content]
      PROVE  TakenByARequest
  <2>1. On(r) \in Indexes
    BY <1>0, <1>4, RunningFields DEF Running
  <2>2. ASSUME NEW i \in Indexes, NEW d \in index[i] \ index'[i]
        PROVE  On(r) = i /\ MayTake(r, d)
    BY <1>0, <1>4, <2>1, <2>2 DEF TypeOK, IndexTypes
  <2> QED BY <1>4, <2>2 DEF TakenByARequest, MayTake
<1>5. ASSUME NEW r \in Requests, Work(r) PROVE DraftKeeps' /\ TakenByARequest
  <2>1. /\ Running(r) /\ request[r] # Idle /\ More(r) /\ NextDoc(r) # Bad
        /\ request' = [request EXCEPT ![r].done = @ + 1]
    BY <1>5 DEF Work, Running
  <2>2. /\ CanWrite(r, On(r))
        /\ writer' = [writer EXCEPT ![On(r)] = r]
        /\ draft' = [draft EXCEPT ![On(r)] = Applied(r)]
        /\ index' = index \/ index' = [index EXCEPT ![On(r)] = Applied(r)]
    BY <1>5 DEF Work, Change, ChangeAndCommit
  <2>3. \A d \in index[On(r)] \ Applied(r) : MayTake(r, d)
    BY <2>1, <2>2, SessionKeeps, AppliedIs
  <2>4. On(r) \in Indexes /\ request[r] \in Request
    BY <1>0, <2>1, RunningFields
  <2>5. \A q \in Requests : Running(q) =>
               /\ request'[q] # Idle /\ request'[q].docs = request[q].docs
               /\ request'[q].overwrite = request[q].overwrite
               /\ request'[q].kind = request[q].kind
    <3>1. [request[r] EXCEPT !.done = @ + 1] # Idle
      <4>1. request[r].done + 1 \in Nat
        BY <2>4, RequestFields
      <4>2. [request[r] EXCEPT !.done = @ + 1] \in Request
        BY <2>4, <4>1 DEF Request
      <4> QED BY <4>2, IdleIsNoRequest
    <3> QED BY <1>0, <2>1, <2>4, <3>1 DEF TypeOK, Running, Request
  <2>6. ASSUME NEW i \in Indexes PROVE DraftKeepsOn(i)'
    <3>1. CASE i = On(r)
      <4>1. writer'[i] = r /\ draft'[i] = Applied(r) /\ index'[i] \in {index[i], Applied(r)}
        BY <1>0, <2>2, <2>4, <3>1 DEF TypeOK, IndexTypes
      <4>2. \A d \in index'[i] \ draft'[i] : MayTake(r, d)
        BY <2>3, <3>1, <4>1
      <4> QED BY <2>1, <2>5, <4>1, <4>2 DEF DraftKeepsOn, MayTake, IdsOf
    <3>2. CASE i # On(r)
      <4>1. writer'[i] = writer[i] /\ draft'[i] = draft[i] /\ index'[i] = index[i]
        BY <1>0, <2>2, <2>4, <3>2 DEF TypeOK, IndexTypes
      <4>2. CASE writer[i] = None
        BY <4>1, <4>2 DEF DraftKeepsOn
      <4>3. CASE writer[i] # None
        <5>1. writer[i] \in Requests /\ Running(writer[i]) /\ request[writer[i]] # Idle
          BY <1>0, <4>3 DEF WriterRuns, WriterRunsOn, Running, TypeOK, IndexTypes
        <5>2. \A d \in index[i] \ draft[i] : MayTake(writer[i], d)
          BY <4>3 DEF DraftKeeps, DraftKeepsOn
        <5> QED BY <2>5, <4>1, <5>1, <5>2 DEF DraftKeepsOn, MayTake, IdsOf
      <4> QED BY <4>2, <4>3
    <3> QED BY <3>1, <3>2
  <2> QED BY <1>4, <2>1, <2>2, <2>3, <2>6 DEF DraftKeeps
<1>6. ASSUME NEW r \in Requests, NEW ok \in BOOLEAN, Running(r), Answered(r, ok), LetGo(r, On(r)),
             \/ index' = index
             \/ CanWrite(r, On(r)) /\ index' = [index EXCEPT ![On(r)] = Session(r, On(r))]
      PROVE  DraftKeeps' /\ TakenByARequest
  <2>1. On(r) \in Indexes
    BY <1>0, <1>6, RunningFields DEF Running
  <2>2. TakenByARequest
    <3>1. CASE index' = index
      BY <3>1 DEF TakenByARequest
    <3>2. CASE CanWrite(r, On(r)) /\ index' = [index EXCEPT ![On(r)] = Session(r, On(r))]
      BY <1>4, <1>6, <3>2, SessionKeeps
    <3> QED BY <1>6, <3>1, <3>2
  <2>3. ASSUME NEW i \in Indexes PROVE DraftKeepsOn(i)'
    <3>1. \/ writer'[i] = None
          \/ /\ writer'[i] = writer[i] /\ draft'[i] = draft[i] /\ index'[i] = index[i]
             /\ writer[i] # r
      <4>1. CASE i = On(r)
        BY <1>0, <1>6, <2>1, <4>1 DEF LetGo, TypeOK, IndexTypes, CanWrite
      <4>2. CASE i # On(r)
        <5>1. writer'[i] = writer[i] /\ draft'[i] = draft[i] /\ index'[i] = index[i]
          BY <1>0, <1>6, <2>1, <4>2 DEF LetGo, TypeOK, IndexTypes
        <5>2. writer[i] # r
          BY <1>0, <4>2, NoneIsNoThread DEF WriterRuns, WriterRunsOn
        <5> QED BY <5>1, <5>2
      <4> QED BY <4>1, <4>2
    <3>2. CASE writer'[i] = None
      BY <3>2 DEF DraftKeepsOn
    <3>3. CASE writer'[i] # None
      <4>1. writer[i] \in Requests \ {r}
        BY <1>0, <3>1, <3>3 DEF TypeOK, IndexTypes
      <4>2. request'[writer[i]] = request[writer[i]]
        BY <1>0, <1>6, <4>1 DEF Answered, TypeOK
      <4>3. \A d \in index[i] \ draft[i] : MayTake(writer[i], d)
        BY <3>1, <3>3 DEF DraftKeeps, DraftKeepsOn
      <4> QED BY <3>1, <3>3, <4>2, <4>3 DEF DraftKeepsOn, MayTake, IdsOf
    <3> QED BY <3>2, <3>3
  <2> QED BY <2>2, <2>3 DEF DraftKeeps
<1>7. ASSUME NEW r \in Requests, Return(r) PROVE DraftKeeps' /\ TakenByARequest
  BY <1>6, <1>7 DEF Return, CloseSession
<1>8. ASSUME NEW r \in Requests, Throw(r) PROVE DraftKeeps' /\ TakenByARequest
  BY <1>6, <1>8 DEF Throw, AbortSession
<1>9. ASSUME Crash PROVE DraftKeeps' /\ TakenByARequest
  BY <1>9 DEF Crash, IndexCrash, DraftKeeps, DraftKeepsOn, TakenByARequest
<1>10. CASE UNCHANGED vars
  <2>1. UNCHANGED <<index, writer, draft>> /\ request' = request
    BY <1>10 DEF vars
  <2> QED BY <1>1, <1>10, <2>1 DEF Running
<1> QED BY <1>2, <1>3, <1>5, <1>7, <1>8, <1>9, <1>10 DEF Next, Step

(* IndexerWeb.java:406-509, 616-625: for any batches, any within and any      *)
(* number of threads, a committed document goes only by a request that names  *)
(* its id, whichever job failed, was late or died.                            *)
THEOREM OthersKept == Spec => CommittedStays
<1>1. Init => TInv /\ DraftKeeps
  BY TypeInit DEF Init, IndexInit, DraftKeeps, DraftKeepsOn
<1>2. TInv /\ DraftKeeps /\ [Next]_vars => (TInv /\ DraftKeeps)'
  BY TypeStep, KeepsStep
<1>3. TInv /\ DraftKeeps /\ [Next]_vars => [TakenByARequest]_vars
  BY KeepsStep
<1> QED BY <1>1, <1>2, <1>3, PTL DEF Spec, CommittedStays
------------------------------------------------------------------------------
Seen(i) == index[i] \cup (IF writer[i] = None THEN {} ELSE draft[i])

(* A document of a request is one it has come to, at its place.               *)
Sound(r) ==
  \A i \in Indexes : \A d \in Seen(i) : d.by = r =>
    /\ request[r] # Idle /\ d.n \in 1 .. request[r].done
    /\ d.id = request[r].docs[d.n]

(* A request that has changed something has the directory until its end.      *)
Begun(r) == request[r] # Idle => /\ request[r].at = "wait" => request[r].done = 0
                                 /\ Running(r) /\ request[r].done > 0 => writer[On(r)] = r

(* Its own draft has all it came to, the index a prefix that ends with a      *)
(* unit, and the draft of another thread what the index has.                  *)
Tracks(r) ==
  Adds(r) /\ Apart(r) =>
    /\ \E k \in Cuts(r) : k <= request[r].done /\ Mine(r, index[On(r)]) = 1 .. k
    /\ writer[On(r)] = r => Mine(r, draft[On(r)]) = 1 .. request[r].done
    /\ writer[On(r)] \notin {None, r} => Mine(r, draft[On(r)]) = Mine(r, index[On(r)])

PInv == TInv /\ \A r \in Requests : Sound(r) /\ Begun(r) /\ Tracks(r)

(* A step that leaves what was asked for as it is. *)
SameAsk(x) ==
  IF request[x] = Idle THEN request'[x] = Idle
  ELSE /\ request'[x] # Idle
       /\ request'[x].docs = request[x].docs /\ request'[x].kind = request[x].kind
       /\ request'[x].within = request[x].within /\ request'[x].on = request[x].on

LEMMA SameAskKeeps ==
  ASSUME \A x \in Requests : SameAsk(x), NEW r \in Requests, request[r] # Idle
  PROVE  /\ Adds(r)' = Adds(r) /\ Apart(r)' = Apart(r) /\ Cuts(r)' = Cuts(r) /\ On(r)' = On(r)
         /\ request'[r] # Idle /\ request'[r].docs = request[r].docs
<1>1. \A x \in Requests : IdsOf(x)' = IdsOf(x)
  BY DEF SameAsk, IdsOf
<1>2. SameAsk(r)
  OBVIOUS
<1>3. Adds(r)' = Adds(r) /\ On(r)' = On(r) /\ request'[r] # Idle /\ request'[r].docs = request[r].docs
  BY <1>2 DEF SameAsk, Adds, On
<1>4. Apart(r)' = Apart(r)
  BY <1>1, <1>3 DEF Apart
<1>5. Cuts(r)' = Cuts(r)
  BY <1>2 DEF SameAsk, Cuts
<1> QED BY <1>3, <1>4, <1>5

LEMMA SameAskSteps ==
  ASSUME TInv, NEW r \in Requests,
         \/ Enter(r)
         \/ Work(r)
         \/ Running(r) /\ \E ok \in BOOLEAN : Answered(r, ok)
         \/ Crash
  PROVE  \A x \in Requests : SameAsk(x)
<1>0. TypeOK
  BY DEF TInv
<1>1. CASE Enter(r)
  <2>1. request[r] \in Request /\ request[r] # Idle
    BY <1>0, <1>1, RunningFields DEF Enter, Waiting
  <2>2. request' = [request EXCEPT ![r] = [request[r] EXCEPT !.at = "work"]]
    BY <1>0, <1>1 DEF Enter, TypeOK
  <2>3. [request[r] EXCEPT !.at = "work"] \in Request
    BY <2>1 DEF Request
  <2> QED BY <1>0, <2>1, <2>2, <2>3, IdleIsNoRequest DEF SameAsk, TypeOK, Request
<1>2. CASE Work(r)
  <2>1. request[r] \in Request /\ request[r] # Idle /\ request[r].done \in Nat
    BY <1>0, <1>2, RunningFields DEF Work, Running
  <2> DEFINE n == request[r].done + 1
  <2>2. request' = [request EXCEPT ![r] = [request[r] EXCEPT !.done = n]]
    BY <1>0, <1>2 DEF Work, TypeOK
  <2>3. [request[r] EXCEPT !.done = n] \in Request
    BY <2>1 DEF Request
  <2> HIDE DEF n
  <2> QED BY <1>0, <2>1, <2>2, <2>3, IdleIsNoRequest DEF SameAsk, TypeOK, Request
<1>3. CASE Running(r) /\ \E ok \in BOOLEAN : Answered(r, ok)
  <2>1. request[r] \in Request /\ request[r] # Idle
    BY <1>0, <1>3, RunningFields DEF Running
  <2>2. PICK ok \in BOOLEAN : Answered(r, ok)
    BY <1>3
  <2> DEFINE a == AnswerOf(r, ok)
  <2>3. a \in {"ok", "null", "error"}
    BY DEF AnswerOf
  <2>4. request' = [request EXCEPT ![r] = [request[r] EXCEPT !.at = "end", !.answer = a]]
    BY <1>0, <2>2 DEF Answered, TypeOK
  <2> HIDE DEF a
  <2>5. [request[r] EXCEPT !.at = "end", !.answer = a] \in Request
    BY <2>1, <2>3 DEF Request
  <2> QED BY <1>0, <2>1, <2>4, <2>5, IdleIsNoRequest DEF SameAsk, TypeOK, Request
<1>4. CASE Crash
  <2> SUFFICES ASSUME NEW x \in Requests PROVE SameAsk(x)
    OBVIOUS
  <2>1. CASE Open(x)
    <3>1. request[x] \in Request /\ request[x] # Idle
      BY <1>0, <2>1, RunningFields DEF Open
    <3>2. request'[x] = [request[x] EXCEPT !.at = "end", !.answer = "lost"]
      BY <1>4, <2>1 DEF Crash
    <3>3. request'[x] \in Request
      BY <3>1, <3>2 DEF Request
    <3> QED BY <3>1, <3>2, <3>3, IdleIsNoRequest DEF SameAsk, Request
  <2>2. CASE ~Open(x)
    BY <1>4, <2>2 DEF Crash, SameAsk
  <2> QED BY <2>1, <2>2
<1> QED BY <1>1, <1>2, <1>3, <1>4

(* What a job does leaves the documents of a request apart from it alone.     *)
LEMMA ApartKept ==
  ASSUME PInv, NEW r \in Requests, request[r] # Idle, Apart(r),
         NEW q \in Requests, q # r, Running(q), More(q), NextDoc(q) # Bad
  PROVE  Mine(r, Applied(q)) = Mine(r, Session(q, On(q)))
<1> DEFINE d == [by |-> q, n |-> request[q].done + 1, id |-> NextDoc(q)]
           old == Session(q, On(q))
           others == {e \in old : e.id # d.id}
<1>0. TInv /\ TypeOK /\ request[q] # Idle
  BY DEF PInv, TInv, Running
<1>1. d.by = q /\ d.id = NextDoc(q) /\ NextDoc(q) \in IdsOf(q) /\ NextDoc(q) # Bad
  BY <1>0, NextDocIs
<1>2. \A e \in old : e.by = r => e.id \in IdsOf(r)
  <2>1. On(q) \in Indexes
    BY <1>0, RunningFields
  <2>2. old \subseteq Seen(On(q))
    BY NoneIsNoThread DEF Seen, Session
  <2>3. \A e \in old : e.by = r => e.n \in 1 .. request[r].done /\ e.id = request[r].docs[e.n]
    BY <2>1, <2>2 DEF PInv, Sound
  <2>4. \A n \in 1 .. request[r].done : n \in DOMAIN request[r].docs
    BY <1>0, RunningFields
  <2> QED BY <2>3, <2>4 DEF IdsOf
<1>3. IdsOf(q) \cap IdsOf(r) \subseteq {Bad}
  BY DEF Apart
<1>4. \A e \in old : e.by = r => e \in others
  BY <1>1, <1>2, <1>3
<1>5. \/ Applied(q) = others
      \/ Applied(q) = others \cup {d}
      \/ Applied(q) = old \cup {d}
  BY DEF Applied, On
<1> HIDE DEF d, old
<1>6. {e \in Applied(q) : e.by = r} = {e \in old : e.by = r}
  BY <1>1, <1>4, <1>5
<1> QED BY <1>6 DEF Mine, old

(* The next document of a request comes to those that its session has.        *)
LEMMA NextIsAdded ==
  ASSUME PInv, NEW r \in Requests, Adds(r), Apart(r), Running(r), More(r), NextDoc(r) # Bad,
         CanWrite(r, On(r))
  PROVE  Mine(r, Applied(r)) = 1 .. request[r].done + 1
<1> DEFINE n == request[r].done + 1
           d == [by |-> r, n |-> n, id |-> NextDoc(r)]
           old == Session(r, On(r))
           others == {e \in old : e.id # d.id}
<1>0. TInv /\ TypeOK /\ request[r] # Idle /\ On(r) \in Indexes
  BY RunningFields DEF PInv, TInv, Running
<1>1. d.by = r /\ d.n = n /\ d.id = request[r].docs[n] /\ n \in DOMAIN request[r].docs
  BY <1>0, NextDocIs, RunningFields DEF NextDoc
<1>2. \A e \in old : e.by = r => e.n \in 1 .. request[r].done /\ e.id = request[r].docs[e.n]
  BY <1>0, NoneIsNoThread DEF Session, Seen, PInv, Sound
<1>3. request[r].done \in Nat /\ \A m \in 1 .. request[r].done : m \in DOMAIN request[r].docs /\ m # n
  BY <1>0, RunningFields
<1>4. \A e \in old : e.by = r => e.id # d.id
  BY <1>1, <1>2, <1>3 DEF Apart
<1>5. Applied(r) = others \cup {d} \/ Applied(r) = old \cup {d}
  BY DEF Applied, Adds, On
<1>6. Mine(r, old) = 1 .. request[r].done
  <2>1. CASE writer[On(r)] = r
    BY <1>0, <2>1 DEF Session, PInv, Tracks
  <2>2. CASE writer[On(r)] = None
    <3>1. request[r].done = 0
      BY <1>0, <1>3, <2>2, NoneIsNoThread DEF PInv, Begun
    <3>2. PICK k \in Cuts(r) : k <= request[r].done /\ Mine(r, index[On(r)]) = 1 .. k
      BY DEF PInv, Tracks
    <3>3. k \in Nat
      BY <1>0, RunningFields DEF Cuts
    <3>4. old = index[On(r)]
      BY <2>2, NoneIsNoThread DEF Session
    <3> QED BY <3>1, <3>2, <3>3, <3>4
  <2> QED BY <2>1, <2>2 DEF CanWrite
<1> HIDE DEF d, old, n
<1>7. {e \in Applied(r) : e.by = r} = {e \in old : e.by = r} \cup {d}
  BY <1>1, <1>4, <1>5
<1>8. Mine(r, Applied(r)) = Mine(r, old) \cup {n}
  BY <1>1, <1>7 DEF Mine
<1> QED BY <1>3, <1>6, <1>8 DEF n

(* The session of another thread has of a request apart what the index has.   *)
LEMMA SessionOfOthers ==
  ASSUME PInv, NEW r \in Requests, request[r] # Idle, Adds(r), Apart(r),
         NEW q \in Requests, q # r, On(r) = On(q), CanWrite(q, On(q))
  PROVE  Mine(r, Session(q, On(q))) = Mine(r, index[On(q)])
BY NoneIsNoThread DEF Session, CanWrite, PInv, Tracks

LEMMA TracksNow ==
  ASSUME NEW r, NEW i, NEW n, NEW C, Cuts(r)' = C, On(r)' = i, request'[r].done = n,
         \E k \in C : k <= n /\ Mine(r, index'[i]) = 1 .. k,
         writer'[i] = r => Mine(r, draft'[i]) = 1 .. n,
         writer'[i] \notin {None, r} => Mine(r, draft'[i]) = Mine(r, index'[i])
  PROVE  Tracks(r)'
BY DEF Tracks

LEMMA TracksWas ==
  ASSUME PInv, NEW r \in Requests, Adds(r), Apart(r)
  PROVE  /\ \E k \in Cuts(r) : k <= request[r].done /\ Mine(r, index[On(r)]) = 1 .. k
         /\ writer[On(r)] = r => Mine(r, draft[On(r)]) = 1 .. request[r].done
         /\ writer[On(r)] \notin {None, r} => Mine(r, draft[On(r)]) = Mine(r, index[On(r)])
         /\ request[r] # Idle /\ On(r) \in Indexes
BY RunningFields DEF PInv, Tracks, Adds, TInv

RInv(r) == Sound(r) /\ Begun(r) /\ Tracks(r)

(* A step that changes no document of r and keeps how far it has come.        *)
LEMMA QuietStep ==
  ASSUME PInv, NEW r \in Requests, \A x \in Requests : SameAsk(x),
         request[r] # Idle => request'[r].done = request[r].done,
         \A i \in Indexes : /\ {d \in Seen(i)' : d.by = r} \subseteq Seen(i)
                            /\ request[r] # Idle /\ On(r) = i /\ Adds(r) /\ Apart(r) =>
                                 /\ Mine(r, index'[i]) = Mine(r, index[i])
                                 /\ writer'[i] = r => writer[i] = r /\ draft'[i] = draft[i]
                                 /\ writer'[i] \notin {None, r} => Mine(r, draft'[i]) = Mine(r, index[i]),
         Begun(r)'
  PROVE  RInv(r)'
<1>1. Sound(r)'
  <2> SUFFICES ASSUME NEW i \in Indexes, NEW d \in Seen(i)', d.by = r
               PROVE  /\ request'[r] # Idle /\ d.n \in 1 .. request'[r].done
                      /\ d.id = request'[r].docs[d.n]
    BY DEF Sound
  <2>1. d \in Seen(i)
    OBVIOUS
  <2>2. request[r] # Idle /\ d.n \in 1 .. request[r].done /\ d.id = request[r].docs[d.n]
    BY <2>1 DEF PInv, Sound
  <2> QED BY <2>2 DEF SameAsk
<1>2. Tracks(r)'
  <2>1. CASE request[r] = Idle
    BY <2>1 DEF SameAsk, Tracks, Adds
  <2>2. CASE request[r] # Idle /\ Adds(r) /\ Apart(r)
    <3> DEFINE i == On(r)
               n == request[r].done
               C == Cuts(r)
    <3>1. i \in Indexes
      BY <2>2, TracksWas
    <3>2. Cuts(r)' = C /\ On(r)' = i /\ request'[r].done = n
      BY <2>2, SameAskKeeps
    <3>3. \E k \in C : k <= n /\ Mine(r, index'[i]) = 1 .. k
      BY <2>2, <3>1, TracksWas
    <3>4. writer'[i] = r => Mine(r, draft'[i]) = 1 .. n
      BY <2>2, <3>1, TracksWas
    <3>5. writer'[i] \notin {None, r} => Mine(r, draft'[i]) = Mine(r, index'[i])
      BY <2>2, <3>1
    <3> HIDE DEF i, n, C
    <3> QED BY <3>2, <3>3, <3>4, <3>5, TracksNow
  <2>3. CASE request[r] # Idle /\ ~(Adds(r) /\ Apart(r))
    <3>1. Adds(r)' = Adds(r) /\ Apart(r)' = Apart(r)
      BY <2>3, SameAskKeeps
    <3> QED BY <2>3, <3>1 DEF Tracks
  <2> QED BY <2>1, <2>2, <2>3
<1> QED BY <1>1, <1>2 DEF RInv

LEMMA ArriveStep ==
  ASSUME PInv, NEW q \in Requests, Arrive(q), NEW r \in Requests
  PROVE  RInv(r)'
<1>0. TInv /\ TypeOK /\ WriterRuns /\ request[q] = Idle /\ ixvars' = ixvars
  BY DEF PInv, TInv, Arrive
<1>1. PICK new \in Request : request' = [request EXCEPT ![q] = new] /\ new.done = 0 /\ new.at = "wait"
  <2>1. PICK k \in Kinds, b \in Batches, w \in Withins, o \in BOOLEAN, i \in Indexes :
          request' = [request EXCEPT ![q] =
            [kind |-> k, docs |-> b, within |-> w, overwrite |-> o, on |-> i,
             at |-> "wait", done |-> 0, answer |-> "none"]]
    BY DEF Arrive
  <2> DEFINE new == [kind |-> k, docs |-> b, within |-> w, overwrite |-> o, on |-> i,
                     at |-> "wait", done |-> 0, answer |-> "none"]
  <2>2. new \in Request /\ new.done = 0 /\ new.at = "wait"
    BY DEF Request
  <2>3. request' = [request EXCEPT ![q] = new]
    BY <2>1
  <2> HIDE DEF new
  <2> QED BY <2>2, <2>3
<1>2. \A i \in Indexes : Seen(i)' = Seen(i) /\ writer'[i] = writer[i] /\ draft'[i] = draft[i] /\ index'[i] = index[i]
  BY <1>0 DEF Seen, ixvars
<1>3. CASE r = q
  <2>1. \A i \in Indexes : \A d \in Seen(i) : d.by # r
    BY <1>0, <1>3 DEF PInv, Sound
  <2>2. request'[r] = new
    BY <1>0, <1>1, <1>3 DEF TypeOK
  <2>3. Sound(r)' /\ Begun(r)'
    BY <1>1, <1>2, <2>1, <2>2 DEF Sound, Begun, Running
  <2>4. Tracks(r)'
    <3> DEFINE i == On(r)'
    <3>1. i \in Indexes
      BY <1>1, <2>2, RequestFields DEF On
    <3>2. writer[i] # r
      BY <1>0, <1>3, <3>1, NoneIsNoThread DEF WriterRuns, WriterRunsOn, Running
    <3>3. Mine(r, index'[i]) = {}
      BY <1>2, <2>1, <3>1 DEF Mine, Seen
    <3>4. writer'[i] \notin {None, r} => Mine(r, draft'[i]) = {}
      BY <1>2, <2>1, <3>1 DEF Mine, Seen
    <3>5. 0 \in Cuts(r)'
      BY DEF Cuts
    <3>6. writer'[i] # r
      BY <1>2, <3>1, <3>2
    <3>7. Mine(r, index'[i]) = 1 .. 0 /\ 0 <= 0
      BY <3>3
    <3>8. \E k \in Cuts(r)' : k <= 0 /\ Mine(r, index'[i]) = 1 .. k
      BY <3>5, <3>7
    <3> HIDE DEF i
    <3>9. On(r)' = i
      BY DEF i
    <3> QED BY <1>1, <2>2, <3>3, <3>4, <3>6, <3>8, <3>9, TracksNow
  <2> QED BY <2>3, <2>4 DEF RInv
<1>4. CASE r # q
  <2>1. request'[r] = request[r]
    BY <1>0, <1>1, <1>4 DEF TypeOK
  <2>2. Sound(r)'
    BY <1>2, <2>1 DEF PInv, Sound
  <2>3. Begun(r)'
    <3>1. request[r] # Idle => On(r) \in Indexes
      BY <1>0, RunningFields
    <3> QED BY <1>2, <2>1, <3>1 DEF PInv, Begun, Running, On
  <2>4. Tracks(r)'
    <3> SUFFICES ASSUME Adds(r)', Apart(r)' PROVE Tracks(r)'
      BY DEF Tracks
    <3>1. Adds(r) /\ On(r)' = On(r) /\ Cuts(r)' = Cuts(r) /\ IdsOf(r)' = IdsOf(r)
      BY <2>1 DEF Adds, On, Cuts, IdsOf
    <3>2. \A p \in Requests : IdsOf(p) \subseteq IdsOf(p)'
      BY <1>0, <1>1 DEF IdsOf, TypeOK
    <3>3. Apart(r)
      BY <2>1, <3>1, <3>2 DEF Apart
    <3>4. On(r) \in Indexes
      BY <3>1, <3>3, TracksWas
    <3> QED BY <1>2, <2>1, <3>1, <3>3, <3>4, TracksWas, TracksNow
  <2> QED BY <2>2, <2>3, <2>4 DEF RInv
<1> QED BY <1>3, <1>4

LEMMA EnterStep ==
  ASSUME PInv, NEW q \in Requests, Enter(q), NEW r \in Requests
  PROVE  RInv(r)'
<1>0. TInv /\ TypeOK /\ request[q] # Idle /\ request[q].at = "wait" /\ request[q] \in Request
  BY RunningFields DEF PInv, TInv, Enter, Waiting
<1>1. UNCHANGED <<index, writer, draft>> /\ request' = [request EXCEPT ![q] = [request[q] EXCEPT !.at = "work"]]
  BY <1>0 DEF Enter, TakeLock, GiveUpLock, ixvars, TypeOK
<1>2. \A x \in Requests : SameAsk(x)
  BY <1>0, SameAskSteps
<1>3. request[r] # Idle => request'[r].done = request[r].done
  BY <1>0, <1>1 DEF TypeOK, Request
<1>4. Begun(r)'
  <2>1. CASE r = q
    <3>1. request'[r].done = 0 /\ request'[r].at # "wait"
      BY <1>0, <1>1, <2>1 DEF PInv, Begun, TypeOK, Request
    <3> QED BY <3>1 DEF Begun
  <2>2. CASE r # q
    <3>1. request'[r] = request[r]
      BY <1>0, <1>1, <2>2 DEF TypeOK
    <3> QED BY <1>1, <3>1 DEF PInv, Begun, Running, On
  <2> QED BY <2>1, <2>2
<1>5. ASSUME NEW i \in Indexes
      PROVE /\ {d \in Seen(i)' : d.by = r} \subseteq Seen(i)
            /\ request[r] # Idle /\ On(r) = i /\ Adds(r) /\ Apart(r) =>
                /\ Mine(r, index'[i]) = Mine(r, index[i])
                /\ writer'[i] = r => writer[i] = r /\ draft'[i] = draft[i]
                /\ writer'[i] \notin {None, r} => Mine(r, draft'[i]) = Mine(r, index[i])
  BY <1>1, TracksWas DEF Seen
<1> QED BY <1>2, <1>3, <1>4, <1>5, QuietStep

LEMMA WorkStep ==
  ASSUME PInv, NEW q \in Requests, Work(q), NEW j \in Indexes, On(q) = j, NEW r \in Requests
  PROVE  RInv(r)'
<1> DEFINE n == request[q].done + 1
<1>0. /\ TInv /\ TypeOK /\ Running(q) /\ request[q] # Idle /\ request[q] \in Request
      /\ More(q) /\ NextDoc(q) # Bad /\ j \in Indexes /\ n \in 1 .. Len(request[q].docs)
      /\ request[q].done \in Nat /\ request[q].at = "work"
  BY RunningFields, NextDocIs DEF PInv, TInv, Work, Running
<1>1. request' = [request EXCEPT ![q] = [request[q] EXCEPT !.done = n]]
  BY <1>0 DEF Work, TypeOK
<1>2. /\ CanWrite(q, j)
      /\ writer' = [writer EXCEPT ![j] = q]
      /\ draft' = [draft EXCEPT ![j] = Applied(q)]
      /\ \/ index' = index
         \/ index' = [index EXCEPT ![j] = Applied(q)] /\ UnitEnds(q) /\ ~DividesByZero(q)
  BY DEF Work, Change, ChangeAndCommit
<1>3. \A x \in Requests : SameAsk(x)
  BY <1>0, SameAskSteps
<1>4. \A i \in Indexes \ {j} : /\ writer'[i] = writer[i] /\ draft'[i] = draft[i] /\ index'[i] = index[i]
                               /\ Seen(i)' = Seen(i)
  BY <1>0, <1>2 DEF TypeOK, IndexTypes, Seen
<1>5. /\ writer'[j] = q /\ draft'[j] = Applied(q)
      /\ index'[j] = index[j] \/ (index'[j] = Applied(q) /\ UnitEnds(q) /\ ~DividesByZero(q))
      /\ Seen(j)' \subseteq index[j] \cup Applied(q)
  <2>1. writer'[j] = q /\ draft'[j] = Applied(q)
    BY <1>0, <1>2 DEF TypeOK, IndexTypes
  <2>2. index'[j] = index[j] \/ (index'[j] = Applied(q) /\ UnitEnds(q) /\ ~DividesByZero(q))
    <3>1. CASE index' = index
      BY <3>1
    <3>2. CASE index' = [index EXCEPT ![j] = Applied(q)] /\ UnitEnds(q) /\ ~DividesByZero(q)
      BY <1>0, <3>2 DEF TypeOK, IndexTypes
    <3> QED BY <1>2, <3>1, <3>2
  <2>3. Seen(j)' = index'[j] \cup (IF writer'[j] = None THEN {} ELSE draft'[j])
    BY DEF Seen
  <2>4. Seen(j)' \subseteq index'[j] \cup Applied(q)
    BY <2>1, <2>3
  <2>5. index'[j] \subseteq index[j] \cup Applied(q)
    BY <2>2
  <2> QED BY <2>1, <2>2, <2>4, <2>5
<1>6. Applied(q) \subseteq Session(q, j) \cup {[by |-> q, n |-> n, id |-> NextDoc(q)]}
  BY DEF Applied, On
<1>7. Session(q, j) \subseteq Seen(j) /\ index[j] \subseteq Seen(j)
  BY NoneIsNoThread DEF Session, Seen
<1>8. request'[q].done = n /\ request'[q].docs = request[q].docs /\ request'[q] # Idle /\ request'[q].at = "work"
      /\ On(q)' = j
  <2>1. request'[q] = [request[q] EXCEPT !.done = n]
    BY <1>0, <1>1 DEF TypeOK
  <2>2. SameAsk(q)
    BY <1>3
  <2> HIDE DEF n
  <2> QED BY <1>0, <2>1, <2>2 DEF SameAsk, Request, On
<1> HIDE DEF n
<1>9. CASE r = q
  <2>1. Sound(r)'
    <3> SUFFICES ASSUME NEW i \in Indexes, NEW d \in Seen(i)', d.by = r
                 PROVE  /\ request'[r] # Idle /\ d.n \in 1 .. request'[r].done
                        /\ d.id = request'[r].docs[d.n]
      BY DEF Sound
    <3>1. n = request[q].done + 1
      BY DEF n
    <3>2. CASE d \in Seen(i)
      <4>1. d.n \in 1 .. request[q].done /\ d.id = request[q].docs[d.n]
        BY <1>9, <3>2 DEF PInv, Sound
      <4> QED BY <1>0, <1>8, <1>9, <3>1, <4>1
    <3>3. CASE d \notin Seen(i)
      <4>1. d = [by |-> q, n |-> n, id |-> NextDoc(q)]
        <5>1. i = j
          BY <1>4, <3>3
        <5>2. d \in index[j] \cup Applied(q) /\ d \notin Seen(j)
          BY <1>5, <3>3, <5>1
        <5>3. d \in Applied(q) /\ d \notin Session(q, j)
          BY <1>7, <5>2
        <5> QED BY <1>6, <5>3
      <4>2. d.n = n /\ d.id = request[q].docs[n]
        BY <3>1, <4>1 DEF NextDoc
      <4> QED BY <1>0, <1>8, <1>9, <4>2
    <3> QED BY <3>2, <3>3
  <2>2. Begun(r)'
    BY <1>5, <1>8, <1>9 DEF Begun
  <2>3. Tracks(r)'
    <3> SUFFICES ASSUME Adds(r)', Apart(r)' PROVE Tracks(r)'
      BY DEF Tracks
    <3>1. Adds(r) /\ Apart(r) /\ Cuts(r)' = Cuts(r)
      BY <1>0, <1>3, <1>9, SameAskKeeps
    <3>2. Mine(r, Applied(r)) = 1 .. n
      BY <1>0, <1>2, <1>9, <3>1, NextIsAdded DEF n
    <3>3. \E k \in Cuts(r) : k <= n /\ Mine(r, index'[j]) = 1 .. k
      <4>1. CASE index'[j] = index[j]
        <5>1. PICK k \in Cuts(r) : k <= request[r].done /\ Mine(r, index[j]) = 1 .. k
          BY <1>9, <3>1, TracksWas
        <5>2. k \in Nat
          BY <1>0, <1>9, RunningFields DEF Cuts
        <5>3. k <= n
          BY <1>0, <1>9, <5>1, <5>2 DEF n
        <5> QED BY <4>1, <5>1, <5>3
      <4>2. CASE index'[j] = Applied(q) /\ UnitEnds(q) /\ ~DividesByZero(q)
        <5>1. request[r].kind # "json" /\ request[r].within # 0
          BY <1>9, <4>2 DEF UnitEnds, DividesByZero
        <5>2. n \in 2 .. Len(request[r].docs) /\ (n - 1) % request[r].within = 0
          BY <1>0, <1>9, <4>2, RunningFields DEF UnitEnds, n
        <5>3. n \in Cuts(r)
          BY <5>1, <5>2 DEF Cuts
        <5> QED BY <1>0, <1>9, <3>2, <4>2, <5>2, <5>3
      <4> QED BY <1>5, <4>1, <4>2
    <3>4. writer'[j] = r => Mine(r, draft'[j]) = 1 .. n
      BY <1>5, <1>9, <3>2
    <3>5. writer'[j] \notin {None, r} => Mine(r, draft'[j]) = Mine(r, index'[j])
      BY <1>5, <1>9
    <3> QED BY <1>8, <1>9, <3>1, <3>3, <3>4, <3>5, TracksNow
  <2> QED BY <2>1, <2>2, <2>3 DEF RInv
<1>10. CASE r # q
  <2>1. request'[r] = request[r]
    BY <1>0, <1>1, <1>10 DEF TypeOK
  <2>2. Begun(r)'
    <3> SUFFICES ASSUME request[r] # Idle PROVE Begun(r)'
      BY <2>1 DEF Begun
    <3>1. On(r) \in Indexes
      BY <1>0, RunningFields
    <3>2. Running(r) /\ request[r].done > 0 => writer'[On(r)] = r
      BY <1>2, <1>4, <1>10, <3>1, NoneIsNoThread DEF PInv, Begun, CanWrite
    <3> QED BY <2>1, <3>2 DEF PInv, Begun, Running, On
  <2>3. ASSUME NEW i \in Indexes
        PROVE /\ {d \in Seen(i)' : d.by = r} \subseteq Seen(i)
              /\ request[r] # Idle /\ On(r) = i /\ Adds(r) /\ Apart(r) =>
                  /\ Mine(r, index'[i]) = Mine(r, index[i])
                  /\ writer'[i] = r => writer[i] = r /\ draft'[i] = draft[i]
                  /\ writer'[i] \notin {None, r} => Mine(r, draft'[i]) = Mine(r, index[i])
    <3>1. CASE i # j
      <4>1. request[r] # Idle /\ On(r) = i /\ Adds(r) /\ Apart(r) /\ writer[i] \notin {None, r}
            => Mine(r, draft[i]) = Mine(r, index[i])
        BY TracksWas
      <4> QED BY <1>4, <3>1, <4>1
    <3>2. CASE i = j
      <4>1. {d \in Seen(i)' : d.by = r} \subseteq Seen(i)
        <5>1. \A d \in Applied(q) : d.by = r => d \in Session(q, j)
          BY <1>6, <1>10
        <5> QED BY <1>5, <1>7, <3>2, <5>1
      <4>2. ASSUME request[r] # Idle, On(r) = i, Adds(r), Apart(r)
            PROVE  Mine(r, Applied(q)) = Mine(r, index[i])
        <5>1. Mine(r, Applied(q)) = Mine(r, Session(q, On(q)))
          BY <1>0, <1>10, <4>2, ApartKept
        <5>2. Mine(r, Session(q, On(q))) = Mine(r, index[On(q)])
          BY <1>2, <1>10, <3>2, <4>2, SessionOfOthers
        <5> QED BY <3>2, <5>1, <5>2
      <4> QED BY <1>5, <1>10, <3>2, <4>1, <4>2
    <3> QED BY <3>1, <3>2
  <2> QED BY <1>3, <2>1, <2>2, <2>3, QuietStep
<1> QED BY <1>9, <1>10

LEMMA EndStep ==
  ASSUME PInv, NEW q \in Requests, Running(q), NEW ok \in BOOLEAN, Answered(q, ok), LetGo(q, On(q)),
         \/ index' = index
         \/ /\ CanWrite(q, On(q)) /\ ~More(q)
            /\ index' = [index EXCEPT ![On(q)] = Session(q, On(q))],
         NEW r \in Requests
  PROVE  RInv(r)'
<1> DEFINE j == On(q)
<1>0. /\ TInv /\ TypeOK /\ WriterRuns /\ request[q] # Idle /\ request[q] \in Request /\ j \in Indexes
      /\ Len(request[q].docs) \in Nat /\ request[q].done \in 0 .. Len(request[q].docs)
  BY RunningFields DEF PInv, TInv, Running
<1>1. \A x \in Requests : SameAsk(x)
  BY <1>0, SameAskSteps
<1>2. request'[q].done = request[q].done /\ request'[q].at = "end" /\ request'[q] # Idle
      /\ \A x \in Requests \ {q} : request'[x] = request[x]
  <2>1. request' = [request EXCEPT ![q] = [request[q] EXCEPT !.at = "end", !.answer = AnswerOf(q, ok)]]
    BY <1>0 DEF Answered, TypeOK
  <2>2. request'[q] = [request[q] EXCEPT !.at = "end", !.answer = AnswerOf(q, ok)]
    BY <1>0, <2>1 DEF TypeOK
  <2>3. request'[q].done = request[q].done /\ request'[q].at = "end"
    BY <1>0, <2>2 DEF Request
  <2> QED BY <1>0, <1>1, <2>1, <2>3 DEF TypeOK, SameAsk
<1>3. /\ writer'[j] = None \/ (writer'[j] = writer[j] /\ draft'[j] = draft[j] /\ writer[j] # q)
      /\ \A i \in Indexes \ {j} : writer'[i] = writer[i] /\ draft'[i] = draft[i] /\ index'[i] = index[i]
      /\ \/ index'[j] = index[j]
         \/ index'[j] = Session(q, j) /\ CanWrite(q, j) /\ ~More(q)
  BY <1>0 DEF LetGo, TypeOK, IndexTypes
<1>4. Session(q, j) \subseteq Seen(j) /\ index[j] \subseteq Seen(j)
  BY NoneIsNoThread DEF Session, Seen
<1>5. ASSUME NEW i \in Indexes PROVE Seen(i)' \subseteq Seen(i)
  <2>1. CASE i = j
    BY <1>3, <1>4, <2>1, NoneIsNoThread DEF Seen
  <2>2. CASE i # j
    BY <1>3, <2>2 DEF Seen
  <2> QED BY <2>1, <2>2
<1>6. writer'[j] \notin {None} => writer[j] = writer'[j] /\ draft'[j] = draft[j] /\ index'[j] = index[j]
  BY <1>3 DEF CanWrite
<1>7. \A i \in Indexes : writer'[i] # q
  <2>1. \A i \in Indexes \ {j} : writer[i] # q
    BY <1>0, NoneIsNoThread DEF WriterRuns, WriterRunsOn
  <2> QED BY <1>3, <2>1, NoneIsNoThread
<1> HIDE DEF j
<1>8. CASE r = q
  <2>1. Sound(r)'
    <3> SUFFICES ASSUME NEW i \in Indexes, NEW d \in Seen(i)', d.by = r
                 PROVE  /\ request'[r] # Idle /\ d.n \in 1 .. request'[r].done
                        /\ d.id = request'[r].docs[d.n]
      BY DEF Sound
    <3>1. d.n \in 1 .. request[r].done /\ d.id = request[r].docs[d.n]
      BY <1>5 DEF PInv, Sound
    <3> QED BY <1>0, <1>1, <1>2, <1>8, <3>1 DEF SameAsk
  <2>2. Begun(r)'
    BY <1>2, <1>8 DEF Begun, Running
  <2>3. Tracks(r)'
    <3> SUFFICES ASSUME Adds(r)', Apart(r)' PROVE Tracks(r)'
      BY DEF Tracks
    <3>1. Adds(r) /\ Apart(r) /\ Cuts(r)' = Cuts(r) /\ On(r)' = j
      BY <1>0, <1>1, <1>8, SameAskKeeps DEF j
    <3>2. /\ \E k \in Cuts(r) : k <= request[r].done /\ Mine(r, index[j]) = 1 .. k
          /\ writer[j] = r => Mine(r, draft[j]) = 1 .. request[r].done
          /\ writer[j] \notin {None, r} => Mine(r, draft[j]) = Mine(r, index[j])
      BY <1>8, <3>1, TracksWas DEF j
    <3>3. \E k \in Cuts(r) : k <= request[r].done /\ Mine(r, index'[j]) = 1 .. k
      <4>1. CASE index'[j] = index[j]
        BY <3>2, <4>1
      <4>2. CASE index'[j] = Session(q, j) /\ CanWrite(q, j) /\ ~More(q)
        <5>1. CASE writer[j] = r
          <6>1. index'[j] = draft[j]
            BY <1>8, <4>2, <5>1 DEF Session
          <6>2. request[r].done = Len(request[r].docs)
            BY <1>0, <1>8, <4>2 DEF More
          <6>3. request[r].done \in Cuts(r)
            BY <6>2 DEF Cuts
          <6>4. Mine(r, index'[j]) = 1 .. request[r].done /\ request[r].done <= request[r].done
            BY <1>0, <1>8, <3>2, <5>1, <6>1
          <6> QED BY <6>3, <6>4
        <5>2. CASE writer[j] # r
          <6>1. index'[j] = index[j]
            BY <1>8, <4>2, <5>2 DEF Session, CanWrite
          <6> QED BY <3>2, <6>1
        <5> QED BY <5>1, <5>2
      <4> QED BY <1>3, <4>1, <4>2
    <3>4. writer'[j] # r
      BY <1>0, <1>7, <1>8
    <3>5. writer'[j] \notin {None, r} => Mine(r, draft'[j]) = Mine(r, index'[j])
      BY <1>6, <3>2
    <3> QED BY <1>2, <1>8, <3>1, <3>3, <3>4, <3>5, TracksNow
  <2> QED BY <2>1, <2>2, <2>3 DEF RInv
<1>9. CASE r # q
  <2>1. request'[r] = request[r]
    BY <1>2, <1>9
  <2>2. Begun(r)'
    <3> SUFFICES ASSUME request[r] # Idle PROVE Begun(r)'
      BY <2>1 DEF Begun
    <3>1. On(r) \in Indexes
      BY <1>0, RunningFields
    <3>2. writer[On(r)] = r => writer'[On(r)] = r
      <4>1. CASE On(r) = j
        BY <1>0, <1>9, <4>1, NoneIsNoThread DEF LetGo, j, TypeOK, IndexTypes
      <4>2. CASE On(r) # j
        BY <1>3, <3>1, <4>2
      <4> QED BY <4>1, <4>2
    <3> QED BY <2>1, <3>2 DEF PInv, Begun, Running, On
  <2>3. ASSUME NEW i \in Indexes
        PROVE /\ {d \in Seen(i)' : d.by = r} \subseteq Seen(i)
              /\ request[r] # Idle /\ On(r) = i /\ Adds(r) /\ Apart(r) =>
                  /\ Mine(r, index'[i]) = Mine(r, index[i])
                  /\ writer'[i] = r => writer[i] = r /\ draft'[i] = draft[i]
                  /\ writer'[i] \notin {None, r} => Mine(r, draft'[i]) = Mine(r, index[i])
    <3>1. {d \in Seen(i)' : d.by = r} \subseteq Seen(i)
      BY <1>5
    <3>2. ASSUME request[r] # Idle, On(r) = i, Adds(r), Apart(r)
          PROVE  /\ Mine(r, index'[i]) = Mine(r, index[i])
                 /\ writer'[i] = r => writer[i] = r /\ draft'[i] = draft[i]
                 /\ writer'[i] \notin {None, r} => Mine(r, draft'[i]) = Mine(r, index[i])
      <4>1. writer[i] \notin {None, r} => Mine(r, draft[i]) = Mine(r, index[i])
        BY <3>2, TracksWas
      <4>2. CASE i # j
        BY <1>3, <4>1, <4>2
      <4>3. CASE i = j
        <5>1. CanWrite(q, j) => Mine(r, Session(q, j)) = Mine(r, index[j])
          BY <1>9, <3>2, <4>3, SessionOfOthers DEF j
        <5>2. Mine(r, index'[i]) = Mine(r, index[i])
          BY <1>3, <4>3, <5>1
        <5> QED BY <1>6, <4>1, <4>3, <5>2, NoneIsNoThread
      <4> QED BY <4>2, <4>3
    <3> QED BY <3>1, <3>2
  <2> QED BY <1>1, <2>1, <2>2, <2>3, QuietStep
<1> QED BY <1>8, <1>9

LEMMA CrashStep ==
  ASSUME PInv, Crash, NEW r \in Requests
  PROVE  RInv(r)'
<1>0. TInv /\ TypeOK
  BY DEF PInv, TInv
<1>1. \A x \in Requests : SameAsk(x)
  BY <1>0, SameAskSteps
<1>2. index' = index /\ \A i \in Indexes : writer'[i] = None
  BY DEF Crash, IndexCrash
<1>3. request[r] # Idle => request'[r].done = request[r].done /\ request'[r].at = "end"
  <2>1. CASE request[r] # Idle /\ Open(r)
    <3>1. request'[r] = [request[r] EXCEPT !.at = "end", !.answer = "lost"]
      BY <2>1 DEF Crash
    <3>2. request[r] \in Request
      BY <1>0, <2>1, RunningFields
    <3> QED BY <3>1, <3>2 DEF Request
  <2>2. CASE request[r] # Idle /\ ~Open(r)
    BY <2>2 DEF Crash, Open
  <2> QED BY <2>1, <2>2
<1>4. Begun(r)'
  BY <1>1, <1>3 DEF Begun, Running, SameAsk
<1>5. ASSUME NEW i \in Indexes
      PROVE /\ {d \in Seen(i)' : d.by = r} \subseteq Seen(i)
            /\ request[r] # Idle /\ On(r) = i /\ Adds(r) /\ Apart(r) =>
                /\ Mine(r, index'[i]) = Mine(r, index[i])
                /\ writer'[i] = r => writer[i] = r /\ draft'[i] = draft[i]
                /\ writer'[i] \notin {None, r} => Mine(r, draft'[i]) = Mine(r, index[i])
  BY <1>2, NoneIsNoThread DEF Seen
<1> QED BY <1>1, <1>3, <1>4, <1>5, QuietStep

LEMMA PrefixStep == PInv /\ [Next]_vars => PInv'
<1> SUFFICES ASSUME PInv, [Next]_vars PROVE PInv'
  OBVIOUS
<1>1. TInv'
  BY TypeStep DEF PInv
<1>2. ASSUME NEW r \in Requests PROVE RInv(r)'
  <2>1. ASSUME NEW q \in Requests, Return(q) PROVE RInv(r)'
    BY <2>1, EndStep DEF Return, CloseSession
  <2>2. ASSUME NEW q \in Requests, Throw(q) PROVE RInv(r)'
    BY <2>2, EndStep DEF Throw, AbortSession
  <2>3. CASE UNCHANGED vars
    BY <2>3 DEF vars, PInv, RInv, Sound, Begun, Tracks, Seen, Running, On, Adds, Apart, Cuts, IdsOf
  <2>4. ASSUME NEW q \in Requests, Work(q) PROVE RInv(r)'
    <3>1. On(q) \in Indexes
      BY <2>4, RunningFields DEF Work, Running, PInv, TInv
    <3> QED BY <2>4, <3>1, WorkStep
  <2> QED BY <2>1, <2>2, <2>3, <2>4, ArriveStep, EnterStep, CrashStep DEF Next, Step
<1> QED BY <1>1, <1>2 DEF PInv, RInv

LEMMA PrefixInit == Init => PInv
<1> SUFFICES ASSUME Init PROVE PInv
  OBVIOUS
<1>1. \A r \in Requests : request[r] = Idle
  BY DEF Init
<1>2. \A i \in Indexes : Seen(i) = {}
  BY DEF Init, IndexInit, Seen
<1> QED BY <1>1, <1>2, TypeInit DEF PInv, Sound, Begun, Tracks, Adds

(* IndexerWeb.java:461, 501: for any batches, any within and any number of    *)
(* threads, whatever fails or dies, an index has a prefix of each batch that  *)
(* ends with a unit.                                                          *)
THEOREM NoGaps == Spec => []PrefixOfUnits
<1>1. Init => PInv
  BY PrefixInit
<1>2. PInv /\ [Next]_vars => PInv'
  BY PrefixStep
<1>3. PInv => PrefixOfUnits
  BY TracksWas DEF PrefixOfUnits, Stored
<1> QED BY <1>1, <1>2, <1>3, PTL DEF Spec
------------------------------------------------------------------------------
(* A request that was answered is at its end, and index.csv has stored all   *)
(* it answered for.                                                          *)
Truth(r) ==
  Adds(r) /\ request[r].kind = "csv" /\ Apart(r) /\ request[r].answer = "ok"
    => Stored(r) = 1 .. Len(request[r].docs)

OkEnds(r) == request[r] # Idle /\ request[r].answer = "ok" => request[r].at = "end"

CsvInv == PInv /\ \A r \in Requests : Truth(r) /\ OkEnds(r)

(* No step touches what the index has of a request that is over.             *)
LEMMA OverKept ==
  ASSUME PInv, [Next]_vars, NEW r \in Requests, request[r] # Idle, request[r].at = "end"
  PROVE  /\ request'[r] = request[r]
         /\ Adds(r) /\ Apart(r) => Mine(r, index'[On(r)]) = Mine(r, index[On(r)])
<1>0. TInv /\ TypeOK /\ On(r) \in Indexes
  BY RunningFields DEF PInv, TInv
<1>1. CASE UNCHANGED vars
  BY <1>1 DEF vars
<1>2. ASSUME NEW q \in Requests, Arrive(q) \/ Enter(q)
      PROVE  request'[r] = request[r] /\ index' = index
  BY <1>0, <1>2 DEF Arrive, Enter, Waiting, TakeLock, GiveUpLock, ixvars, TypeOK
<1>3. CASE Crash
  BY <1>3 DEF Crash, IndexCrash, Open
<1>4. ASSUME NEW q \in Requests, Work(q) \/ Return(q) \/ Throw(q)
      PROVE  /\ request'[r] = request[r]
             /\ Adds(r) /\ Apart(r) => Mine(r, index'[On(r)]) = Mine(r, index[On(r)])
  <2>1. Running(q) /\ q # r /\ request[q] # Idle /\ On(q) \in Indexes
    BY <1>0, <1>4, RunningFields DEF Work, Return, Throw, Running
  <2>2. request'[r] = request[r]
    BY <1>0, <1>4, <2>1 DEF Work, Return, Throw, Answered, TypeOK
  <2>3. ASSUME Adds(r), Apart(r) PROVE Mine(r, index'[On(r)]) = Mine(r, index[On(r)])
    <3>1. CASE index'[On(r)] = index[On(r)]
      BY <3>1
    <3>2. CASE index'[On(r)] # index[On(r)]
      <4>1. /\ CanWrite(q, On(q)) /\ ~ Throw(q)
            /\ index' = [index EXCEPT ![On(q)] = IF Work(q) THEN Applied(q) ELSE Session(q, On(q))]
        <5>1. CASE Work(q)
          BY <3>2, <5>1 DEF Work, Change, ChangeAndCommit, Throw, Throws, More
        <5>2. CASE Throw(q)
          BY <3>2, <5>2 DEF Throw, AbortSession
        <5>3. CASE Return(q) /\ ~ Work(q) /\ ~ Throw(q)
          BY <5>3 DEF Return, CloseSession
        <5> QED BY <1>4, <5>1, <5>2, <5>3
      <4>2. On(q) = On(r)
        BY <1>0, <2>1, <3>2, <4>1 DEF TypeOK, IndexTypes
      <4>3. index'[On(r)] = IF Work(q) THEN Applied(q) ELSE Session(q, On(q))
        BY <1>0, <4>1, <4>2 DEF TypeOK, IndexTypes
      <4>4. Mine(r, Session(q, On(q))) = Mine(r, index[On(q)])
        BY <2>1, <2>3, <4>1, <4>2, SessionOfOthers
      <4>5. Work(q) => Mine(r, Applied(q)) = Mine(r, Session(q, On(q)))
        BY <2>1, <2>3, ApartKept DEF Work
      <4> QED BY <4>2, <4>3, <4>4, <4>5
    <3> QED BY <3>1, <3>2
  <2> QED BY <2>2, <2>3
<1> QED BY <1>1, <1>2, <1>3, <1>4 DEF Next, Step

(* A job that returned has committed all its documents.                      *)
LEMMA ReturnStores ==
  ASSUME PInv, NEW r \in Requests, Return(r), Adds(r), Apart(r)
  PROVE  Mine(r, index'[On(r)]) = 1 .. Len(request[r].docs)
<1>0. /\ TypeOK /\ Running(r) /\ request[r] # Idle /\ On(r) \in Indexes /\ ~ More(r)
      /\ Len(request[r].docs) \in Nat /\ request[r].done \in 0 .. Len(request[r].docs)
  BY RunningFields DEF PInv, TInv, Return, Running
<1>1. request[r].done = Len(request[r].docs)
  BY <1>0 DEF More
<1>2. index'[On(r)] = Session(r, On(r)) /\ writer[On(r)] \in {None, r}
  BY <1>0 DEF Return, CloseSession, CanWrite, TypeOK, IndexTypes
<1>3. CASE writer[On(r)] = r
  BY <1>1, <1>2, <1>3, TracksWas DEF Session
<1>4. CASE writer[On(r)] # r
  <2>1. request[r].done = 0
    BY <1>0, <1>4 DEF PInv, Begun
  <2>2. PICK k \in Cuts(r) : k <= 0 /\ Mine(r, index[On(r)]) = 1 .. k
    BY <2>1, TracksWas
  <2>3. k \in Nat
    BY <1>0, <2>2 DEF Cuts
  <2>4. 1 .. k = {} /\ 1 .. Len(request[r].docs) = {}
    BY <1>1, <2>1, <2>2, <2>3
  <2> QED BY <1>2, <1>4, <2>2, <2>4 DEF Session
<1> QED BY <1>2, <1>3, <1>4

(* How a request comes to an answer.                                         *)
LEMMA AnswerIs ==
  ASSUME TInv, [Next]_vars, NEW r \in Requests, request'[r] # request[r], request'[r] # Idle,
         request'[r].answer = "ok", request[r] # Idle => request[r].answer # "ok" \/ request[r].at = "end"
  PROVE  request[r] # Idle /\ request[r].at # "end" /\ request'[r].at = "end"
         /\ (Return(r) \/ (Throw(r) /\ request[r].kind # "csv"))
<1>0. TypeOK
  BY DEF TInv
<1>1. ~ Crash
  <2> SUFFICES ASSUME Crash PROVE FALSE
    OBVIOUS
  <2>1. Open(r) /\ request'[r] = [request[r] EXCEPT !.at = "end", !.answer = "lost"]
    BY DEF Crash
  <2>2. request[r] \in Request
    BY <1>0, <2>1, RunningFields DEF Open
  <2> QED BY <2>1, <2>2 DEF Request
<1>2. PICK q \in Requests : Arrive(q) \/ Step(q)
  BY <1>1 DEF Next, vars
<1>3. q = r
  BY <1>0, <1>2 DEF Arrive, Step, Enter, Work, Return, Throw, Answered, TypeOK
<1>4. ~ Arrive(r)
  <2> SUFFICES ASSUME Arrive(r) PROVE FALSE
    OBVIOUS
  <2>1. PICK k, b, w, o, i :
          request' = [request EXCEPT ![r] =
            [kind |-> k, docs |-> b, within |-> w, overwrite |-> o, on |-> i,
             at |-> "wait", done |-> 0, answer |-> "none"]]
    BY DEF Arrive
  <2> QED BY <1>0, <2>1 DEF TypeOK
<1>5. request[r] \in Request /\ request[r] # Idle /\ request[r].at # "end"
  BY <1>0, <1>2, <1>3, <1>4, RunningFields DEF Step, Enter, Waiting, Work, Return, Throw, Running
<1>6. ~ Enter(r) /\ ~ Work(r)
  <2>1. ASSUME Enter(r) PROVE request'[r].answer = request[r].answer
    <3>1. request'[r] = [request[r] EXCEPT !.at = "work"]
      BY <1>0, <2>1 DEF Enter, TypeOK
    <3> QED BY <1>5, <3>1 DEF Request
  <2>2. ASSUME Work(r) PROVE request'[r].answer = request[r].answer
    <3>1. request'[r] = [request[r] EXCEPT !.done = @ + 1]
      BY <1>0, <2>2 DEF Work, TypeOK
    <3> QED BY <1>5, <3>1 DEF Request
  <2> QED BY <1>5, <2>1, <2>2
<1>7. PICK ok \in BOOLEAN : Answered(r, ok) /\ (Return(r) \/ (Throw(r) /\ ~ ok))
  BY <1>2, <1>3, <1>4, <1>6 DEF Step, Return, Throw
<1>8. request'[r].at = "end" /\ request'[r].answer = AnswerOf(r, ok)
  <2> DEFINE a == AnswerOf(r, ok)
  <2>1. request' = [request EXCEPT ![r] = [request[r] EXCEPT !.at = "end", !.answer = a]]
    BY <1>0, <1>7 DEF Answered, TypeOK
  <2> HIDE DEF a
  <2>2. request'[r] = [request[r] EXCEPT !.at = "end", !.answer = a]
    BY <1>0, <2>1 DEF TypeOK
  <2>3. request'[r].at = "end" /\ request'[r].answer = a
    BY <1>5, <2>2 DEF Request
  <2> QED BY <2>3 DEF a
<1> QED BY <1>5, <1>7, <1>8 DEF AnswerOf

LEMMA CsvStep == CsvInv /\ [Next]_vars => CsvInv'
<1> SUFFICES ASSUME CsvInv, [Next]_vars PROVE CsvInv'
  OBVIOUS
<1>0. PInv /\ PInv' /\ TInv
  BY PrefixStep DEF CsvInv, PInv
<1>1. ASSUME NEW r \in Requests PROVE OkEnds(r)'
  <2>1. CASE request'[r] = request[r]
    BY <2>1 DEF CsvInv, OkEnds
  <2>2. CASE request'[r] # request[r]
    BY <1>0, <2>2, AnswerIs DEF CsvInv, OkEnds
  <2> QED BY <2>1, <2>2
<1>2. ASSUME NEW r \in Requests PROVE Truth(r)'
  <2> SUFFICES ASSUME Adds(r)', request'[r].kind = "csv", Apart(r)', request'[r].answer = "ok"
               PROVE  Stored(r)' = 1 .. Len(request'[r].docs)
    BY DEF Truth
  <2>1. request'[r] # Idle
    BY DEF Adds
  <2>2. CASE request'[r] = request[r]
    <3>1. request[r] # Idle /\ request[r].at = "end" /\ Adds(r) /\ On(r)' = On(r)
          /\ request[r].kind = "csv" /\ request[r].answer = "ok"
      BY <2>1, <2>2 DEF CsvInv, OkEnds, Adds, On
    <3>2. Apart(r)
      <4>1. \A q \in Requests : IdsOf(q) \subseteq IdsOf(q)'
        <5>1. ASSUME NEW q \in Requests, request[q] # Idle PROVE SameAsk(q)
          <6>1. CASE \E x \in Requests : Arrive(x)
            <7>1. request'[q] = request[q]
              BY <1>0, <5>1, <6>1 DEF Arrive, TInv, TypeOK
            <7> QED BY <5>1, <7>1 DEF SameAsk
          <6>2. CASE UNCHANGED vars
            BY <5>1, <6>2 DEF vars, SameAsk
          <6>3. CASE Crash \/ \E x \in Requests : Step(x)
            BY <1>0, <6>3, SameAskSteps DEF Step, Return, Throw
          <6> QED BY <6>1, <6>2, <6>3 DEF Next
        <5> QED BY <5>1 DEF SameAsk, IdsOf
      <4> QED BY <2>2, <4>1 DEF Apart, IdsOf
    <3>3. Mine(r, index'[On(r)]) = Mine(r, index[On(r)])
      BY <1>0, <3>1, <3>2, OverKept
    <3>4. Stored(r) = 1 .. Len(request[r].docs)
      BY <3>1, <3>2 DEF CsvInv, Truth
    <3> QED BY <2>2, <3>1, <3>3, <3>4 DEF Stored
  <2>3. CASE request'[r] # request[r]
    <3>1. request[r] # Idle /\ (Return(r) \/ (Throw(r) /\ request[r].kind # "csv"))
      BY <1>0, <2>1, <2>3, AnswerIs DEF CsvInv, OkEnds
    <3>2. \A x \in Requests : SameAsk(x)
      BY <1>0, <3>1, SameAskSteps DEF Return, Throw
    <3>3. /\ Adds(r) /\ Apart(r) /\ On(r)' = On(r) /\ request'[r].docs = request[r].docs
          /\ request'[r].kind = request[r].kind
      <4>1. Adds(r)' = Adds(r) /\ Apart(r)' = Apart(r) /\ On(r)' = On(r)
            /\ request'[r].docs = request[r].docs
        BY <3>1, <3>2, SameAskKeeps
      <4>2. request'[r].kind = request[r].kind
        BY <3>1, <3>2 DEF SameAsk
      <4> QED BY <4>1, <4>2
    <3>4. Return(r)
      BY <3>1, <3>3
    <3>5. Mine(r, index'[On(r)]) = 1 .. Len(request[r].docs)
      BY <1>0, <3>3, <3>4, ReturnStores
    <3> QED BY <3>3, <3>5 DEF Stored
  <2> QED BY <2>2, <2>3
<1> QED BY <1>0, <1>1, <1>2 DEF CsvInv

(* IndexerWeb.java:509: for any batches and any number of threads, whatever   *)
(* fails, index.csv answers with a number only when all of it is committed.   *)
THEOREM CsvIsTruthful == Spec => []CsvTellsTheTruth
<1>1. Init => CsvInv
  <2>1. Init => PInv
    BY PrefixInit
  <2>2. Init => \A r \in Requests : Truth(r) /\ OkEnds(r)
    BY DEF Init, Truth, OkEnds, Adds
  <2> QED BY <2>1, <2>2 DEF CsvInv
<1>2. CsvInv => CsvTellsTheTruth
  BY DEF CsvInv, Truth, CsvTellsTheTruth
<1> QED BY <1>1, <1>2, CsvStep, PTL DEF Spec
------------------------------------------------------------------------------
(* What AtomicBatches says becomes of an index: nothing, when no document     *)
(* comes to it, and one document more, when one does.                         *)
LEMMA AfterNone ==
  ASSUME NEW r, NEW q, NEW m \in Nat, NEW S
  PROVE  Atomically!After(r, q, m, m, S) = S
<1>1. m + 1 .. m = {}
  OBVIOUS
<1> QED BY <1>1 DEF Atomically!After

(* T with the document of q after the n-th. *)
WithNext(r, q, n, T) ==
  LET d == [by |-> r, n |-> n + 1, id |-> q.docs[n + 1]]
      others == {e \in T : e.id # d.id}
  IN  IF q.kind = "remove" THEN others
      ELSE IF q.overwrite THEN others \cup {d} ELSE T \cup {d}

LEMMA AfterNext ==
  ASSUME NEW r, NEW q, q.overwrite \in BOOLEAN, NEW m \in Nat, NEW n \in Nat, m <= n, NEW S
  PROVE  Atomically!After(r, q, m, n + 1, S) = WithNext(r, q, n, Atomically!After(r, q, m, n, S))
<1> DEFINE T == Atomically!After(r, q, m, n, S)
           d == [by |-> r, n |-> n + 1, id |-> q.docs[n + 1]]
           others == {e \in T : e.id # d.id}
           D(k) == [by |-> r, n |-> k, id |-> q.docs[k]]
           out == q.overwrite \/ q.kind = "remove"
           Left(x) == {e \in S : out => \A k \in m + 1 .. x : e.id # q.docs[k]}
           Kept(x) == {k \in m + 1 .. x : q.kind # "remove"
                                          /\ (q.overwrite => \A l \in k + 1 .. x : q.docs[l] # q.docs[k])}
<1>1. m + 1 .. n + 1 = (m + 1 .. n) \cup {n + 1} /\ n + 1 \notin m + 1 .. n
  OBVIOUS
<1>2. \A k \in m + 1 .. n : k + 1 .. n + 1 = (k + 1 .. n) \cup {n + 1}
  OBVIOUS
<1>3. n + 1 + 1 .. n + 1 = {}
  OBVIOUS
<1>4. T = Left(n) \cup {D(k) : k \in Kept(n)}
  BY DEF Atomically!After
<1>5. Atomically!After(r, q, m, n + 1, S) = Left(n + 1) \cup {D(k) : k \in Kept(n + 1)}
  BY DEF Atomically!After
<1>6. d = D(n + 1) /\ d.id = q.docs[n + 1] /\ \A k : D(k).id = q.docs[k]
  OBVIOUS
<1>7. Left(n + 1) = IF out THEN {e \in Left(n) : e.id # d.id} ELSE Left(n)
  BY <1>1, <1>6
<1>8. CASE q.kind = "remove"
  <2>1. Kept(n) = {} /\ Kept(n + 1) = {}
    BY <1>8
  <2> HIDE DEF T, D, d, Left, Kept
  <2>2. T = Left(n) /\ Atomically!After(r, q, m, n + 1, S) = Left(n + 1)
    BY <1>4, <1>5, <2>1
  <2> QED BY <1>7, <1>8, <2>2 DEF d, T, WithNext
<1>9. CASE q.kind # "remove" /\ q.overwrite
  <2>1. Kept(n + 1) = {k \in Kept(n) : q.docs[k] # q.docs[n + 1]} \cup {n + 1}
    BY <1>1, <1>2, <1>3, <1>9
  <2> HIDE DEF T, D, d, Left, Kept
  <2>2. {D(k) : k \in Kept(n + 1)} = {e \in {D(k) : k \in Kept(n)} : e.id # d.id} \cup {d}
    BY <1>6, <2>1
  <2>3. Atomically!After(r, q, m, n + 1, S) = {e \in T : e.id # d.id} \cup {d}
    BY <1>4, <1>5, <1>7, <1>9, <2>2
  <2> QED BY <1>9, <2>3 DEF d, T, WithNext
<1>10. CASE q.kind # "remove" /\ ~ q.overwrite
  <2>1. Kept(n + 1) = Kept(n) \cup {n + 1}
    BY <1>1, <1>10
  <2> HIDE DEF T, D, d, Left, Kept
  <2>2. {D(k) : k \in Kept(n + 1)} = {D(k) : k \in Kept(n)} \cup {d}
    BY <1>6, <2>1
  <2>3. Atomically!After(r, q, m, n + 1, S) = T \cup {d}
    BY <1>4, <1>5, <1>7, <1>10, <2>2
  <2> QED BY <1>10, <2>3 DEF d, T, WithNext
<1> QED BY <1>8, <1>9, <1>10

LEMMA MaxIs ==
  ASSUME NEW S, S \subseteq Nat, NEW n \in S, \A m \in S : m <= n
  PROVE  Max(S) = n
<1>1. n \in S /\ \A m \in S : n >= m
  OBVIOUS
<1>2. Max(S) \in S /\ \A m \in S : Max(S) >= m
  BY <1>1 DEF Max
<1>3. Max(S) >= n /\ n >= Max(S) /\ Max(S) \in Nat /\ n \in Nat
  BY <1>1, <1>2
<1> QED BY <1>3

LEMMA AskedIs ==
  ASSUME TypeOK, NEW r \in Requests, request[r] # Idle
  PROVE  /\ Asked(r).kind = request[r].kind /\ Asked(r).docs = request[r].docs
         /\ Asked(r).within = request[r].within /\ Asked(r).overwrite = request[r].overwrite
         /\ Asked(r).on = On(r) /\ Asked(r).answer = request[r].answer
         /\ Asked(r).kind \in Kinds /\ Asked(r).overwrite \in BOOLEAN /\ Asked(r).within \in Nat
         /\ Asked(r).on \in Indexes
BY RunningFields, RequestFields DEF Asked, On, Request

(* The ends of units are those of AtomicBatches.                              *)
LEMMA EndsAre ==
  ASSUME TypeOK, NEW r \in Requests, request[r] # Idle
  PROVE  /\ Ends(r) = {0} \cup {n \in 1 .. request[r].done : Atomically!UnitEnd(Asked(r), n)}
         /\ Ends(r) \subseteq 0 .. request[r].done /\ Ends(r) \subseteq Nat /\ 0 \in Ends(r)
         /\ Ends(r) \ {0} \subseteq 2 .. request[r].done
<1>1. request[r].done \in Nat
  BY RunningFields
<1>2. \A n \in 1 .. request[r].done :
        Atomically!UnitEnd(Asked(r), n)
          <=> /\ n \in 2 .. request[r].done
              /\ request[r].kind \in {"jarray", "csv"} /\ request[r].within # 0
              /\ (n - 1) % request[r].within = 0
  <2> SUFFICES ASSUME NEW n \in 1 .. request[r].done
               PROVE  Atomically!UnitEnd(Asked(r), n)
                        <=> /\ n \in 2 .. request[r].done
                            /\ request[r].kind \in {"jarray", "csv"} /\ request[r].within # 0
                            /\ (n - 1) % request[r].within = 0
    OBVIOUS
  <2>1. n \in 2 .. request[r].done <=> n > 1
    BY <1>1
  <2> QED BY <2>1, AskedIs DEF Atomically!UnitEnd, Atomically!Units
<1>3. \A n \in 2 .. request[r].done : n \in 1 .. request[r].done
  BY <1>1
<1> QED BY <1>1, <1>2, <1>3 DEF Ends

(* A job has read the documents it came to, its unit began after the last end *)
(* of one, and its draft is the index with the documents since then.          *)
Unit(r) ==
  request[r] # Idle =>
    /\ request[r].answer = "none" <=> request[r].at # "end"
    /\ Running(r) =>
         /\ \A k \in 1 .. request[r].done : request[r].docs[k] # Bad
         /\ Atomically!Units(Asked(r)) /\ request[r].within = 0 => request[r].done < 2
         /\ SoFar(r) \in Ends(r) /\ \A n \in Ends(r) : n <= SoFar(r)
         /\ writer[On(r)] = r =>
              draft[On(r)] = Atomically!After(r, Asked(r), SoFar(r), request[r].done, index[On(r)])

UnitInv == PInv /\ \A r \in Requests : Unit(r)

LEMMA BarKept ==
  ASSUME NEW x, request'[x] = request[x]
  PROVE  /\ Asked(x)' = Asked(x) /\ Ends(x)' = Ends(x) /\ SoFar(x)' = SoFar(x)
         /\ Running(x)' = Running(x) /\ On(x)' = On(x)
<1>1. Asked(x)' = Asked(x) /\ Ends(x)' = Ends(x) /\ Running(x)' = Running(x) /\ On(x)' = On(x)
  BY DEF Asked, Ends, Running, On
<1> QED BY <1>1 DEF SoFar

(* A step of other requests keeps it.                                         *)
LEMMA UnitKept ==
  ASSUME NEW x \in Requests, Unit(x), request'[x] = request[x],
         writer'[On(x)] = x => /\ writer[On(x)] = x /\ draft'[On(x)] = draft[On(x)]
                               /\ index'[On(x)] = index[On(x)]
  PROVE  Unit(x)'
<1>1. /\ Asked(x)' = Asked(x) /\ Ends(x)' = Ends(x) /\ SoFar(x)' = SoFar(x)
      /\ Running(x)' = Running(x) /\ On(x)' = On(x)
  BY BarKept
<1> QED BY <1>1 DEF Unit, Atomically!Units, Atomically!After

LEMMA SessionIs ==
  ASSUME UnitInv, NEW r \in Requests, Running(r), CanWrite(r, On(r))
  PROVE  /\ Session(r, On(r))
              = Atomically!After(r, Asked(r), SoFar(r), request[r].done, index[On(r)])
         /\ SoFar(r) \in Nat /\ SoFar(r) <= request[r].done /\ request[r].done \in Nat
<1>0. TypeOK /\ request[r] # Idle /\ request[r].done \in Nat /\ On(r) \in Indexes
  BY RunningFields DEF UnitInv, PInv, TInv, Running
<1>1. SoFar(r) \in Ends(r) /\ SoFar(r) \in Nat /\ SoFar(r) <= request[r].done
  BY <1>0, EndsAre DEF UnitInv, Unit
<1>2. CASE writer[On(r)] = r
  BY <1>0, <1>1, <1>2 DEF UnitInv, Unit, Session
<1>3. CASE writer[On(r)] # r
  <2>1. request[r].done = 0 /\ SoFar(r) = 0
    BY <1>0, <1>1, <1>3 DEF UnitInv, PInv, Begun
  <2> QED BY <1>3, <1>1, <2>1, AfterNone DEF Session
<1> QED BY <1>0, <1>1, <1>2, <1>3

(* Who can write the index of a request finds no other batch in it in part.   *)
LEMMA AloneIs ==
  ASSUME UnitInv, NEW r \in Requests, Running(r), CanWrite(r, On(r))
  PROVE  Atomically!Alone(r)
<1>0. TypeOK /\ request[r] # Idle /\ Asked(r).on = On(r)
  BY AskedIs DEF UnitInv, PInv, TInv, Running
<1>1. ASSUME NEW q \in Requests \ {r}, SoFar(q) > 0
      PROVE  Asked(q).on # Asked(r).on
  <2>1. Running(q)
    BY <1>1 DEF SoFar
  <2>2. request[q] # Idle /\ Asked(q).on = On(q) /\ request[q].done \in Nat
    BY <1>0, <2>1, AskedIs, RunningFields DEF Running
  <2>3. request[q].done > 0
    BY <1>0, <1>1, <2>1, <2>2, EndsAre DEF UnitInv, Unit
  <2>4. writer[On(q)] = q
    BY <2>1, <2>2, <2>3 DEF UnitInv, PInv, Begun
  <2> QED BY <1>0, <2>2, <2>4, NoneIsNoThread DEF CanWrite
<1> QED BY <1>1 DEF Atomically!Alone

LEMMA TwoTo ==
  ASSUME NEW n \in Nat
  PROVE  2 .. n + 1 = IF n + 1 > 1 THEN (2 .. n) \cup {n + 1} ELSE 2 .. n
<1>1. CASE n = 0
  BY <1>1
<1>2. CASE n > 0
  BY <1>2
<1> QED BY <1>1, <1>2

LEMMA WorkUnit ==
  ASSUME UnitInv, NEW q \in Requests, Work(q)
  PROVE  Unit(q)' /\ (Atomically!CommitUnit(q) \/ UNCHANGED Atomically!vars)
<1> DEFINE n == request[q].done + 1
           i == On(q)
           m == SoFar(q)
           S == index[i]
<1>0. /\ PInv /\ TInv /\ TypeOK /\ Running(q) /\ request[q] # Idle /\ request[q] \in Request
      /\ i \in Indexes /\ More(q) /\ NextDoc(q) # Bad /\ ~DividesByZero(q) /\ CanWrite(q, i)
      /\ request[q].done \in Nat /\ n \in 1 .. Len(request[q].docs) /\ Len(request[q].docs) \in Nat
  BY RunningFields, NextDocIs DEF UnitInv, PInv, TInv, Work, Running, Change, ChangeAndCommit
<1>1. /\ \A x \in Requests \ {q} : request'[x] = request[x]
      /\ request'[q] = [request[q] EXCEPT !.done = n]
  BY <1>0 DEF Work, TypeOK
<1>2. /\ request'[q] # Idle /\ request'[q].done = n
      /\ \A f \in {"kind", "docs", "within", "overwrite", "on", "at", "answer"} :
           request'[q][f] = request[q][f]
  <2>1. [request[q] EXCEPT !.done = n] \in Request
    BY <1>0 DEF Request
  <2> HIDE DEF n
  <2> QED BY <1>0, <1>1, <2>1, IdleIsNoRequest DEF Request
<1>3. /\ request'[q].kind = request[q].kind /\ request'[q].docs = request[q].docs
      /\ request'[q].within = request[q].within /\ request'[q].overwrite = request[q].overwrite
      /\ request'[q].on = request[q].on /\ request'[q].at = request[q].at
      /\ request'[q].answer = request[q].answer
  BY <1>2
<1>4. Asked(q)' = Asked(q) /\ Running(q)' /\ On(q)' = i
  BY <1>0, <1>2, <1>3 DEF Asked, Running, On
<1>5. /\ Asked(q).kind = request[q].kind /\ Asked(q).docs = request[q].docs
      /\ Asked(q).within = request[q].within /\ Asked(q).overwrite = request[q].overwrite
      /\ Asked(q).on = i /\ Asked(q).answer = request[q].answer
      /\ Asked(q).overwrite \in BOOLEAN /\ Asked(q).within \in Nat
  BY <1>0, AskedIs
<1>6. /\ m \in Ends(q) /\ m \in Nat /\ m <= request[q].done /\ \A k \in Ends(q) : k <= m
      /\ Session(q, i) = Atomically!After(q, Asked(q), m, request[q].done, S)
      /\ \A k \in 1 .. request[q].done : request[q].docs[k] # Bad
  BY <1>0, SessionIs DEF UnitInv, Unit
<1>7. UnitEnds(q) <=> Atomically!UnitEnd(Asked(q), n)
  <2>1. n - 1 = request[q].done /\ (n > 1 <=> request[q].done # 0)
    BY <1>0
  <2> HIDE DEF n
  <2> QED BY <1>0, <1>5, <2>1 DEF UnitEnds, DividesByZero, Atomically!UnitEnd, Atomically!Units
<1>8. Ends(q)' = IF UnitEnds(q) THEN Ends(q) \cup {n} ELSE Ends(q)
  <2> DEFINE P(k) == /\ request[q].kind \in {"jarray", "csv"} /\ request[q].within # 0
                     /\ (k - 1) % request[q].within = 0
  <2>1. Ends(q)' = {0} \cup {k \in 2 .. n : P(k)}
    BY <1>2, <1>3 DEF Ends
  <2>2. Ends(q) = {0} \cup {k \in 2 .. request[q].done : P(k)}
    BY DEF Ends
  <2>3. UnitEnds(q) <=> n > 1 /\ P(n)
    BY <1>5, <1>7 DEF Atomically!UnitEnd, Atomically!Units
  <2> HIDE DEF P
  <2>4. 2 .. n = IF n > 1 THEN (2 .. request[q].done) \cup {n} ELSE 2 .. request[q].done
    <3>1. request[q].done \in Nat
      BY <1>0
    <3> QED BY <3>1, TwoTo
  <2> HIDE DEF n
  <2> QED BY <2>1, <2>2, <2>3, <2>4
<1>9. SoFar(q)' = IF UnitEnds(q) THEN n ELSE m
  <2>1. Ends(q) \subseteq 0 .. request[q].done
    BY <1>0, EndsAre
  <2>2. CASE UnitEnds(q)
    <3>1. Ends(q) \cup {n} \subseteq Nat /\ \A k \in Ends(q) \cup {n} : k <= n
      BY <1>0, <2>1
    <3>2. Max(Ends(q) \cup {n}) = n
      BY <3>1, MaxIs
    <3> QED BY <1>4, <1>8, <2>2, <3>2 DEF SoFar
  <2>3. CASE ~UnitEnds(q)
    BY <1>0, <1>4, <1>8, <2>3 DEF SoFar
  <2> QED BY <2>2, <2>3
<1>10. Applied(q) = Atomically!After(q, Asked(q), m, n, S)
  <2>1. NextDoc(q) = Asked(q).docs[n]
    BY <1>5 DEF NextDoc
  <2> DEFINE T == Session(q, i)
             d == [by |-> q, n |-> n, id |-> NextDoc(q)]
             others == {e \in T : e.id # d.id}
  <2>2. Atomically!After(q, Asked(q), m, n, S) = WithNext(q, Asked(q), request[q].done, T)
    <3>1. Asked(q).overwrite \in BOOLEAN /\ m \in Nat /\ request[q].done \in Nat /\ m <= request[q].done
      BY <1>0, <1>5, <1>6
    <3> HIDE DEF m, S
    <3>2. Atomically!After(q, Asked(q), m, n, S)
            = WithNext(q, Asked(q), request[q].done, Atomically!After(q, Asked(q), m, request[q].done, S))
      BY <3>1, AfterNext
    <3> QED BY <1>6, <3>2
  <2>3. Applied(q) = IF request[q].kind = "remove" THEN others
                     ELSE IF request[q].overwrite THEN others \cup {d} ELSE T \cup {d}
    BY DEF Applied, On
  <2> QED BY <1>5, <2>1, <2>2, <2>3 DEF WithNext
<1>11. /\ writer'[i] = q /\ draft'[i] = Applied(q)
       /\ index' = IF UnitEnds(q) THEN [index EXCEPT ![i] = Applied(q)] ELSE index
  BY <1>0 DEF Work, Change, ChangeAndCommit, TypeOK, IndexTypes
<1>12. \A k \in 1 .. n : request[q].docs[k] # Bad
  <2>1. 1 .. n = (1 .. request[q].done) \cup {n} /\ request[q].docs[n] # Bad
    BY <1>0 DEF NextDoc
  <2> QED BY <1>6, <2>1
<1>13. Unit(q)'
  <2>1. draft'[i] = Atomically!After(q, Asked(q), SoFar(q)', n, index'[i])
    <3>1. CASE UnitEnds(q)
      <4>1. index'[i] = Applied(q)
        BY <1>0, <1>11, <3>1 DEF TypeOK, IndexTypes
      <4>2. Atomically!After(q, Asked(q), n, n, Applied(q)) = Applied(q)
        BY <1>0, AfterNone
      <4> QED BY <1>9, <1>11, <3>1, <4>1, <4>2
    <3>2. CASE ~UnitEnds(q)
      BY <1>9, <1>10, <1>11, <3>2
    <3> QED BY <3>1, <3>2
  <2>2. SoFar(q)' \in Ends(q)' /\ \A k \in Ends(q)' : k <= SoFar(q)'
    <3>1. Ends(q) \subseteq 0 .. request[q].done
      BY <1>0, EndsAre
    <3> QED BY <1>0, <1>6, <1>8, <1>9, <3>1
  <2>3. Atomically!Units(Asked(q)) /\ request[q].within = 0 => n < 2
    BY <1>0, <1>5 DEF DividesByZero, Atomically!Units
  <2>4. request'[q].answer = "none" <=> request'[q].at # "end"
    BY <1>0, <1>3 DEF UnitInv, Unit
  <2>5. /\ request'[q].done = n /\ request'[q].docs = request[q].docs
        /\ request'[q].within = request[q].within
    BY <1>2, <1>3
  <2> HIDE DEF n, i
  <2>6. \A k \in 1 .. request'[q].done : request'[q].docs[k] # Bad
    BY <1>12, <2>5
  <2>7. (Atomically!Units(Asked(q)) /\ request[q].within = 0 => request[q].done < 2)'
    BY <1>4, <2>3, <2>5 DEF Atomically!Units
  <2>8. (writer[On(q)] = q =>
           draft[On(q)] = Atomically!After(q, Asked(q), SoFar(q), request[q].done, index[On(q)]))'
    BY <1>4, <2>1, <2>5 DEF Atomically!After
  <2> QED BY <2>2, <2>4, <2>6, <2>7, <2>8 DEF Unit
<1>14. Atomically!CommitUnit(q) \/ UNCHANGED Atomically!vars
  <2>1. \A x \in Requests : Asked(x)' = Asked(x)
    BY <1>1, <1>4, BarKept
  <2>2. \A x \in Requests : SoFar(x)' = IF x = q /\ UnitEnds(q) THEN n ELSE SoFar(x)
    BY <1>1, <1>9, BarKept
  <2>3. CASE ~UnitEnds(q)
    BY <1>11, <2>1, <2>2, <2>3 DEF Atomically!vars
  <2>4. CASE UnitEnds(q)
    <3>1. Atomically!Open(q)
      BY <1>0, <1>5 DEF Atomically!Open, UnitInv, Unit, Running, Request, Kinds
    <3>2. Atomically!Alone(q)
      BY <1>0, AloneIs
    <3>3. n \in m + 1 .. Len(Asked(q).docs)
      BY <1>0, <1>5, <1>6
    <3>4. Atomically!UnitEnd(Asked(q), n) /\ Atomically!Readable(Asked(q), n)
      BY <1>5, <1>7, <1>12, <2>4 DEF Atomically!Readable
    <3>5. \A k \in m + 1 .. n - 1 : ~Atomically!UnitEnd(Asked(q), k)
      <4> SUFFICES ASSUME NEW k \in m + 1 .. n - 1, Atomically!UnitEnd(Asked(q), k)
                   PROVE  FALSE
        OBVIOUS
      <4>1. k \in 1 .. request[q].done /\ ~(k <= m)
        BY <1>0, <1>6
      <4>2. k \in Ends(q)
        BY <1>0, <4>1, EndsAre
      <4> QED BY <1>6, <4>1, <4>2
    <3>6. index' = [index EXCEPT ![Asked(q).on] = Atomically!After(q, Asked(q), m, n, index[Asked(q).on])]
      BY <1>5, <1>10, <1>11, <2>4
    <3>7. Atomically!Put(q, n)
      BY <3>6 DEF Atomically!Put
    <3>8. [x \in Requests |-> SoFar(x)]' = [[x \in Requests |-> SoFar(x)] EXCEPT ![q] = n]
      BY <2>2, <2>4
    <3>9. [x \in Requests |-> Asked(x)]' = [x \in Requests |-> Asked(x)]
      BY <2>1
    <3> HIDE DEF n, m
    <3>10. n \in [x \in Requests |-> SoFar(x)][q] + 1 .. Len([x \in Requests |-> Asked(x)][q].docs)
      BY <3>3 DEF m
    <3> QED BY <3>1, <3>2, <3>4, <3>5, <3>7, <3>8, <3>9, <3>10 DEF Atomically!CommitUnit, m
  <2> QED BY <2>3, <2>4
<1> QED BY <1>13, <1>14

(* A request that waits has no part of its batch in.                          *)
LEMMA ArriveUnit ==
  ASSUME UnitInv, NEW q \in Requests, Arrive(q)
  PROVE  Unit(q)' /\ Atomically!Arrive(q)
<1>0. TypeOK /\ request[q] = Idle
  BY DEF UnitInv, PInv, TInv, Arrive
<1>1. PICK k \in Kinds, b \in Batches, w \in Withins, o \in BOOLEAN, i \in Indexes :
        request' = [request EXCEPT ![q] =
          [kind |-> k, docs |-> b, within |-> w, overwrite |-> o, on |-> i,
           at |-> "wait", done |-> 0, answer |-> "none"]]
  BY DEF Arrive
<1> DEFINE new == [kind |-> k, docs |-> b, within |-> w, overwrite |-> o, on |-> i,
                   at |-> "wait", done |-> 0, answer |-> "none"]
           a == [kind |-> k, docs |-> b, within |-> w, overwrite |-> o, on |-> i, answer |-> "none"]
<1>2. request'[q] = new /\ \A x \in Requests \ {q} : request'[x] = request[x]
  BY <1>0, <1>1 DEF TypeOK
<1>3. new # Idle
  <2>1. new \in Request
    BY DEF Request
  <2> HIDE DEF new
  <2> QED BY <2>1, IdleIsNoRequest
<1>4. ~Running(q) /\ ~Running(q)' /\ Unit(q)'
  BY <1>0, <1>2, <1>3 DEF Running, Unit
<1>5. Asked(q)' = a /\ Asked(q) = Atomically!NoAsk
  BY <1>0, <1>2, <1>3 DEF Asked, Atomically!NoAsk
<1>6. a \in Atomically!Asks
  BY DEF Atomically!Asks, Kinds
<1> HIDE DEF a
<1>7. \A x \in Requests : Asked(x)' = IF x = q THEN a ELSE Asked(x)
  BY <1>2, <1>5, BarKept
<1>8. \A x \in Requests : SoFar(x)' = SoFar(x)
  <2>1. SoFar(q)' = SoFar(q)
    BY <1>4 DEF SoFar
  <2> QED BY <1>2, <2>1, BarKept
<1>9. [x \in Requests |-> Asked(x)]' = [[x \in Requests |-> Asked(x)] EXCEPT ![q] = a]
  BY <1>7
<1>10. [x \in Requests |-> SoFar(x)]' = [x \in Requests |-> SoFar(x)] /\ index' = index
  BY <1>8 DEF Arrive, ixvars
<1> QED BY <1>4, <1>5, <1>6, <1>9, <1>10 DEF Atomically!Arrive

LEMMA EnterUnit ==
  ASSUME UnitInv, NEW q \in Requests, Enter(q)
  PROVE  Unit(q)' /\ UNCHANGED Atomically!vars
<1>0. TypeOK /\ WriterRuns /\ request[q] # Idle /\ request[q].at = "wait" /\ request[q] \in Request
      /\ On(q) \in Indexes
  BY RunningFields DEF UnitInv, PInv, TInv, Enter, Waiting
<1>1. request[q].done = 0
  BY <1>0 DEF UnitInv, PInv, Begun
<1>2. request'[q] = [request[q] EXCEPT !.at = "work"] /\ \A x \in Requests \ {q} : request'[x] = request[x]
  BY <1>0 DEF Enter, TypeOK
<1>3. request'[q] \in Request /\ request'[q] # Idle /\ request'[q].done = 0 /\ request'[q].at = "work"
      /\ request'[q].kind = request[q].kind /\ request'[q].docs = request[q].docs
      /\ request'[q].within = request[q].within /\ request'[q].overwrite = request[q].overwrite
      /\ request'[q].on = request[q].on /\ request'[q].answer = request[q].answer
  <2>1. [request[q] EXCEPT !.at = "work"] \in Request
    BY <1>0 DEF Request
  <2> QED BY <1>0, <1>1, <1>2, <2>1, IdleIsNoRequest DEF Request
<1>4. Asked(q)' = Asked(q) /\ On(q)' = On(q) /\ Running(q)' /\ ~Running(q)
  BY <1>0, <1>3 DEF Asked, On, Running
<1>5. Ends(q)' = {0}
  <2>1. 2 .. request'[q].done = {}
    BY <1>3
  <2> QED BY <2>1 DEF Ends
<1>6. SoFar(q) = 0 /\ SoFar(q)' = 0
  <2>1. Max({0}) = 0
    BY MaxIs
  <2> QED BY <1>4, <1>5, <2>1 DEF SoFar
<1>7. writer' = writer /\ index' = index /\ writer[On(q)] # q
  <2>1. writer' = writer /\ index' = index
    BY DEF Enter, TakeLock, GiveUpLock, ixvars
  <2> QED BY <1>0, <1>4, <2>1, NoneIsNoThread DEF WriterRuns, WriterRunsOn
<1>8. Unit(q)'
  <2>1. 1 .. request'[q].done = {}
    BY <1>3
  <2>2. request'[q].answer = "none" <=> request'[q].at # "end"
    BY <1>0, <1>3 DEF UnitInv, Unit
  <2>3. writer'[On(q)'] # q
    BY <1>4, <1>7
  <2> QED BY <1>3, <1>5, <1>6, <2>1, <2>2, <2>3 DEF Unit
<1>9. \A x \in Requests : Asked(x)' = Asked(x) /\ SoFar(x)' = SoFar(x)
  BY <1>2, <1>4, <1>6, BarKept
<1> QED BY <1>7, <1>8, <1>9 DEF Atomically!vars

(* A job that returns has put in the whole batch, one that throws no more     *)
(* than its units.                                                            *)
LEMMA EndUnit ==
  ASSUME UnitInv, NEW q \in Requests, Return(q) \/ Throw(q)
  PROVE  Unit(q)' /\ (Atomically!Finish(q) \/ Atomically!GiveUp(q))
<1> DEFINE i == On(q)
           n == Len(request[q].docs)
           m == SoFar(q)
<1>0. /\ TypeOK /\ Running(q) /\ request[q] # Idle /\ request[q] \in Request /\ i \in Indexes
      /\ n \in Nat /\ request[q].done \in 0 .. n
  BY RunningFields DEF UnitInv, PInv, TInv, Return, Throw, Running
<1>1. PICK ok \in BOOLEAN : /\ Answered(q, ok)
                           /\ \/ ok /\ Return(q)
                              \/ ~ok /\ Throw(q)
  BY DEF Return, Throw
<1> DEFINE a == AnswerOf(q, ok)
<1>2. /\ a \in {"ok", "null", "error"}
      /\ ok => a \in {"ok", "error"}
      /\ ~ok => /\ a = "ok" => request[q].kind \in {"json", "jarray"}
                /\ a = "null" => request[q].kind = "remove"
  BY <1>0 DEF AnswerOf, Request, Kinds
<1>3. /\ request' = [request EXCEPT ![q] = [request[q] EXCEPT !.at = "end", !.answer = a]]
  BY <1>0, <1>1 DEF Answered, TypeOK
<1> HIDE DEF a
<1>4. /\ request'[q] # Idle /\ request'[q].at = "end" /\ request'[q].answer = a
      /\ request'[q].kind = request[q].kind /\ request'[q].docs = request[q].docs
      /\ request'[q].within = request[q].within /\ request'[q].overwrite = request[q].overwrite
      /\ request'[q].on = request[q].on
  <2>1. request'[q] = [request[q] EXCEPT !.at = "end", !.answer = a]
    BY <1>0, <1>3 DEF TypeOK
  <2>2. request'[q] \in Request
    BY <1>0, <1>2, <2>1 DEF Request
  <2> QED BY <1>0, <2>1, <2>2, IdleIsNoRequest DEF Request
<1>5. \A x \in Requests \ {q} : request'[x] = request[x]
  BY <1>0, <1>3 DEF TypeOK
<1>6. ~Running(q)' /\ SoFar(q)' = 0 /\ Unit(q)'
  BY <1>2, <1>4 DEF Running, SoFar, Unit
<1>7. /\ Asked(q).kind = request[q].kind /\ Asked(q).docs = request[q].docs
      /\ Asked(q).within = request[q].within
      /\ Asked(q).on = i /\ Asked(q).answer = request[q].answer
  BY <1>0, AskedIs
<1>8. Asked(q)' = [Asked(q) EXCEPT !.answer = a]
  BY <1>0, <1>4 DEF Asked
<1>9. \A x \in Requests : /\ Asked(x)' = IF x = q THEN [Asked(q) EXCEPT !.answer = a] ELSE Asked(x)
                          /\ SoFar(x)' = IF x = q THEN 0 ELSE SoFar(x)
  BY <1>5, <1>6, <1>8, BarKept
<1>10. Atomically!Answer(q, a)
  <2>1. [x \in Requests |-> Asked(x)]'
          = [[x \in Requests |-> Asked(x)] EXCEPT ![q] = [Asked(q) EXCEPT !.answer = a]]
    BY <1>9
  <2>2. [x \in Requests |-> SoFar(x)]' = [[x \in Requests |-> SoFar(x)] EXCEPT ![q] = 0]
    BY <1>9
  <2> QED BY <2>1, <2>2 DEF Atomically!Answer
<1>11. Atomically!Open(q)
  BY <1>0, <1>7 DEF Atomically!Open, UnitInv, Unit, Running, Request, Kinds
<1>12. CASE ok
  <2>1. /\ ~More(q) /\ CanWrite(q, i) /\ index' = [index EXCEPT ![i] = Session(q, i)]
    BY <1>1, <1>12 DEF Return, CloseSession
  <2>2. request[q].done = n
    BY <1>0, <2>1 DEF More
  <2>3. /\ Session(q, i) = Atomically!After(q, Asked(q), m, n, index[i])
        /\ m \in Nat /\ m <= n
    BY <1>0, <2>1, <2>2, SessionIs
  <2>4. Atomically!Alone(q)
    BY <1>0, <2>1, AloneIs
  <2>5. Atomically!Finishes(Asked(q))
    BY <1>0, <1>7, <2>2 DEF Atomically!Finishes, Atomically!Readable, UnitInv, Unit
  <2>6. \A k \in m + 1 .. n : ~Atomically!UnitEnd(Asked(q), k)
    <3> SUFFICES ASSUME NEW k \in m + 1 .. n, Atomically!UnitEnd(Asked(q), k) PROVE FALSE
      OBVIOUS
    <3>1. k \in 1 .. request[q].done /\ ~(k <= m)
      BY <1>0, <2>2, <2>3
    <3>2. k \in Ends(q)
      BY <1>0, <3>1, EndsAre
    <3> QED BY <1>0, <3>1, <3>2 DEF UnitInv, Unit
  <2>7. Atomically!Put(q, Len(Asked(q).docs))
    BY <1>7, <2>1, <2>3 DEF Atomically!Put
  <2>8. a \in {"ok", "error"}
    BY <1>2, <1>12
  <2> HIDE DEF m, n
  <2>9. \A k \in [x \in Requests |-> SoFar(x)][q] + 1 .. Len(Asked(q).docs) : ~Atomically!UnitEnd(Asked(q), k)
    BY <1>7, <2>6 DEF m, n
  <2> QED BY <1>6, <1>10, <1>11, <2>4, <2>5, <2>7, <2>8, <2>9 DEF Atomically!Finish
<1>13. CASE ~ok
  <2>1. index' = index
    BY <1>1, <1>13 DEF Throw, AbortSession
  <2> QED BY <1>2, <1>6, <1>7, <1>10, <1>11, <1>13, <2>1 DEF Atomically!GiveUp
<1> QED BY <1>12, <1>13

LEMMA CrashIs ==
  ASSUME Crash, NEW r \in Requests
  PROVE  /\ index' = index
         /\ Open(r) => request'[r] = [request[r] EXCEPT !.at = "end", !.answer = "lost"]
         /\ ~Open(r) => request'[r] = request[r]
<1>1. request' = [x \in Requests |-> IF Open(x) THEN [request[x] EXCEPT !.at = "end", !.answer = "lost"]
                                    ELSE request[x]]
  BY DEF Crash
<1>2. index' = index
  BY DEF Crash, IndexCrash
<1> QED BY <1>1, <1>2

LEMMA CrashUnit ==
  ASSUME UnitInv, Crash
  PROVE  (\A r \in Requests : Unit(r)') /\ Atomically!Die
<1>0. TypeOK
  BY DEF UnitInv, PInv, TInv
<1>1. ASSUME NEW r \in Requests
      PROVE  /\ Unit(r)' /\ SoFar(r)' = 0
             /\ Asked(r)' = IF Asked(r).kind # "none" /\ Asked(r).answer = "none"
                            THEN [Asked(r) EXCEPT !.answer = "lost"] ELSE Asked(r)
  <2>1. CASE Open(r)
    <3>1. request[r] \in Request /\ request[r] # Idle /\ request[r].at # "end"
      BY <1>0, <2>1, RunningFields DEF Open
    <3>2. request'[r] = [request[r] EXCEPT !.at = "end", !.answer = "lost"]
      BY <2>1, CrashIs
    <3>3. /\ request'[r] # Idle /\ request'[r].at = "end" /\ request'[r].answer = "lost"
          /\ request'[r].kind = request[r].kind /\ request'[r].docs = request[r].docs
          /\ request'[r].within = request[r].within /\ request'[r].overwrite = request[r].overwrite
          /\ request'[r].on = request[r].on
      <4>1. request'[r] \in Request
        BY <3>1, <3>2 DEF Request
      <4> QED BY <3>1, <3>2, <4>1, IdleIsNoRequest DEF Request
    <3>4. Unit(r)' /\ SoFar(r)' = 0
      BY <3>3 DEF Unit, SoFar, Running
    <3>5. Asked(r).kind # "none" /\ Asked(r).answer = "none"
      BY <1>0, <3>1, AskedIs DEF UnitInv, Unit, Kinds
    <3>6. Asked(r)' = [Asked(r) EXCEPT !.answer = "lost"]
      BY <3>1, <3>3 DEF Asked
    <3> QED BY <3>4, <3>5, <3>6
  <2>2. CASE ~Open(r)
    <3>1. request'[r] = request[r] /\ ~Running(r)
      BY <2>2, CrashIs DEF Open, Running
    <3>2. Asked(r)' = Asked(r) /\ ~Running(r)' /\ SoFar(r)' = 0
      BY <3>1, BarKept DEF SoFar
    <3>3. Unit(r)'
      BY <3>1, <3>2 DEF UnitInv, Unit
    <3>4. ~(Asked(r).kind # "none" /\ Asked(r).answer = "none")
      BY <1>0, <2>2, AskedIs DEF UnitInv, Unit, Open, Asked
    <3> QED BY <3>2, <3>3, <3>4
  <2> QED BY <2>1, <2>2
<1>2. index' = index
  BY Zenon DEF Crash, IndexCrash
<1> QED BY <1>1, <1>2 DEF Atomically!Die, Atomically!Open

(* A step of one request keeps what the others have.                          *)
LEMMA OthersUnits ==
  ASSUME UnitInv, NEW q \in Requests, Arrive(q) \/ Step(q), NEW x \in Requests, x # q
  PROVE  Unit(x)'
<1>0. TypeOK
  BY DEF UnitInv, PInv, TInv
<1>1. request'[x] = request[x]
  BY <1>0 DEF Arrive, Step, Enter, Work, Return, Throw, Answered, TypeOK
<1>2. CASE request[x] = Idle
  BY <1>1, <1>2 DEF Unit
<1>3. CASE request[x] # Idle
  <2>1. On(x) \in Indexes
    BY <1>0, <1>3, RunningFields
  <2>2. CASE Arrive(q) \/ Enter(q)
    <3>1. UNCHANGED <<index, writer, draft>>
      BY <2>2 DEF Arrive, Enter, TakeLock, GiveUpLock, ixvars
    <3> QED BY <1>1, <3>1, UnitKept DEF UnitInv
  <2>3. CASE Work(q) \/ Return(q) \/ Throw(q)
    <3>1. On(q) \in Indexes
      BY <1>0, <2>3, RunningFields DEF Work, Return, Throw, Running
    <3>2. writer'[On(x)] = x => /\ writer[On(x)] = x /\ draft'[On(x)] = draft[On(x)]
                                /\ index'[On(x)] = index[On(x)]
      <4>1. CASE On(x) # On(q)
        BY <1>0, <2>1, <2>3, <3>1, <4>1
        DEF Work, Change, ChangeAndCommit, Return, CloseSession, Throw, AbortSession, LetGo, TypeOK, IndexTypes
      <4>2. CASE On(x) = On(q) /\ Work(q)
        BY <1>0, <3>1, <4>2 DEF Work, Change, ChangeAndCommit, TypeOK, IndexTypes
      <4>3. CASE On(x) = On(q) /\ Return(q)
        BY <1>0, <3>1, <4>3, NoneIsNoThread DEF Return, CloseSession, CanWrite, LetGo, TypeOK, IndexTypes
      <4>4. CASE On(x) = On(q) /\ Throw(q)
        BY <1>0, <3>1, <4>4, NoneIsNoThread DEF Throw, AbortSession, LetGo, TypeOK, IndexTypes
      <4> QED BY <2>3, <4>1, <4>2, <4>3, <4>4
    <3> QED BY <1>1, <3>2, UnitKept DEF UnitInv
  <2> QED BY <2>2, <2>3 DEF Step
<1> QED BY <1>2, <1>3

LEMMA UnitStep == UnitInv /\ [Next]_vars => UnitInv' /\ [Atomically!Next]_(Atomically!vars)
<1> SUFFICES ASSUME UnitInv, [Next]_vars
             PROVE  UnitInv' /\ (Atomically!Next \/ UNCHANGED Atomically!vars)
  OBVIOUS
<1>0. PInv'
  BY PrefixStep DEF UnitInv
<1>1. CASE Crash
  BY <1>0, <1>1, CrashUnit DEF UnitInv, Atomically!Next
<1>2. ASSUME NEW q \in Requests, Arrive(q) \/ Step(q)
      PROVE  UnitInv' /\ (Atomically!Next \/ UNCHANGED Atomically!vars)
  <2>1. Unit(q)' /\ (Atomically!Next \/ UNCHANGED Atomically!vars)
    BY <1>2, ArriveUnit, EnterUnit, WorkUnit, EndUnit DEF Step, Atomically!Next
  <2>2. \A x \in Requests : Unit(x)'
    BY <1>2, <2>1, OthersUnits
  <2> QED BY <1>0, <2>1, <2>2 DEF UnitInv
<1>3. CASE UNCHANGED vars
  <2>1. \A x \in Requests : Asked(x)' = Asked(x) /\ SoFar(x)' = SoFar(x)
    BY <1>3, BarKept DEF vars
  <2>2. \A x \in Requests : Unit(x)'
    BY <1>3, UnitKept DEF vars, UnitInv
  <2> QED BY <1>0, <1>3, <2>1, <2>2 DEF vars, UnitInv, Atomically!vars
<1> QED BY <1>1, <1>2, <1>3 DEF Next

LEMMA UnitStart == Init => UnitInv /\ Atomically!Init
<1> SUFFICES ASSUME Init PROVE UnitInv /\ Atomically!Init
  OBVIOUS
<1>1. \A r \in Requests : request[r] = Idle
  BY DEF Init
<1>2. \A r \in Requests : Unit(r) /\ Asked(r) = Atomically!NoAsk /\ SoFar(r) = 0
  BY <1>1 DEF Unit, Asked, SoFar, Running, Atomically!NoAsk
<1>3. PInv
  BY PrefixInit
<1> QED BY <1>2, <1>3 DEF UnitInv, Atomically!Init, Init, IndexInit

(* IndexerWeb.java:396-509, 613-628: for any batches, any within and any      *)
(* number of threads, the jobs implement batches that go in unit by unit,     *)
(* each at once, with no other batch between the units of one.                *)
THEOREM BatchesAreAtomic == Spec => UnitsAreAtomic
<1>1. Init => UnitInv /\ Atomically!Init
  BY UnitStart
<1>2. UnitInv /\ [Next]_vars => UnitInv' /\ [Atomically!Next]_(Atomically!vars)
  BY UnitStep
<1> QED BY <1>1, <1>2, PTL DEF Spec, UnitsAreAtomic, Atomically!Spec
------------------------------------------------------------------------------
(* What LockComesFree needs besides fairness: only a job that is at work      *)
(* holds an index, and each step of a request brings it nearer to its end.    *)
JobOn(q, i) == q # Idle /\ q.at = "work" /\ q.on = i

JobsHold == \A i \in Indexes : \A r \in {lock[i], writer[i]} \ {None} : JobOn(request[r], i)

ToDo(q) == IF q.at = "wait" THEN Len(q.docs) + 2
           ELSE IF q.at = "work" THEN Len(q.docs) - q.done + 1
           ELSE 0

Advances(r) == request[r] # Idle /\ request'[r] # request[r]
                 => request'[r] # Idle /\ ToDo(request'[r]) \in 0 .. ToDo(request[r]) - 1
JobsAdvance == [][\A r \in Requests : Advances(r)]_vars

LocksAreOfJobs == \A i \in Indexes : lock[i] # None => JobOn(request[lock[i]], i)

(* A step of one request that gives no other thread a lock keeps the locks    *)
(* with jobs.                                                                 *)
OnlyRequest(r) == \A q \in Requests : q # r => request'[q] = request[q]

LockedRightly(r, i) == \/ lock'[i] = lock[i] /\ (lock[i] # r \/ JobOn(request'[r], i))
                       \/ lock'[i] = None
                       \/ lock'[i] = r /\ JobOn(request'[r], i)

LEMMA LocksKept ==
  ASSUME TypeOK, LocksAreOfJobs, NEW r \in Requests, OnlyRequest(r),
         \A i \in Indexes : LockedRightly(r, i)
  PROVE  LocksAreOfJobs'
<1> SUFFICES ASSUME NEW i \in Indexes, lock'[i] # None PROVE JobOn(request'[lock'[i]], i)
  BY DEF LocksAreOfJobs
<1>1. CASE lock'[i] = r
  BY <1>1 DEF LockedRightly
<1>2. CASE lock'[i] # r
  <2>1. lock'[i] = lock[i] /\ lock[i] \in Requests /\ JobOn(request[lock[i]], i)
    BY <1>2 DEF LockedRightly, TypeOK, IndexTypes, LocksAreOfJobs
  <2> QED BY <1>2, <2>1 DEF OnlyRequest
<1> QED BY <1>1, <1>2

(* The steps of one request: what becomes of it, and of the locks.            *)
LEMMA RequestSteps ==
  ASSUME TInv, NEW r \in Requests, Step(r)
  PROVE  /\ request[r] \in Request /\ request[r] # Idle /\ On(r) \in Indexes
         /\ OnlyRequest(r)
         /\ \/ /\ request[r].at = "wait"
               /\ request'[r] = [request[r] EXCEPT !.at = "work"]
               /\ lock' \in {lock, [lock EXCEPT ![On(r)] = r]}
            \/ /\ request[r].at = "work" /\ More(r) /\ lock' = lock
               /\ request'[r] = [request[r] EXCEPT !.done = request[r].done + 1]
            \/ /\ request[r].at = "work"
               /\ \E a \in {"ok", "null", "error"} :
                    request'[r] = [request[r] EXCEPT !.at = "end", !.answer = a]
               /\ lock' = [lock EXCEPT ![On(r)] = IF lock[On(r)] = r THEN None ELSE lock[On(r)]]
<1>0. TypeOK /\ request[r] # Idle
  BY DEF TInv, Step, Enter, Waiting, Work, Return, Throw, Running
<1>1. request[r] \in Request /\ On(r) \in Indexes
  BY <1>0, RunningFields
<1>2. CASE Enter(r)
  BY <1>0, <1>1, <1>2 DEF OnlyRequest, Enter, Waiting, TakeLock, GiveUpLock, ixvars, TypeOK
<1>3. CASE Work(r)
  BY <1>0, <1>1, <1>3 DEF OnlyRequest, Work, Running, Change, ChangeAndCommit, TypeOK
<1>4. ASSUME NEW ok \in BOOLEAN, Running(r), Answered(r, ok), LetGo(r, On(r))
      PROVE  /\ request[r].at = "work"
             /\ OnlyRequest(r)
             /\ \E a \in {"ok", "null", "error"} :
                  request'[r] = [request[r] EXCEPT !.at = "end", !.answer = a]
             /\ lock' = [lock EXCEPT ![On(r)] = IF lock[On(r)] = r THEN None ELSE lock[On(r)]]
  <2>1. PICK a \in {"ok", "null", "error"} : a = AnswerOf(r, ok)
    BY DEF AnswerOf
  <2>2. request' = [request EXCEPT ![r] = [request[r] EXCEPT !.at = "end", !.answer = a]]
    BY <1>0, <1>4, <2>1 DEF Answered, TypeOK
  <2> QED BY <1>0, <1>4, <2>1, <2>2 DEF OnlyRequest, Running, LetGo, TypeOK, IndexTypes
<1>5. CASE Return(r)
  BY <1>0, <1>1, <1>4, <1>5 DEF Return, CloseSession
<1>6. CASE Throw(r)
  BY <1>0, <1>1, <1>4, <1>6 DEF Throw, AbortSession
<1> QED BY <1>0, <1>1, <1>2, <1>3, <1>5, <1>6 DEF Step

LEMMA LockStep == TInv /\ LocksAreOfJobs /\ [Next]_vars => LocksAreOfJobs'
<1> SUFFICES ASSUME TInv, LocksAreOfJobs, [Next]_vars PROVE LocksAreOfJobs'
  OBVIOUS
<1>0. TypeOK
  BY DEF TInv
<1>1. ASSUME NEW r \in Requests, Arrive(r) PROVE LocksAreOfJobs'
  <2>1. OnlyRequest(r)
    BY <1>0, <1>1 DEF Arrive, TypeOK, OnlyRequest
  <2>2. \A i \in Indexes : LockedRightly(r, i)
    BY <1>1, NoneIsNoThread DEF Arrive, ixvars, LocksAreOfJobs, JobOn, LockedRightly
  <2> QED BY <1>0, <2>1, <2>2, LocksKept
<1>2. ASSUME NEW r \in Requests, Step(r) PROVE LocksAreOfJobs'
  <2>1. /\ request[r] \in Request /\ On(r) \in Indexes
        /\ OnlyRequest(r)
    BY <1>2, RequestSteps
  <2> SUFFICES ASSUME NEW i \in Indexes PROVE LockedRightly(r, i)
    BY <1>0, <2>1, LocksKept
  <2>2. lock[i] = r => JobOn(request[r], i)
    BY NoneIsNoThread DEF LocksAreOfJobs
  <2>3. CASE /\ request[r].at = "wait"
             /\ request'[r] = [request[r] EXCEPT !.at = "work"]
             /\ lock' \in {lock, [lock EXCEPT ![On(r)] = r]}
    <3>1. request'[r] \in Request /\ request'[r].at = "work" /\ request'[r].on = On(r)
      BY <2>1, <2>3 DEF Request, On
    <3>2. lock[i] # r
      BY <2>2, <2>3 DEF JobOn
    <3>3. lock'[i] = lock[i] \/ (lock'[i] = r /\ i = On(r))
      BY <1>0, <2>3 DEF TypeOK, IndexTypes
    <3> QED BY <3>1, <3>2, <3>3, IdleIsNoRequest DEF JobOn, LockedRightly
  <2>4. CASE /\ request[r].at = "work" /\ More(r) /\ lock' = lock
             /\ request'[r] = [request[r] EXCEPT !.done = request[r].done + 1]
    <3>1. request'[r] \in Request /\ request'[r].at = "work" /\ request'[r].on = request[r].on
      BY <2>1, <2>4, RequestFields DEF Request
    <3>2. lock'[i] = lock[i] /\ (lock[i] = r => request[r].on = i)
      BY <2>2, <2>4 DEF JobOn
    <3> QED BY <3>1, <3>2, IdleIsNoRequest DEF JobOn, LockedRightly
  <2>5. CASE lock' = [lock EXCEPT ![On(r)] = IF lock[On(r)] = r THEN None ELSE lock[On(r)]]
    <3>1. i # On(r) => lock'[i] = lock[i] /\ lock[i] # r
      BY <1>0, <2>2, <2>5 DEF JobOn, On, TypeOK, IndexTypes
    <3>2. i = On(r) => lock'[i] = None \/ (lock'[i] = lock[i] /\ lock[i] # r)
      BY <1>0, <2>5 DEF TypeOK, IndexTypes
    <3> QED BY <3>1, <3>2, NoneIsNoThread DEF LockedRightly
  <2> QED BY <1>2, <2>3, <2>4, <2>5, RequestSteps
<1>3. CASE Crash
  BY <1>3 DEF Crash, IndexCrash, LocksAreOfJobs
<1>4. CASE UNCHANGED vars
  BY <1>4 DEF vars, LocksAreOfJobs
<1> QED BY <1>1, <1>2, <1>3, <1>4 DEF Next

LEMMA AdvanceStep == TInv /\ [Next]_vars => [\A r \in Requests : Advances(r)]_vars
<1> SUFFICES ASSUME TInv, [Next]_vars, NEW r \in Requests, request[r] # Idle, request'[r] # request[r]
             PROVE  request'[r] # Idle /\ ToDo(request'[r]) \in 0 .. ToDo(request[r]) - 1
  BY DEF Advances
<1>0. /\ TypeOK /\ request[r] \in Request
      /\ Len(request[r].docs) \in Nat /\ request[r].done \in 0 .. Len(request[r].docs)
  BY RunningFields DEF TInv
<1>1. CASE Crash
  <2>1. Open(r) /\ request'[r] = [request[r] EXCEPT !.at = "end", !.answer = "lost"]
    BY <1>1 DEF Crash
  <2>2. request'[r] \in Request /\ request'[r].at = "end"
    BY <1>0, <2>1 DEF Request
  <2>3. request[r].at \in {"wait", "work"}
    BY <1>0, <2>1 DEF Open, Request
  <2> QED BY <1>0, <2>2, <2>3, IdleIsNoRequest DEF ToDo
<1>2. ASSUME NEW q \in Requests, Arrive(q) PROVE FALSE
  BY <1>0, <1>2 DEF Arrive, TypeOK
<1>3. ASSUME NEW q \in Requests, Step(q)
      PROVE  request'[r] # Idle /\ ToDo(request'[r]) \in 0 .. ToDo(request[r]) - 1
  <2>1. q = r
    BY <1>3, RequestSteps DEF OnlyRequest
  <2>2. CASE /\ request[r].at = "wait"
             /\ request'[r] = [request[r] EXCEPT !.at = "work"]
    <3>1. /\ request'[r] \in Request /\ request'[r].at = "work"
          /\ request'[r].docs = request[r].docs /\ request'[r].done = request[r].done
      BY <1>0, <2>2 DEF Request
    <3> QED BY <1>0, <2>2, <3>1, IdleIsNoRequest DEF ToDo
  <2>3. CASE /\ request[r].at = "work" /\ More(r)
             /\ request'[r] = [request[r] EXCEPT !.done = request[r].done + 1]
    <3>1. /\ request'[r] \in Request /\ request'[r].at = "work"
          /\ request'[r].docs = request[r].docs /\ request'[r].done = request[r].done + 1
      BY <1>0, <2>3 DEF Request
    <3>2. PICK l \in Nat : l = Len(request[r].docs)
      BY <1>0
    <3>3. PICK n \in 0 .. l : n = request[r].done
      BY <1>0, <3>2
    <3>4. ToDo(request[r]) = l - n + 1 /\ ToDo(request'[r]) = l - (n + 1) + 1
      BY <2>3, <3>1, <3>2, <3>3 DEF ToDo
    <3>5. request'[r] # Idle
      BY <3>1, IdleIsNoRequest
    <3>6. l - (n + 1) + 1 \in 0 .. (l - n + 1) - 1
      BY <3>3
    <3> QED BY <3>4, <3>5, <3>6
  <2>4. CASE /\ request[r].at = "work"
             /\ \E a \in {"ok", "null", "error"} :
                  request'[r] = [request[r] EXCEPT !.at = "end", !.answer = a]
    <3>1. request'[r] \in Request /\ request'[r].at = "end"
      BY <1>0, <2>4 DEF Request
    <3> QED BY <1>0, <2>4, <3>1, IdleIsNoRequest DEF ToDo
  <2> QED BY <1>3, <2>1, <2>2, <2>3, <2>4, RequestSteps
<1> QED BY <1>1, <1>2, <1>3 DEF Next, vars

(* IndexerWeb.java:406-509, 616-625: for any number of threads, whichever job *)
(* gave up the lock, threw or died, only a job at work on an index has its    *)
(* lock or its directory.                                                     *)
THEOREM JobsHoldIndexes == Spec => []JobsHold
<1>1. Init => TInv /\ LocksAreOfJobs
  BY TypeInit DEF Init, IndexInit, LocksAreOfJobs
<1>2. TInv /\ LocksAreOfJobs /\ [Next]_vars => (TInv /\ LocksAreOfJobs)'
  BY TypeStep, LockStep
<1>3. TInv /\ LocksAreOfJobs => JobsHold
  BY DEF TInv, JobsHold, LocksAreOfJobs, WriterRuns, WriterRunsOn, Running, On, JobOn
<1> QED BY <1>1, <1>2, <1>3, PTL DEF Spec

(* IndexerWeb.java:406-509, 616-625: each step of a request, its wait, its    *)
(* documents and its end, leaves it less to do, and no step of another, of a  *)
(* commit or of the death of the process sets it back: a request of any batch *)
(* takes a bounded number of steps.                                           *)
THEOREM JobsComeToAnEnd == Spec => JobsAdvance
<1>1. Init => TInv
  BY TypeInit
<1>2. TInv /\ [Next]_vars => TInv'
  BY TypeStep
<1> QED BY <1>1, <1>2, AdvanceStep, PTL DEF Spec, JobsAdvance
==============================================================================
