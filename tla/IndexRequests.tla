---------------------------- MODULE IndexRequests ----------------------------
(* The requests of webapp/indexers/IndexerWeb.java that write an index: one   *)
(* document (index.json), an array or a CSV of them with intermediate commits *)
(* (index.jarray, index.csv), and the removal of rows (browsing).  Each runs  *)
(* its job through SearchIndex and answers by what the job returned.          *)
EXTENDS SearchIndex, Sequences, FiniteSetsExt

CONSTANTS
  Ids,        \* document ids
  Bad,        \* a document that the job cannot read
  Batches,    \* what requests bring: sequences of ids and Bad
  Withins,    \* the parameter within
  Idle        \* a thread that has no request yet

ASSUME BatchesAreSequences == Batches \subseteq Seq(Ids \cup {Bad})
ASSUME WithinsAreNumbers   == Withins \subseteq Nat
ASSUME BadIsNoId           == Bad \notin Ids

Kinds == {"json", "jarray", "csv", "remove"}

Request == [kind : Kinds, docs : Batches, within : Withins, overwrite : BOOLEAN,
            on : Indexes, at : {"wait", "work", "end"}, done : Nat,
            answer : {"none", "ok", "null", "error", "lost"}]

ASSUME IdleIsNoRequest == Idle \notin Request

(* A document of the index: the n-th of a request. *)
Document == [by : Requests, n : Nat, id : Ids]

VARIABLE request

vars == <<index, lock, writer, draft, request>>

TypeOK ==
  /\ IndexTypes(SUBSET Document)
  /\ request \in [Requests -> Request \cup {Idle}]
  /\ \A r \in Requests : request[r] # Idle => request[r].done \in 0 .. Len(request[r].docs)

Init == IndexInit({}) /\ request = [r \in Requests |-> Idle]

Running(r) == request[r] # Idle /\ request[r].at = "work"
On(r)      == request[r].on
More(r)    == request[r].done < Len(request[r].docs)
NextDoc(r) == request[r].docs[request[r].done + 1]
------------------------------------------------------------------------------
(* index.json brings one document; the others a list.                         *)
Arrive(r) ==
  /\ request[r] = Idle
  /\ \E k \in Kinds, b \in Batches, w \in Withins, o \in BOOLEAN, i \in Indexes :
       /\ k = "json" => Len(b) = 1
       /\ k = "remove" => Bad \notin {b[n] : n \in DOMAIN b}
       /\ request' = [request EXCEPT ![r] =
            [kind |-> k, docs |-> b, within |-> w, overwrite |-> o, on |-> i,
             at |-> "wait", done |-> 0, answer |-> "none"]]
  /\ UNCHANGED ixvars

Waiting(r) == request[r] # Idle /\ request[r].at = "wait"

Enter(r) ==
  /\ Waiting(r)
  /\ TakeLock(r, On(r)) \/ GiveUpLock(r, On(r))
  /\ request' = [request EXCEPT ![r].at = "work"]

(* Variant: overwrite begins with an empty index. *)
AppliedToEmpty(r) ==
  LET q == request[r]
      d == [by |-> r, n |-> q.done + 1, id |-> NextDoc(r)]
      old == IF q.overwrite /\ q.done = 0 THEN {} ELSE Session(r, q.on)
  IN  IF q.kind = "remove" THEN {e \in old : e.id # d.id} ELSE old \cup {d}

(* newDocument and insertDocument, or updateDocument, or deleteById. *)
Applied(r) ==
  LET q == request[r]
      d == [by |-> r, n |-> q.done + 1, id |-> NextDoc(r)]
      old == Session(r, q.on)
      others == {e \in old : e.id # d.id}
  IN  CASE q.kind = "remove" -> others
        [] q.kind # "remove" /\ q.overwrite -> others \cup {d}
        [] OTHER -> old \cup {d}

(* Variant: the first document commits too. *)
UnitEndsAtZero(r) == /\ request[r].kind \in {"jarray", "csv"}
                     /\ request[r].within # 0
                     /\ request[r].done % request[r].within = 0

(* if (i != 0 && i % within == 0) continueUnit(). *)
UnitEnds(r) == /\ request[r].kind \in {"jarray", "csv"}
               /\ request[r].done # 0
               /\ request[r].done % request[r].within = 0

DividesByZero(r) == /\ request[r].kind \in {"jarray", "csv"}
                    /\ request[r].done # 0 /\ request[r].within = 0

(* Variant: the loop counts twice. *)
WorkTwice(r) ==
  /\ Running(r) /\ More(r)
  /\ NextDoc(r) # Bad /\ ~DividesByZero(r)
  /\ IF UnitEnds(r) THEN ChangeAndCommit(r, On(r), Applied(r)) ELSE Change(r, On(r), Applied(r))
  /\ request' = [request EXCEPT ![r].done = @ + 2]

Work(r) ==
  /\ Running(r) /\ More(r)
  /\ NextDoc(r) # Bad /\ ~DividesByZero(r)
  /\ IF UnitEnds(r) THEN ChangeAndCommit(r, On(r), Applied(r)) ELSE Change(r, On(r), Applied(r))
  /\ request' = [request EXCEPT ![r].done = @ + 1]

(* Variant: the sum of index.csv is an Integer. *)
AnswerOfBoxed(r, ok) ==
  IF ~Owns(r, On(r)) THEN "error"
  ELSE IF ok \/ request[r].kind \in {"json", "jarray", "csv"} THEN "ok" ELSE "null"

(* A job that threw returned null: index.json and index.jarray do not look at *)
(* it, index.csv unboxes it, the removal prints it.                           *)
AnswerOf(r, ok) ==
  IF ~Owns(r, On(r)) \/ (~ok /\ request[r].kind = "csv") THEN "error"
  ELSE IF ok \/ request[r].kind \in {"json", "jarray"} THEN "ok" ELSE "null"

Answered(r, ok) ==
  request' = [request EXCEPT ![r].at = "end", ![r].answer = AnswerOf(r, ok)]

Return(r) ==
  /\ Running(r) /\ ~More(r)
  /\ CloseSession(r, On(r), Session(r, On(r)))
  /\ Answered(r, TRUE)

(* Out of the job, or out of an IndexWriter whose directory is taken. *)
Throws(r) == \/ ~CanWrite(r, On(r))
             \/ More(r) /\ (NextDoc(r) = Bad \/ DividesByZero(r))

Throw(r) ==
  /\ Running(r) /\ Throws(r)
  /\ AbortSession(r, On(r))
  /\ Answered(r, FALSE)

Open(r) == request[r] # Idle /\ request[r].at # "end"

Crash ==
  /\ \E r \in Requests : Open(r)
  /\ IndexCrash
  /\ request' = [r \in Requests |->
                   IF Open(r) THEN [request[r] EXCEPT !.at = "end", !.answer = "lost"]
                   ELSE request[r]]

Step(r) == Enter(r) \/ Work(r) \/ Return(r) \/ Throw(r)

Next == Crash \/ \E r \in Requests : Arrive(r) \/ Step(r)

Fairness == \A r \in Requests : WF_vars(Step(r))

Spec == Init /\ [][Next]_vars /\ Fairness
------------------------------------------------------------------------------
IdsOf(r) == IF request[r] = Idle THEN {} ELSE {request[r].docs[n] : n \in DOMAIN request[r].docs}

(* No other request, and no two documents of this one, name its ids. *)
Apart(r) ==
  /\ \A q \in Requests \ {r} : IdsOf(q) \cap IdsOf(r) \subseteq {Bad}
  /\ \A m, n \in DOMAIN request[r].docs : request[r].docs[m] = request[r].docs[n] => m = n

Mine(r, S) == {d.n : d \in {e \in S : e.by = r}}
Stored(r)  == Mine(r, index[On(r)])

Adds(r) == request[r] # Idle /\ request[r].kind # "remove"

(* Where a batch may have been cut: nowhere, at its end, or after the first   *)
(* document of a unit.                                                        *)
Cuts(r) == {0, Len(request[r].docs)}
           \cup (IF request[r].kind = "json" \/ request[r].within = 0 THEN {}
                 ELSE {n \in 2 .. Len(request[r].docs) : (n - 1) % request[r].within = 0})

(* IndexerWeb.java:461, 501: whatever fails and whenever the process dies, an *)
(* index holds a prefix of each batch that ends with a unit, in no case a     *)
(* batch with a gap.                                                          *)
PrefixOfUnits ==
  \A r \in Requests : Adds(r) /\ Apart(r) => \E k \in Cuts(r) : Stored(r) = 1 .. k

(* IndexerWeb.java:509: index.csv answers with the number of documents only   *)
(* when all of them were committed.                                           *)
CsvTellsTheTruth ==
  \A r \in Requests :
    Adds(r) /\ request[r].kind = "csv" /\ Apart(r) /\ request[r].answer = "ok"
      => Stored(r) = 1 .. Len(request[r].docs)

(* What another request committed stays: only a request for the same id takes *)
(* a document out of an index, also when a writer did not get the lock.       *)
TakenByARequest ==
  \A i \in Indexes : \A d \in index[i] \ index'[i] :
    \E r \in Requests : /\ Running(r) /\ On(r) = i /\ d.id \in IdsOf(r)
                        /\ request[r].overwrite \/ request[r].kind = "remove"

CommittedStays == [][TakenByARequest]_vars

(* The ends of units that the job of r has come to, and the last of them.     *)
Ends(r) == {0} \cup {n \in 2 .. request[r].done :
                       /\ request[r].kind \in {"jarray", "csv"} /\ request[r].within # 0
                       /\ (n - 1) % request[r].within = 0}
SoFar(r) == IF Running(r) THEN Max(Ends(r)) ELSE 0

(* What a request asks for and its answer, without how far its job is.        *)
Asked(r) ==
  IF request[r] = Idle THEN [kind |-> "none"]
  ELSE [kind |-> request[r].kind, docs |-> request[r].docs, within |-> request[r].within,
        overwrite |-> request[r].overwrite, on |-> request[r].on, answer |-> request[r].answer]

Atomically == INSTANCE AtomicBatches
                WITH ask   <- [r \in Requests |-> Asked(r)],
                     sofar <- [r \in Requests |-> SoFar(r)]

(* IndexerWeb.java:396-509, 613-628: jobs that wait, go on without the lock,  *)
(* throw, divide by zero or die leave in each index what units put in at      *)
(* once, in order and one batch after the other would leave.                  *)
UnitsAreAtomic == Atomically!Spec

(* Every way out of a job lets go of the lock and of the directory. *)
LockComesFree == \A i \in Indexes : []<>(lock[i] = None /\ writer[i] = None)
==============================================================================
