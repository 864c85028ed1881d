---------------------------- MODULE AtomicBatches ----------------------------
(* What a request of IndexerWeb.java that writes an index promises, without   *)
(* its job, the locks and the directory: a batch goes into its index unit by  *)
(* unit, each unit at once or not at all, in order and each once; no other    *)
(* request writes the index while a batch is in it in part; and the answer    *)
(* tells apart what the code tells apart.                                     *)
EXTENDS Integers, Sequences

CONSTANTS Indexes, Requests, Ids, Bad, Batches, Withins

VARIABLES
  index,      \* the documents of each index
  ask,        \* what each request asks for, and its answer
  sofar       \* how many documents of a batch are in, while it is in in part

vars == <<index, ask, sofar>>

NoAsk == [kind |-> "none"]

Asks == [kind : {"json", "jarray", "csv", "remove"}, docs : Batches, within : Withins,
         overwrite : BOOLEAN, on : Indexes, answer : {"none"}]

Init ==
  /\ index = [i \in Indexes |-> {}]
  /\ ask = [r \in Requests |-> NoAsk]
  /\ sofar = [r \in Requests |-> 0]

Open(r) == ask[r].kind # "none" /\ ask[r].answer = "none"

Units(q)      == q.kind \in {"jarray", "csv"}
UnitEnd(q, n) == Units(q) /\ q.within # 0 /\ n > 1 /\ (n - 1) % q.within = 0

Readable(q, n) == \A k \in 1 .. n : q.docs[k] # Bad

(* A unit of length zero fails at the second document.                        *)
Finishes(q) == /\ Readable(q, Len(q.docs))
               /\ Units(q) /\ q.within = 0 => Len(q.docs) < 2

(* S, after the documents m + 1 .. n of q were removed from it, put into it   *)
(* in the place of those with their ids, or added to it.                      *)
After(r, q, m, n, S) ==
  {e \in S : q.overwrite \/ q.kind = "remove" => \A k \in m + 1 .. n : e.id # q.docs[k]}
  \cup {[by |-> r, n |-> k, id |-> q.docs[k]] :
          k \in {j \in m + 1 .. n :
                   /\ q.kind # "remove"
                   /\ q.overwrite => \A l \in j + 1 .. n : q.docs[l] # q.docs[j]}}

(* No batch but that of r is in its index in part. *)
Alone(r) == \A q \in Requests \ {r} : sofar[q] > 0 => ask[q].on # ask[r].on

Put(r, n) == index' = [index EXCEPT ![ask[r].on] = After(r, ask[r], sofar[r], n, @)]

Answer(r, a) == ask' = [ask EXCEPT ![r].answer = a] /\ sofar' = [sofar EXCEPT ![r] = 0]
------------------------------------------------------------------------------
Arrive(r) ==
  /\ ask[r] = NoAsk
  /\ \E q \in Asks : ask' = [ask EXCEPT ![r] = q]
  /\ UNCHANGED <<index, sofar>>

CommitUnit(r) ==
  /\ Open(r) /\ Alone(r)
  /\ \E n \in sofar[r] + 1 .. Len(ask[r].docs) :
       /\ UnitEnd(ask[r], n) /\ Readable(ask[r], n)
       /\ \A m \in sofar[r] + 1 .. n - 1 : ~UnitEnd(ask[r], m)
       /\ Put(r, n)
       /\ sofar' = [sofar EXCEPT ![r] = n]
  /\ UNCHANGED ask

(* "error": all is in, but the thread was without the lock and its unlock     *)
(* throws.                                                                    *)
Finish(r) ==
  /\ Open(r) /\ Alone(r) /\ Finishes(ask[r])
  /\ \A m \in sofar[r] + 1 .. Len(ask[r].docs) : ~UnitEnd(ask[r], m)
  /\ Put(r, Len(ask[r].docs))
  /\ \E a \in {"ok", "error"} : Answer(r, a)

(* The rest of the batch is not put in: index.csv tells, the removal answers  *)
(* "null removed", index.json and index.jarray answer as if all were well.    *)
GiveUp(r) ==
  /\ Open(r)
  /\ \E a \in {"ok", "null", "error"} :
       /\ a = "ok" => ask[r].kind \in {"json", "jarray"}
       /\ a = "null" => ask[r].kind = "remove"
       /\ Answer(r, a)
  /\ UNCHANGED index

Die ==
  /\ ask' = [r \in Requests |-> IF Open(r) THEN [ask[r] EXCEPT !.answer = "lost"] ELSE ask[r]]
  /\ sofar' = [r \in Requests |-> 0]
  /\ UNCHANGED index

Next == Die \/ \E r \in Requests : Arrive(r) \/ CommitUnit(r) \/ Finish(r) \/ GiveUp(r)

Spec == Init /\ [][Next]_vars
==============================================================================
