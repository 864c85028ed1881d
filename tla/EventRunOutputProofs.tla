------------------------ MODULE EventRunOutputProofs -------------------------
(* What the pages and the nodes of EventRun are left with, for any events,   *)
(* connections, runs and length of output: the output without gaps, the end  *)
(* with all of it, and the failure on record.                                *)
EXTENDS EventRunProofs

(* A run sends before it merges and tells, one that failed without a message *)
(* does nothing more, and a loader does not tell before it has merged.       *)
Flow(r) ==
  /\ r.flushed <= r.wrote
  /\ r.at \in {"merge", "tell"} => r.flushed = r.wrote
  /\ r.outcome = "mute" => r.at \in {"fail", "done"}
  /\ r.at = "fail" => r.outcome \in {"fail", "mute"}
  /\ r.next \in {"send", "tell"} => r.kind = "script"

FlowInv == TypeInv /\ \A w \in Workers : run[w] # Unused => Flow(run[w])

(* A connection in the map was put there, and that happens once.             *)
PutInv == \A e \in Events : connMap[e] # Nobody => conn[connMap[e]].open = "put"

Pieces(c, w) == {n \in Outputs : <<w, n>> \in got[c]}

(* What a page received of a run are pieces without a gap up to some point,  *)
(* and up to what the run has flushed while its connection can be sent to.   *)
PieceInv(c, w) ==
  Pieces(c, w) # {} =>
    /\ run[w] # Unused /\ conn[c] # Unused /\ conn[c].open = "put"
    /\ \A n \in Pieces(c, w) : n <= run[w].flushed
    /\ \A m, n \in Pieces(c, w) : m .. n \subseteq Pieces(c, w)
    /\ conn[c].alive /\ connMap[run[w].event] = c => run[w].flushed \in Pieces(c, w)

(* A connection that was told the end of a run is closed, and the run done.  *)
EndInv(c, w) ==
  conn[c] # Unused /\ conn[c].endedBy = w =>
    /\ ~ conn[c].alive /\ run[w] # Unused /\ run[w].at = "done"
    /\ Pieces(c, w) # {} => run[w].wrote \in Pieces(c, w)

PageInv(c, w) == PieceInv(c, w) /\ EndInv(c, w)

OutputInv == FlowInv /\ PutInv /\ \A c \in Conns, w \in Workers : PageInv(c, w)

(* A loader that is about to tell, or has told, merged all its output.       *)
Told(w) == At(w, "tell") \/ \E c \in Conns : conn[c] # Unused /\ conn[c].endedBy = w
Merged(w) ==
  node[run[w].event].by = w
    => node[run[w].event].status = "end" /\ node[run[w].event].content = run[w].wrote

StoredInv == OutputInv /\ \A w \in Workers : Told(w) /\ Loader(w) => Merged(w)

(* A node was last written by a loader of its event.  The exception of a run *)
(* stays on it, unless another of its event fails without a message.         *)
WrittenBy(e) ==
  node[e] # Absent => run[node[e].by] # Unused /\ run[node[e].by].event = e /\ Loader(node[e].by)
NoOtherMute(w) ==
  \A v \in Workers \ {w} :
    run[v] # Unused /\ run[v].event = run[w].event => run[v].outcome # "mute"
Recorded(w) ==
  /\ run[w] # Unused /\ Loader(w) /\ run[w].outcome = "fail" /\ run[w].at # "fail"
  /\ NoOtherMute(w)
  => node[run[w].event].exception
Muted(w) ==
  /\ run[w] # Unused /\ Loader(w) /\ run[w].outcome = "mute" /\ run[w].at # "fail"
  /\ node[run[w].event].by = w
  => node[run[w].event].status = "fail"

FailInv ==
  /\ FlowInv
  /\ \A e \in Events : WrittenBy(e)
  /\ \A w \in Workers : Recorded(w) /\ Muted(w)
------------------------------------------------------------------------------
(* What the steps of a run do with it. *)
LEMMA OfWorker ==
  ASSUME TypeInv, NEW w \in Workers, NEW r, run' = [run EXCEPT ![w] = r]
  PROVE  run'[w] = r /\ \A v \in Workers \ {w} : run'[v] = run[v]
  BY DEF TypeInv, TypeOK

Numbers(r) == r.wrote \in Nat /\ r.flushed \in Nat

LEMMA RunFields ==
  ASSUME NEW r \in Run
  PROVE  Numbers(r) /\ r # Unused /\ r.event \in Events
  BY Distinct, MaxOutIsNat DEF Run, Outputs, Numbers

(* A run before a step and after it. *)
Same(r, q)  == q.event = r.event /\ q.kind = r.kind
Writes(r, q) == q.flushed = r.flushed /\ q.wrote \in {r.wrote, r.wrote + 1}
Turns(r, q) ==
  /\ q.kind = r.kind
  /\ q.next \in {"send", "tell"} => r.next \in {"send", "tell"} \/ r.kind = "script"
MovesTo(r, q, at) == Writes(r, q) /\ q.outcome = r.outcome /\ q.at = at

LEMMA StepIs ==
  ASSUME TypeInv, NEW w \in Workers
  PROVE  /\ Write(w) => run[w].at = "exec" /\ MovesTo(run[w], run'[w], "exec")
         /\ CallFlush(w) => run[w].at = "exec" /\ MovesTo(run[w], run'[w], "send")
         /\ Return(w) => /\ run[w].at = "exec" /\ Writes(run[w], run'[w])
                         /\ run'[w].at \in {"done", "send", "fail"}
                         /\ run'[w].outcome \in {"mute", "fail"} <=> run'[w].at = "fail"
         /\ Fail(w) => /\ run[w].at = "fail"
                       /\ MovesTo(run[w], run'[w],
                                  IF run[w].outcome = "mute" THEN "done" ELSE "send")
         /\ Send(w) => /\ run[w].at = "send" /\ run'[w].at = run[w].next
                       /\ run'[w].flushed = run[w].wrote /\ run'[w].wrote = run[w].wrote
                       /\ run'[w].outcome = run[w].outcome
         /\ MergeEnd(w) => /\ run[w].at = "merge" /\ MovesTo(run[w], run'[w], "tell")
                           /\ run'[w].wrote = run[w].wrote
         /\ CloseEvent(w) => /\ run[w].at = "tell" /\ MovesTo(run[w], run'[w], "done")
                             /\ run'[w].wrote = run[w].wrote
         /\ Step(w) => Turns(run[w], run'[w])
<1> USE DEF MovesTo, Writes, Turns
<1>0. Step(w) => run[w] \in Run
  BY RunOfWorker DEF Step, Write, CallFlush, Return, Fail, Send, SendTo, MergeEnd, CloseEvent, At
<1>1. ASSUME Write(w)
      PROVE  run[w].at = "exec" /\ MovesTo(run[w], run'[w], "exec") /\ Turns(run[w], run'[w])
  <2>1. run[w].at = "exec" /\ run'[w] = [run[w] EXCEPT !.wrote = @ + 1]
    BY <1>1, OfWorker DEF Write, At
  <2> QED BY <1>0, <1>1, <2>1 DEF Step, Run
<1>2. ASSUME CallFlush(w)
      PROVE  run[w].at = "exec" /\ MovesTo(run[w], run'[w], "send") /\ Turns(run[w], run'[w])
  <2>1. run[w].at = "exec" /\ run'[w] = [run[w] EXCEPT !.at = "send"]
    BY <1>2, OfWorker DEF CallFlush, At, GoTo
  <2> QED BY <1>0, <1>2, <2>1 DEF Step, Run
<1>3. ASSUME Return(w)
      PROVE  /\ run[w].at = "exec" /\ Writes(run[w], run'[w])
             /\ run'[w].at \in {"done", "send", "fail"}
             /\ run'[w].outcome \in {"mute", "fail"} <=> run'[w].at = "fail"
             /\ Turns(run[w], run'[w])
  <2>1. run[w].at = "exec" /\ run[w] \in Run
    BY <1>0, <1>3 DEF Return, At, Step
  <2>2. PICK o \in {"ok", "fail", "mute", "error"}, a \in {"done", "send", "fail"},
             i \in {0, 1}, n \in {"exec", "merge", "send"} :
          /\ o \in {"mute", "fail"} <=> a = "fail"
          /\ n = "send" => run[w].kind # "loader"
          /\ Finish(w, o, i, a, n)
    BY <1>3 DEF Return, Loader
  <2> DEFINE r == [run[w] EXCEPT !.outcome = o, !.wrote = run[w].wrote + i, !.at = a, !.next = n]
  <2>3. run' = [run EXCEPT ![w] = r]
    BY <2>2 DEF Finish
  <2>4. r.outcome = o /\ r.wrote = run[w].wrote + i /\ r.at = a /\ r.flushed = run[w].flushed
        /\ r.kind = run[w].kind /\ r.next = n
    BY <2>1 DEF Run
  <2> HIDE DEF r
  <2>5. run'[w] = r
    BY <2>3, OfWorker
  <2>6. Numbers(run[w])
    BY <2>1, RunFields
  <2>7. run[w].kind \in {"loader", "script"}
    BY <2>1 DEF Run
  <2> QED BY <2>1, <2>2, <2>4, <2>5, <2>6, <2>7 DEF Numbers
<1>4. ASSUME Fail(w)
      PROVE  /\ run[w].at = "fail"
             /\ MovesTo(run[w], run'[w], IF run[w].outcome = "mute" THEN "done" ELSE "send")
             /\ Turns(run[w], run'[w])
  <2>0. run[w] \in Run /\ run[w].at = "fail"
    BY <1>0, <1>4 DEF Fail, At, Step
  <2>1. CASE run[w].outcome = "mute"
    <3>1. run'[w] = [run[w] EXCEPT !.at = "done"]
      BY <1>4, <2>1, OfWorker DEF Fail, GoTo
    <3> QED BY <2>0, <2>1, <3>1 DEF Run
  <2>2. CASE run[w].outcome # "mute"
    <3>1. run' = [run EXCEPT ![w] = [run[w] EXCEPT !.at = "send", !.wrote = @ + 1]]
      BY <1>4, <2>2 DEF Fail
    <3>2. run'[w] = [run[w] EXCEPT !.at = "send", !.wrote = @ + 1]
      BY <3>1, OfWorker
    <3> QED BY <2>0, <2>2, <3>2 DEF Run
  <2> QED BY <2>1, <2>2
<1>5. ASSUME Send(w)
      PROVE  /\ run[w].at = "send" /\ run'[w].at = run[w].next
             /\ run'[w].flushed = run[w].wrote /\ run'[w].wrote = run[w].wrote
             /\ run'[w].outcome = run[w].outcome /\ Turns(run[w], run'[w])
  <2> DEFINE n == IF run[w].next = "send" THEN "tell" ELSE run[w].next
             r == [run[w] EXCEPT !.flushed = run[w].wrote, !.at = run[w].next, !.next = n]
  <2>1. run[w] \in Run /\ run[w].at = "send"
    BY <1>0, <1>5 DEF Send, SendTo, At, Step
  <2>2. run' = [run EXCEPT ![w] = r]
    BY <1>5 DEF Send, SendTo
  <2>3. r.at = run[w].next /\ r.flushed = run[w].wrote /\ r.wrote = run[w].wrote
        /\ r.outcome = run[w].outcome /\ r.kind = run[w].kind /\ r.next = n
    BY <2>1 DEF Run
  <2> HIDE DEF r
  <2>4. run'[w] = r
    BY <2>2, OfWorker
  <2> QED BY <2>1, <2>3, <2>4
<1>6. ASSUME MergeEnd(w)
      PROVE  /\ run[w].at = "merge" /\ MovesTo(run[w], run'[w], "tell")
             /\ run'[w].wrote = run[w].wrote /\ Turns(run[w], run'[w])
  <2>1. run[w].at = "merge" /\ run'[w] = [run[w] EXCEPT !.at = "tell"]
    BY <1>6, OfWorker DEF MergeEnd, At, GoTo
  <2> QED BY <1>0, <1>6, <2>1 DEF Step, Run
<1>7. ASSUME CloseEvent(w)
      PROVE  /\ run[w].at = "tell" /\ MovesTo(run[w], run'[w], "done")
             /\ run'[w].wrote = run[w].wrote /\ Turns(run[w], run'[w])
  <2>1. run[w].at = "tell" /\ run'[w] = [run[w] EXCEPT !.at = "done"]
    BY <1>7, OfWorker DEF CloseEvent, At, GoTo
  <2> QED BY <1>0, <1>7, <2>1 DEF Step, Run
<1> HIDE DEF MovesTo, Writes, Turns
<1> QED BY <1>1, <1>2, <1>3, <1>4, <1>5, <1>6, <1>7 DEF Step

LEMMA StepKeeps ==
  ASSUME TypeInv, NEW w \in Workers, Step(w)
  PROVE  /\ TypeInv' /\ RunsKept
         /\ run[w] \in Run /\ run[w] # Unused /\ run[w].at # "done"
         /\ run'[w] \in Run /\ Same(run[w], run'[w])
         /\ \A v \in Workers \ {w} : run'[v] = run[v]
         /\ UNCHANGED registry
<1>1. TypeInv' /\ RunsKept
  BY OutputType, NodeType DEF Step
<1>2. run[w] # Unused /\ UNCHANGED registry
  BY DEF Step, Write, CallFlush, Return, Fail, Send, SendTo, MergeEnd, CloseEvent, At
<1>3. run[w] \in Run /\ run'[w] \in Run
  BY <1>1, <1>2 DEF TypeInv, TypeOK, RunsKept
<1>4. run[w].at # "done" /\ run'[w].kind = run[w].kind
  BY StepIs DEF Step, Turns
<1>5. \A v \in Workers \ {w} : run'[v] = run[v]
  <2>1. \E r : run' = [run EXCEPT ![w] = r]
    BY DEF Step, Write, CallFlush, Return, Finish, Fail, Send, SendTo, MergeEnd, CloseEvent, GoTo
  <2> QED BY <2>1, OfWorker
<1> QED BY <1>1, <1>2, <1>3, <1>4, <1>5 DEF RunsKept, Same
LEMMA StartIs ==
  ASSUME TypeInv, NEW w \in Workers, NEW e \in Events,
         RunLoader(w, e) \/ InstantRun(w, e) \/ InstantRunRefused(w, e)
  PROVE  /\ TypeInv' /\ run[w] = Unused
         /\ run'[w] \in Run /\ run'[w].event = e /\ run'[w].wrote = 0 /\ run'[w].flushed = 0
         /\ run'[w].outcome \in {"none", "error"} /\ run'[w].at \in {"exec", "done"}
         /\ run'[w].next = "exec"
         /\ run'[w].kind = "loader" => RunLoader(w, e)
         /\ \A v \in Workers \ {w} : run'[v] = run[v]
         /\ UNCHANGED <<conn, connMap, got>>
<1>1. TypeInv' /\ run[w] = Unused /\ UNCHANGED <<conn, connMap, got>>
  BY StartType DEF RunLoader, InstantRun, InstantRunRefused, registry
<1>2. PICK k \in {"loader", "script"}, a \in {"exec", "done"}, o \in {"none", "error"} :
        /\ run' = [run EXCEPT ![w] = [event |-> e, kind |-> k, at |-> a, next |-> "exec",
                                      wrote |-> 0, flushed |-> 0, outcome |-> o]]
        /\ k = "loader" => RunLoader(w, e)
  <2>1. CASE RunLoader(w, e)
    BY <2>1 DEF RunLoader, NewRun
  <2>2. CASE InstantRun(w, e)
    BY <2>2 DEF InstantRun, NewRun
  <2>3. CASE InstantRunRefused(w, e)
    <3>1. [NewRun(e, "script", "done") EXCEPT !.outcome = "error"]
          = [event |-> e, kind |-> "script", at |-> "done", next |-> "exec", wrote |-> 0,
             flushed |-> 0, outcome |-> "error"]
      BY DEF NewRun
    <3>2. run' = [run EXCEPT ![w] = [NewRun(e, "script", "done") EXCEPT !.outcome = "error"]]
      BY <2>3 DEF InstantRunRefused
    <3> QED BY <3>1, <3>2
  <2> QED BY <2>1, <2>2, <2>3
<1>3. /\ run'[w] = [event |-> e, kind |-> k, at |-> a, next |-> "exec", wrote |-> 0, flushed |-> 0,
                    outcome |-> o]
      /\ \A v \in Workers \ {w} : run'[v] = run[v]
  BY <1>2, OfWorker
<1>4. run'[w] \in Run
  BY <1>3, MaxOutIsNat DEF Run, Outputs
<1> QED BY <1>1, <1>2, <1>3, <1>4

LEMMA ConnStepIs ==
  ASSUME TypeInv, NEW c \in Conns,
         Lose(c) \/ OnOpen(c) \/ OnClose(c) \/ \E e \in Events : Connect(c, e)
  PROVE  TypeInv' /\ UNCHANGED <<run, node>>
<1>1. TypeInv'
  BY ConnType
<1>2. UNCHANGED <<run, node>>
  BY DEF Lose, OnOpen, Release, PutConn, OnClose, RemoveLatch, RemoveConn, Connect
<1> QED BY <1>1, <1>2

LEMMA FlowInit == Init => FlowInv
  BY TypeInit DEF Init, FlowInv

LEMMA FlowStep == FlowInv /\ [Next]_vars => FlowInv'
<1> SUFFICES ASSUME FlowInv, [Next]_vars PROVE FlowInv'
  OBVIOUS
<1>0. TypeInv /\ TypeInv'
  BY TypeStep DEF FlowInv
<1>1. CASE UNCHANGED run
  BY <1>0, <1>1 DEF FlowInv
<1>2. ASSUME NEW w \in Workers, NEW e \in Events,
             RunLoader(w, e) \/ InstantRun(w, e) \/ InstantRunRefused(w, e)
      PROVE  FlowInv'
  <2>1. Flow(run'[w])
    BY <1>0, <1>2, StartIs DEF Flow
  <2> QED BY <1>0, <1>2, <2>1, StartIs DEF FlowInv
<1>3. ASSUME NEW w \in Workers, Step(w) PROVE FlowInv'
  <2>1. run[w] \in Run /\ Numbers(run[w]) /\ Flow(run[w])
        /\ \A v \in Workers \ {w} : run'[v] = run[v]
    BY <1>0, <1>3, StepKeeps, RunFields DEF FlowInv
  <2>2. Flow(run'[w])
    <3>0. Turns(run[w], run'[w])
      BY <1>0, <1>3, StepIs
    <3>1. CASE Write(w) \/ CallFlush(w)
      BY <1>0, <2>1, <3>0, <3>1, StepIs DEF Flow, MovesTo, Writes, Turns, Numbers
    <3>2. CASE Return(w)
      BY <1>0, <2>1, <3>0, <3>2, StepIs DEF Flow, Writes, Turns, Numbers
    <3>3. CASE Fail(w)
      BY <1>0, <2>1, <3>0, <3>3, StepIs DEF Flow, MovesTo, Writes, Turns, Numbers
    <3>4. CASE Send(w)
      <4>1. run[w].next # "fail"
        BY <2>1 DEF Run
      <4> QED BY <1>0, <2>1, <3>0, <3>4, <4>1, StepIs DEF Flow, Turns, Numbers
    <3>5. CASE MergeEnd(w) \/ CloseEvent(w)
      BY <1>0, <2>1, <3>0, <3>5, StepIs DEF Flow, MovesTo, Writes, Turns, Numbers
    <3> QED BY <1>3, <3>1, <3>2, <3>3, <3>4, <3>5 DEF Step
  <2> QED BY <1>0, <2>1, <2>2 DEF FlowInv
<1>4. ASSUME NEW c \in Conns,
             Lose(c) \/ OnOpen(c) \/ OnClose(c) \/ \E e \in Events : Connect(c, e)
      PROVE  FlowInv'
  BY <1>0, <1>1, <1>4, ConnStepIs
<1> QED BY <1>1, <1>2, <1>3, <1>4 DEF Next, vars
------------------------------------------------------------------------------
(* What the steps of connections do with them.                               *)
Ages(k, l) ==
  /\ k # Unused /\ l # Unused /\ l.endedBy = k.endedBy /\ l.alive \in {k.alive, FALSE}
  /\ k.open = "put" => l.open = "put"

LEMMA OfConn ==
  ASSUME TypeInv, NEW c \in Conns, NEW k, conn' = [conn EXCEPT ![c] = k]
  PROVE  conn'[c] = k /\ \A d \in Conns \ {c} : conn'[d] = conn[d]
  BY DEF TypeInv, TypeOK

LEMMA ConnIs ==
  ASSUME TypeInv, NEW c \in Conns
  PROVE  /\ \A e \in Events : Connect(c, e) =>
              /\ conn[c] = Unused /\ conn'[c].endedBy = Nobody
              /\ UNCHANGED <<connMap, got>>
         /\ Lose(c) => Ages(conn[c], conn'[c]) /\ connMap' = connMap
                       /\ got' = [got EXCEPT ![c] = {}]
         /\ OnOpen(c) => /\ Ages(conn[c], conn'[c]) /\ got' = got /\ conn[c].open # "put"
                         /\ \A e \in Events :
                              \/ connMap'[e] = connMap[e]
                              \/ connMap'[e] = c /\ conn'[c].open = "put"
         /\ OnClose(c) => /\ Ages(conn[c], conn'[c]) /\ got' = got
                          /\ \A e \in Events : connMap'[e] \in {connMap[e], Nobody}
         /\ Lose(c) \/ OnOpen(c) \/ OnClose(c) \/ (\E e \in Events : Connect(c, e))
              => \A d \in Conns \ {c} : conn'[d] = conn[d]
<1>0. conn[c] # Unused => conn[c] \in Conn
  BY DEF TypeInv, TypeOK
<1>1. ASSUME NEW e \in Events, Connect(c, e)
      PROVE  /\ conn[c] = Unused /\ conn'[c].endedBy = Nobody /\ UNCHANGED <<connMap, got>>
             /\ \A d \in Conns \ {c} : conn'[d] = conn[d]
  <2> DEFINE k == [id |-> e, alive |-> TRUE, open |-> "asked", close |-> "no", endedBy |-> Nobody]
  <2>1. k.endedBy = Nobody
    OBVIOUS
  <2>2. conn[c] = Unused /\ conn' = [conn EXCEPT ![c] = k] /\ UNCHANGED <<connMap, got>>
    BY <1>1 DEF Connect, registry
  <2> HIDE DEF k
  <2>3. conn'[c] = k /\ \A d \in Conns \ {c} : conn'[d] = conn[d]
    BY <2>2, OfConn
  <2> QED BY <2>1, <2>2, <2>3
<1>2. ASSUME Lose(c)
      PROVE  /\ Ages(conn[c], conn'[c]) /\ connMap' = connMap /\ got' = [got EXCEPT ![c] = {}]
             /\ \A d \in Conns \ {c} : conn'[d] = conn[d]
  <2>1. conn'[c] = [conn[c] EXCEPT !.alive = FALSE] /\ \A d \in Conns \ {c} : conn'[d] = conn[d]
    BY <1>2, OfConn DEF Lose
  <2>2. conn[c] \in Conn /\ conn'[c] \in Conn
    BY <1>0, <1>2, <2>1, ConnUpdate DEF Lose, TypeInv
  <2>3. Ages(conn[c], conn'[c])
    BY <2>1, <2>2, Distinct DEF Ages, Conn
  <2>4. connMap' = connMap /\ got' = [got EXCEPT ![c] = {}]
    BY <1>2 DEF Lose, registry
  <2> QED BY <2>1, <2>3, <2>4
<1>3. ASSUME OnOpen(c)
      PROVE  /\ Ages(conn[c], conn'[c]) /\ got' = got /\ conn[c].open # "put"
             /\ \A e \in Events : \/ connMap'[e] = connMap[e]
                                  \/ connMap'[e] = c /\ conn'[c].open = "put"
             /\ \A d \in Conns \ {c} : conn'[d] = conn[d]
  <2>1. PICK o \in {"released", "put"} :
          /\ conn[c] # Unused /\ conn[c].open # "put" /\ conn' = [conn EXCEPT ![c].open = o]
          /\ \/ connMap' = connMap
             \/ o = "put" /\ connMap' = [connMap EXCEPT ![conn[c].id] = c]
    <3>1. CASE Release(c)
      BY <3>1 DEF Release
    <3>2. CASE PutConn(c)
      BY <3>2 DEF PutConn
    <3> QED BY <1>3, <3>1, <3>2 DEF OnOpen
  <2>2. conn'[c] = [conn[c] EXCEPT !.open = o] /\ \A d \in Conns \ {c} : conn'[d] = conn[d]
    BY <2>1, OfConn
  <2>3. conn[c] \in Conn /\ conn'[c] \in Conn
    BY <1>0, <2>1, <2>2, ConnUpdate DEF TypeInv
  <2>4. Ages(conn[c], conn'[c]) /\ conn'[c].open = o
    BY <2>1, <2>2, <2>3, Distinct DEF Ages, Conn
  <2>5. \A e \in Events : connMap'[e] = connMap[e] \/ (connMap'[e] = c /\ o = "put")
    BY <2>1 DEF TypeInv, TypeOK
  <2> QED BY <1>3, <2>1, <2>2, <2>4, <2>5 DEF OnOpen, Release, PutConn
<1>4. ASSUME OnClose(c)
      PROVE  /\ Ages(conn[c], conn'[c]) /\ got' = got
             /\ \A e \in Events : connMap'[e] \in {connMap[e], Nobody}
             /\ \A d \in Conns \ {c} : conn'[d] = conn[d]
  <2>1. PICK o \in {"unlatched", "done"} :
          /\ conn[c] # Unused /\ conn' = [conn EXCEPT ![c].close = o]
          /\ connMap' = connMap \/ connMap' = [connMap EXCEPT ![conn[c].id] = Nobody]
    BY <1>4 DEF OnClose, RemoveLatch, RemoveConn
  <2>2. conn'[c] = [conn[c] EXCEPT !.close = o] /\ \A d \in Conns \ {c} : conn'[d] = conn[d]
    BY <2>1, OfConn
  <2>3. conn[c] \in Conn /\ conn'[c] \in Conn
    BY <1>0, <2>1, <2>2, ConnUpdate DEF TypeInv
  <2>4. Ages(conn[c], conn'[c])
    BY <2>1, <2>2, <2>3, Distinct DEF Ages, Conn
  <2>5. \A e \in Events : connMap'[e] \in {connMap[e], Nobody}
    BY <2>1 DEF TypeInv, TypeOK
  <2> QED BY <1>4, <2>2, <2>4, <2>5 DEF OnClose, RemoveLatch, RemoveConn
<1> QED BY <1>1, <1>2, <1>3, <1>4

(* The end of a run reaches the connection its event has, if that is there.  *)
LEMMA CloseIs ==
  ASSUME TypeInv, NEW w \in Workers, CloseEvent(w)
  PROVE  /\ UNCHANGED <<connMap, got, node>>
         /\ \A c \in Conns :
              \/ conn'[c] = conn[c]
              \/ /\ connMap[run[w].event] = c /\ conn[c] # Unused /\ conn[c].alive
                 /\ conn'[c] # Unused /\ conn'[c].endedBy = w /\ ~ conn'[c].alive
                 /\ conn'[c].open = conn[c].open
<1>0. run[w] \in Run /\ run[w].event \in Events
  BY RunOfWorker DEF CloseEvent, At, Run
<1>1. UNCHANGED <<connMap, got, node>>
  BY DEF CloseEvent, registry
<1>2. ASSUME NEW c \in Conns, conn'[c] # conn[c]
      PROVE  /\ connMap[run[w].event] = c /\ conn[c] # Unused /\ conn[c].alive
             /\ conn'[c] # Unused /\ conn'[c].endedBy = w /\ ~ conn'[c].alive
             /\ conn'[c].open = conn[c].open
  <2> DEFINE t == connMap[run[w].event]
  <2>1. Live(t) /\ conn' = [conn EXCEPT ![t].endedBy = w, ![t].alive = FALSE]
    BY <1>2 DEF CloseEvent
  <2>2. t \in Conns /\ conn[t] # Unused
    BY <1>0, <2>1 DEF TypeInv, TypeOK, MapInv, Live
  <2> HIDE DEF t
  <2>3. t = c
    BY <1>2, <2>1, <2>2 DEF TypeInv, TypeOK
  <2>4. conn'[c] = [[conn[c] EXCEPT !.endedBy = w] EXCEPT !.alive = FALSE]
    BY <2>1, <2>3 DEF TypeInv, TypeOK
  <2>5. conn[c] \in Conn /\ conn'[c] \in Conn
    BY <2>2, <2>3, <2>4, ConnUpdate DEF TypeInv
  <2>6. /\ conn'[c] # Unused /\ conn'[c].endedBy = w /\ ~ conn'[c].alive
        /\ conn'[c].open = conn[c].open
    BY <2>4, <2>5, Distinct DEF Conn
  <2> QED BY <2>1, <2>2, <2>3, <2>6 DEF t, Live
<1> QED BY <1>1, <1>2------------------------------------------------------------------------------
LEMMA OutputInit == Init => OutputInv
<1> SUFFICES ASSUME Init PROVE OutputInv
  OBVIOUS
<1>1. FlowInv /\ PutInv
  BY FlowInit DEF Init, PutInv
<1>2. ASSUME NEW c \in Conns, NEW w \in Workers PROVE PageInv(c, w)
  BY DEF Init, PageInv, PieceInv, EndInv, Pieces
<1> QED BY <1>1, <1>2 DEF OutputInv

LEMMA PutStep ==
  ASSUME OutputInv, [Next]_vars
  PROVE  PutInv'
<1>0. TypeInv /\ TypeInv' /\ PutInv /\ Nobody \notin Conns
  BY TypeStep, Distinct DEF OutputInv, FlowInv
<1>1. ASSUME NEW e \in Events, connMap[e] # Nobody PROVE connMap[e] \in Conns /\ conn[connMap[e]] # Unused
  BY <1>0, <1>1 DEF TypeInv, TypeOK, MapInv
<1>2. CASE UNCHANGED <<connMap, conn>>
  BY <1>0, <1>2 DEF PutInv
<1>3. ASSUME NEW w \in Workers, CloseEvent(w) PROVE PutInv'
  BY <1>0, <1>1, <1>3, CloseIs DEF PutInv
<1>4. ASSUME NEW w \in Workers, Step(w), ~ CloseEvent(w) PROVE UNCHANGED <<connMap, conn>>
  BY <1>4 DEF Step, Write, CallFlush, Return, Fail, Send, SendTo, MergeEnd, registry
<1>5. ASSUME NEW c \in Conns, Lose(c) \/ OnOpen(c) \/ OnClose(c) \/ \E f \in Events : Connect(c, f),
             NEW e \in Events, connMap'[e] # Nobody
      PROVE  conn'[connMap'[e]].open = "put"
  <2>1. \A d \in Conns \ {c} : conn'[d] = conn[d]
    BY <1>0, <1>5, ConnIs
  <2>2. CASE connMap'[e] = connMap[e]
    <3>1. connMap[e] \in Conns /\ conn[connMap[e]] # Unused /\ conn[connMap[e]].open = "put"
      BY <1>0, <1>1, <1>5, <2>2 DEF PutInv
    <3>2. conn[c] # Unused /\ conn[c].open = "put" => conn'[c].open = "put"
      BY <1>0, <1>5, ConnIs DEF Ages
    <3> QED BY <2>1, <2>2, <3>1, <3>2
  <2>3. CASE connMap'[e] # connMap[e]
    <3>1. connMap'[e] = c /\ conn'[c].open = "put"
      BY <1>0, <1>5, <2>3, ConnIs
    <3> QED BY <3>1
  <2> QED BY <2>2, <2>3
<1>6. ASSUME NEW w \in Workers, NEW e \in Events,
             RunLoader(w, e) \/ InstantRun(w, e) \/ InstantRunRefused(w, e)
      PROVE  UNCHANGED <<connMap, conn>>
  BY <1>0, <1>6, StartIs
<1>7. (\E c \in Conns : Lose(c) \/ OnOpen(c) \/ OnClose(c) \/ \E f \in Events : Connect(c, f)) => PutInv'
  BY <1>5 DEF PutInv
<1> QED BY <1>2, <1>3, <1>4, <1>6, <1>7 DEF Next, vars

(* A connection and a run to which nothing is sent. *)
LEMMA PageQuiet ==
  ASSUME TypeInv, NEW c \in Conns, NEW w \in Workers, PageInv(c, w),
         Pieces(c, w)' \in {Pieces(c, w), {}},
         run[w] # Unused =>
           /\ run'[w] # Unused /\ run'[w].event = run[w].event /\ run'[w].flushed = run[w].flushed
           /\ run[w].at = "done" => run'[w] = run[w],
         \/ conn'[c] = conn[c]
         \/ conn[c] = Unused /\ conn'[c].endedBy # w
         \/ /\ conn[c] # Unused /\ conn'[c] # Unused
            /\ conn'[c].endedBy = conn[c].endedBy \/ conn'[c].endedBy # w
            /\ conn'[c].alive => conn[c].alive
            /\ conn[c].open = "put" => conn'[c].open = "put",
         \A e \in Events : connMap'[e] = c =>
           connMap[e] = c \/ (conn[c] # Unused /\ conn[c].open # "put")
  PROVE  PageInv(c, w)'
<1>1. run[w] # Unused => run[w].event \in Events
  BY RunFields DEF TypeInv, TypeOK
<1>2. PieceInv(c, w)'
  <2> SUFFICES ASSUME Pieces(c, w)' # {} PROVE PieceInv(c, w)'
    BY DEF PieceInv
  <2>1. Pieces(c, w)' = Pieces(c, w) /\ Pieces(c, w) # {}
    OBVIOUS
  <2>2. /\ run[w] # Unused /\ conn[c] # Unused /\ conn[c].open = "put"
        /\ \A n \in Pieces(c, w) : n <= run[w].flushed
        /\ \A m, n \in Pieces(c, w) : m .. n \subseteq Pieces(c, w)
        /\ conn[c].alive /\ connMap[run[w].event] = c => run[w].flushed \in Pieces(c, w)
    BY <2>1 DEF PageInv, PieceInv
  <2> QED BY <1>1, <2>1, <2>2 DEF PieceInv
<1>3. EndInv(c, w)'
  BY DEF PageInv, EndInv
<1> QED BY <1>2, <1>3 DEF PageInv

(* What is sent joins what was sent before.                                  *)
LEMMA PageSend ==
  ASSUME OutputInv, NEW c \in Conns, NEW w \in Workers, Send(w)
  PROVE  PageInv(c, w)'
<1> DEFINE m == run[w].flushed
           n == run[w].wrote
           t == connMap[run[w].event]
<1>0. /\ TypeInv /\ PageInv(c, w) /\ run[w] \in Run /\ run[w] # Unused /\ run[w].event \in Events
      /\ m \in Nat /\ n \in Outputs /\ m <= n /\ run[w].at # "done"
  <2>1. TypeInv /\ PageInv(c, w)
    BY DEF OutputInv, FlowInv
  <2>2. run[w] \in Run /\ run[w] # Unused /\ run[w].at # "done"
    BY <2>1, StepKeeps DEF Step
  <2>3. m \in Nat /\ n \in Outputs /\ run[w].event \in Events
    BY <2>2, RunFields DEF Run, Numbers
  <2>4. m <= n
    BY <2>2 DEF OutputInv, FlowInv, Flow
  <2> QED BY <2>1, <2>2, <2>3, <2>4
<1>1. /\ run'[w] # Unused /\ run'[w].event = run[w].event /\ run'[w].flushed = n
      /\ UNCHANGED <<conn, connMap>>
  <2>1. run'[w] # Unused /\ run'[w].event = run[w].event /\ run'[w].flushed = n
    BY <1>0, StepIs, StepKeeps DEF Step, RunsKept
  <2> QED BY <2>1 DEF Send, SendTo, registry
<1>2. EndInv(c, w)'
  BY <1>0, <1>1 DEF PageInv, EndInv
<1>3. CASE t = c /\ conn[c].alive
  <2>1. conn[c] # Unused /\ conn[c].open = "put"
    BY <1>0, <1>3, Distinct DEF OutputInv, PutInv, TypeInv, MapInv
  <2>2. got'[c] = got[c] \cup ({w} \X (m + 1 .. n))
    <3>1. Live(t)
      BY <1>3, Distinct DEF Live
    <3> QED BY <1>3, <3>1 DEF Send, SendTo, Buffer, TypeInv, TypeOK, OutputInv, FlowInv
  <2>3. Pieces(c, w)' = Pieces(c, w) \cup (m + 1 .. n)
    <3>1. m + 1 .. n \subseteq Outputs
      BY <1>0, MaxOutIsNat DEF Outputs
    <3> HIDE DEF m, n
    <3> QED BY <2>2, <3>1 DEF Pieces
  <2> DEFINE P == Pieces(c, w)
  <2>4. P \subseteq Nat
    BY MaxOutIsNat DEF Pieces, Outputs
  <2>5. P = {} \/ /\ m \in P /\ \A k \in P : k <= m
                  /\ \A i, j \in P : i .. j \subseteq P
    BY <1>0, <1>3 DEF PageInv, PieceInv
  <2>6. n \in Nat
    BY <1>0, MaxOutIsNat DEF Outputs
  <2> HIDE DEF P, m, n, t
  <2>7. P \cup (m + 1 .. n) # {} => n \in P \cup (m + 1 .. n)
    <3>1. m \in Nat /\ m <= n
      BY <1>0
    <3>2. CASE m = n
      <4>1. m + 1 .. n = {}
        BY <2>6, <3>1, <3>2
      <4> QED BY <2>5, <3>2, <4>1
    <3>3. CASE m # n
      <4>1. n \in m + 1 .. n
        BY <2>6, <3>1, <3>3
      <4> QED BY <4>1
    <3> QED BY <3>2, <3>3
  <2>8. \A k \in P \cup (m + 1 .. n) : k <= n
    BY <1>0, <2>4, <2>5, <2>6
  <2>9. ASSUME NEW i \in P \cup (m + 1 .. n), NEW j \in P \cup (m + 1 .. n), NEW k \in i .. j
        PROVE  k \in P \cup (m + 1 .. n)
    <3>1. i \in Nat /\ j \in Nat /\ k \in Nat /\ j <= n
      BY <1>0, <2>4, <2>6, <2>8
    <3>2. CASE k <= m
      <4>1. i \in P /\ m \in P
        BY <1>0, <2>5, <2>9, <3>1, <3>2
      <4>2. k \in i .. m
        BY <1>0, <3>1, <3>2
      <4> QED BY <2>5, <4>1, <4>2
    <3>3. CASE ~ (k <= m)
      BY <1>0, <2>6, <3>1, <3>3
    <3> QED BY <3>2, <3>3
  <2>10. \A i, j \in P \cup (m + 1 .. n) : i .. j \subseteq P \cup (m + 1 .. n)
    BY <2>9
  <2> QED BY <1>0, <1>1, <1>2, <2>1, <2>3, <2>7, <2>8, <2>10 DEF PageInv, PieceInv, P
<1>4. CASE ~ (t = c /\ conn[c].alive)
  <2>1. Pieces(c, w)' = Pieces(c, w)
    <3>1. got'[c] = got[c]
      BY <1>4 DEF Send, SendTo, Live, TypeInv, TypeOK, OutputInv, FlowInv
    <3> QED BY <3>1 DEF Pieces
  <2>2. Pieces(c, w) # {} => \A k \in Pieces(c, w) : k \in Nat /\ k <= m
    BY <1>0, MaxOutIsNat DEF PageInv, PieceInv, Pieces, Outputs
  <2>3. n \in Nat
    BY <1>0, MaxOutIsNat DEF Outputs
  <2> HIDE DEF m, n
  <2>4. \A k \in Pieces(c, w) : k <= n
    BY <1>0, <2>2, <2>3
  <2> QED BY <1>0, <1>1, <1>2, <1>4, <2>1, <2>4 DEF PageInv, PieceInv
<1> QED BY <1>3, <1>4
LEMMA OutputStep == OutputInv /\ [Next]_vars => OutputInv'
<1> SUFFICES ASSUME OutputInv, [Next]_vars PROVE OutputInv'
  OBVIOUS
<1>0. /\ TypeInv /\ TypeInv' /\ FlowInv /\ FlowInv' /\ PutInv'
      /\ \A c \in Conns, w \in Workers : PageInv(c, w)
  BY TypeStep, FlowStep, PutStep DEF OutputInv, FlowInv
<1>1. ASSUME NEW c \in Conns, NEW w \in Workers PROVE PageInv(c, w)'
  <2>0. PageInv(c, w) /\ w # Nobody
    BY <1>0, Distinct
  <2>1. CASE UNCHANGED vars
    BY <2>0, <2>1 DEF vars, PageInv, PieceInv, EndInv, Pieces
  <2>2. ASSUME NEW d \in Conns,
               Lose(d) \/ OnOpen(d) \/ OnClose(d) \/ \E e \in Events : Connect(d, e)
        PROVE  PageInv(c, w)'
    <3>1. run' = run
      BY <1>0, <2>2, ConnStepIs
    <3>2. Pieces(c, w)' \in {Pieces(c, w), {}}
      <4>1. got' = got \/ got' = [got EXCEPT ![d] = {}]
        BY <1>0, <2>2, ConnIs
      <4>2. got'[c] \in {got[c], {}}
        BY <1>0, <4>1 DEF TypeInv, TypeOK
      <4> QED BY <4>2 DEF Pieces
    <3>3. CASE c # d
      <4>1. conn'[c] = conn[c]
        BY <1>0, <2>2, <3>3, ConnIs
      <4>2. \A e \in Events : connMap'[e] = c => connMap[e] = c
        BY <1>0, <2>2, <3>3, ConnIs, Distinct
      <4> QED BY <1>0, <2>0, <3>1, <3>2, <4>1, <4>2, PageQuiet
    <3>4. CASE c = d
      <4>1. CASE \E e \in Events : Connect(c, e)
        <5>1. conn[c] = Unused /\ conn'[c].endedBy = Nobody /\ connMap' = connMap
          BY <1>0, <4>1, ConnIs
        <5> QED BY <1>0, <2>0, <3>1, <3>2, <5>1, PageQuiet
      <4>2. CASE Lose(c) \/ OnOpen(c) \/ OnClose(c)
        <5>1. Ages(conn[c], conn'[c])
          BY <1>0, <4>2, ConnIs
        <5>2. \A e \in Events : connMap'[e] = c =>
                connMap[e] = c \/ (conn[c] # Unused /\ conn[c].open # "put")
          BY <1>0, <4>2, <5>1, ConnIs, Distinct DEF Ages
        <5>3. /\ conn[c] # Unused /\ conn'[c] # Unused /\ conn'[c].endedBy = conn[c].endedBy
              /\ conn'[c].alive => conn[c].alive
              /\ conn[c].open = "put" => conn'[c].open = "put"
          BY <5>1 DEF Ages
        <5> QED BY <1>0, <2>0, <3>1, <3>2, <5>2, <5>3, PageQuiet
      <4> QED BY <2>2, <3>4, <4>1, <4>2
    <3> QED BY <3>3, <3>4
  <2>3. ASSUME NEW v \in Workers, NEW e \in Events,
               RunLoader(v, e) \/ InstantRun(v, e) \/ InstantRunRefused(v, e)
        PROVE  PageInv(c, w)'
    <3>1. run[v] = Unused /\ UNCHANGED <<conn, connMap, got>>
          /\ \A u \in Workers \ {v} : run'[u] = run[u]
      BY <1>0, <2>3, StartIs
    <3>2. Pieces(c, w)' = Pieces(c, w)
      BY <3>1 DEF Pieces
    <3>3. run[w] # Unused => run'[w] = run[w]
      BY <3>1
    <3> QED BY <1>0, <2>0, <3>1, <3>2, <3>3, PageQuiet
  <2>4. ASSUME NEW v \in Workers, Step(v) PROVE PageInv(c, w)'
    <3>0. /\ run[v] # Unused /\ run'[v] # Unused /\ run'[v].event = run[v].event
          /\ run[v].at # "done" /\ connMap' = connMap
          /\ \A u \in Workers \ {v} : run'[u] = run[u]
      BY <1>0, <2>4, StepKeeps DEF RunsKept, registry
    <3>1. CASE Send(v) /\ v = w
      BY <3>1, PageSend
    <3>2. CASE Send(v) /\ v # w
      <4>1. Pieces(c, w)' = Pieces(c, w)
        <5>1. got'[c] \in {got[c], got[c] \cup Buffer(v)}
          BY <1>0, <3>2 DEF Send, SendTo, TypeInv, TypeOK
        <5>2. \A n : <<w, n>> \notin Buffer(v)
          BY <3>2 DEF Buffer
        <5> QED BY <5>1, <5>2 DEF Pieces
      <4>2. conn'[c] = conn[c]
        BY <3>2 DEF Send, SendTo
      <4> QED BY <1>0, <2>0, <3>0, <3>2, <4>1, <4>2, PageQuiet
    <3>3. CASE CloseEvent(v)
      <4>1. Pieces(c, w)' = Pieces(c, w)
        BY <1>0, <3>3, CloseIs DEF Pieces
      <4>2. CASE v # w \/ conn'[c] = conn[c]
        <5>1. run[w] # Unused =>
                /\ run'[w] # Unused /\ run'[w].event = run[w].event
                /\ run'[w].flushed = run[w].flushed
                /\ run[w].at = "done" => run'[w] = run[w]
          BY <1>0, <3>0, <3>3, StepIs DEF MovesTo, Writes
        <5>2. \/ conn'[c] = conn[c]
              \/ /\ conn[c] # Unused /\ conn'[c] # Unused /\ conn'[c].endedBy # w
                 /\ ~ conn'[c].alive /\ conn'[c].open = conn[c].open
          BY <1>0, <3>3, <4>2, CloseIs
        <5> QED BY <1>0, <2>0, <3>0, <4>1, <5>1, <5>2, PageQuiet
      <4>3. CASE v = w /\ conn'[c] # conn[c]
        <5>1. /\ connMap[run[w].event] = c /\ conn[c] # Unused /\ conn[c].alive
              /\ conn'[c] # Unused /\ conn'[c].endedBy = w /\ ~ conn'[c].alive
              /\ conn'[c].open = conn[c].open
          BY <1>0, <3>3, <4>3, CloseIs
        <5>2. /\ run[w].at = "tell" /\ run'[w].at = "done" /\ run'[w].flushed = run[w].flushed
              /\ run'[w].wrote = run[w].wrote
          BY <1>0, <3>3, <4>3, StepIs DEF MovesTo, Writes
        <5>3. run[w].flushed = run[w].wrote
          BY <1>0, <3>0, <4>3, <5>2 DEF FlowInv, Flow
        <5>4. EndInv(c, w)'
          BY <2>0, <3>0, <4>1, <4>3, <5>1, <5>2, <5>3 DEF PageInv, PieceInv, EndInv
        <5>5. PieceInv(c, w)'
          BY <2>0, <3>0, <4>1, <4>3, <5>1, <5>2 DEF PageInv, PieceInv
        <5> QED BY <5>4, <5>5 DEF PageInv
      <4> QED BY <4>2, <4>3
    <3>4. CASE ~ Send(v) /\ ~ CloseEvent(v)
      <4>1. UNCHANGED <<conn, got>>
        BY <2>4, <3>4 DEF Step, Write, CallFlush, Return, Fail, MergeEnd
      <4>2. run'[v].flushed = run[v].flushed
        BY <1>0, <2>4, <3>4, StepIs DEF Step, MovesTo, Writes
      <4>3. Pieces(c, w)' = Pieces(c, w)
        BY <4>1 DEF Pieces
      <4> QED BY <1>0, <2>0, <3>0, <4>1, <4>2, <4>3, PageQuiet
    <3> QED BY <3>1, <3>2, <3>3, <3>4
  <2> QED BY <2>1, <2>2, <2>3, <2>4 DEF Next
<1> QED BY <1>0, <1>1 DEF OutputInv

(* What a page receives of a run has no gaps, and with the end of the run it *)
(* has the last piece: for any number of connections that come, are put,     *)
(* replaced, lost and removed while runs flush and close.                    *)
THEOREM OutputWhole == Spec => []OutputComplete
<1>1. OutputInv => OutputComplete
  <2> SUFFICES ASSUME OutputInv, NEW c \in Conns, NEW w \in Workers
               PROVE  /\ \A m, n \in Pieces(c, w) : m .. n \subseteq Pieces(c, w)
                      /\ Pieces(c, w) # {} /\ conn[c].endedBy = w => run[w].wrote \in Pieces(c, w)
    BY DEF OutputComplete, Pieces
  <2>1. PieceInv(c, w) /\ EndInv(c, w)
    BY DEF OutputInv, PageInv
  <2> QED BY <2>1 DEF PieceInv, EndInv
<1> QED BY <1>1, OutputInit, OutputStep, PTL DEF Spec
------------------------------------------------------------------------------
(* What the steps do with the nodes.                                         *)
LEMMA NodeIs ==
  ASSUME TypeInv, NEW w \in Workers
  PROVE  /\ \A e \in Events : RunLoader(w, e) =>
              /\ node'[e] # Absent /\ node'[e].by = w
              /\ node[e] # Absent => node'[e].exception = node[e].exception
              /\ \A f \in Events \ {e} : node'[f] = node[f]
         /\ Fail(w) =>
              /\ node'[run[w].event].by = w /\ node'[run[w].event].status = "fail"
              /\ node'[run[w].event].exception = (run[w].outcome = "fail")
              /\ node[run[w].event] # Absent /\ node'[run[w].event] # Absent
              /\ \A f \in Events \ {run[w].event} : node'[f] = node[f]
         /\ MergeEnd(w) =>
              /\ node'[run[w].event].by = w /\ node'[run[w].event].status = "end"
              /\ node'[run[w].event].exception = node[run[w].event].exception
              /\ node'[run[w].event].content = run[w].flushed
              /\ node[run[w].event] # Absent /\ node'[run[w].event] # Absent
              /\ \A f \in Events \ {run[w].event} : node'[f] = node[f]
<1>0. node \in [Events -> Node \cup {Absent}] /\ Absent \notin Node
  BY Distinct DEF TypeInv, TypeOK
<1>1. ASSUME NEW e \in Events, NEW n \in Node, node' = [node EXCEPT ![e] = n]
      PROVE  node'[e] = n /\ n # Absent /\ \A f \in Events \ {e} : node'[f] = node[f]
  BY <1>0, <1>1
<1>2. ASSUME NEW e \in Events, RunLoader(w, e)
      PROVE  /\ node'[e] # Absent /\ node'[e].by = w
             /\ node[e] # Absent => node'[e].exception = node[e].exception
             /\ \A f \in Events \ {e} : node'[f] = node[f]
  <2> DEFINE fresh == [status |-> "started", exception |-> FALSE, content |-> 0, by |-> w]
             again == [node[e] EXCEPT !.status = "started", !.by = w]
  <2>1. fresh \in Node /\ fresh.by = w
    BY MaxOutIsNat DEF Node, Outputs
  <2>2. node[e] # Absent => again \in Node /\ again.by = w /\ again.exception = node[e].exception
    BY <1>0 DEF Node
  <2>3. node' = [node EXCEPT ![e] = IF node[e] = Absent THEN fresh ELSE again]
    BY <1>2 DEF RunLoader
  <2> HIDE DEF fresh, again
  <2> QED BY <1>1, <2>1, <2>2, <2>3
<1>3. ASSUME NEW e, e = run[w].event, Fail(w) \/ MergeEnd(w)
      PROVE  e \in Events /\ node[e] \in Node /\ node[e] # Absent /\ run[w].flushed \in Outputs
  <2>1. run[w] \in Run /\ Path(run[w]) /\ Noted(w) /\ run[w].at \in {"fail", "merge"}
    BY <1>3, RunOfWorker DEF Fail, MergeEnd, At
  <2> QED BY <1>0, <1>3, <2>1 DEF Path, Noted, Loader, Run
<1>4. ASSUME Fail(w)
      PROVE  /\ node'[run[w].event].by = w /\ node'[run[w].event].status = "fail"
             /\ node'[run[w].event].exception = (run[w].outcome = "fail")
             /\ node[run[w].event] # Absent /\ node'[run[w].event] # Absent
             /\ \A f \in Events \ {run[w].event} : node'[f] = node[f]
  <2> DEFINE e == run[w].event
             n == [node[e] EXCEPT !.status = "fail", !.exception = (run[w].outcome = "fail"), !.by = w]
  <2>1. e \in Events /\ node[e] \in Node /\ node[e] # Absent
    BY <1>3, <1>4
  <2>2. n \in Node /\ n.by = w /\ n.status = "fail" /\ n.exception = (run[w].outcome = "fail")
    BY <2>1 DEF Node
  <2>3. node' = [node EXCEPT ![e] = n]
    BY <1>4 DEF Fail
  <2> HIDE DEF n, e
  <2>4. node'[e] = n /\ n # Absent /\ \A f \in Events \ {e} : node'[f] = node[f]
    BY <1>1, <2>1, <2>2, <2>3
  <2> QED BY <2>1, <2>2, <2>4 DEF e
<1>5. ASSUME MergeEnd(w)
      PROVE  /\ node'[run[w].event].by = w /\ node'[run[w].event].status = "end"
             /\ node'[run[w].event].exception = node[run[w].event].exception
             /\ node'[run[w].event].content = run[w].flushed
             /\ node[run[w].event] # Absent /\ node'[run[w].event] # Absent
             /\ \A f \in Events \ {run[w].event} : node'[f] = node[f]
  <2> DEFINE e == run[w].event
             n == [node[e] EXCEPT !.status = "end", !.content = run[w].flushed, !.by = w]
  <2>1. e \in Events /\ node[e] \in Node /\ node[e] # Absent /\ run[w].flushed \in Outputs
    BY <1>3, <1>5
  <2>2. n \in Node /\ n.by = w /\ n.status = "end" /\ n.exception = node[e].exception
        /\ n.content = run[w].flushed
    BY <2>1 DEF Node
  <2>3. node' = [node EXCEPT ![e] = n]
    BY <1>5 DEF MergeEnd
  <2> HIDE DEF n, e
  <2>4. node'[e] = n /\ n # Absent /\ \A f \in Events \ {e} : node'[f] = node[f]
    BY <1>1, <2>1, <2>2, <2>3
  <2> QED BY <2>1, <2>2, <2>4 DEF e
<1> QED BY <1>2, <1>4, <1>5

LEMMA StoredInit == Init => StoredInv
  BY OutputInit DEF Init, StoredInv, Told, At

LEMMA StoredStep == StoredInv /\ [Next]_vars => StoredInv'
<1> SUFFICES ASSUME StoredInv, [Next]_vars PROVE StoredInv'
  OBVIOUS
<1>0. OutputInv /\ OutputInv' /\ TypeInv /\ TypeInv' /\ FlowInv
  BY OutputStep DEF StoredInv, OutputInv, FlowInv
<1> SUFFICES ASSUME NEW w \in Workers, Told(w)', Loader(w)' PROVE Merged(w)'
  BY <1>0 DEF StoredInv
<1>1. Told(w) => run[w] # Unused /\ run[w].event \in Events /\ run[w].at \in {"tell", "done"}
  <2>1. Told(w) => run[w] # Unused /\ run[w].at \in {"tell", "done"}
    BY <1>0 DEF Told, At, OutputInv, PageInv, EndInv
  <2> QED BY <1>0, <2>1, RunFields DEF TypeInv, TypeOK
(* Nothing happens to the run but its end, and its node is left alone or     *)
(* written by another.                                                       *)
<1>2. ASSUME Told(w), run'[w].event = run[w].event, run'[w].kind = run[w].kind,
             run'[w].wrote = run[w].wrote,
             node'[run[w].event] = node[run[w].event] \/ node'[run[w].event].by # w
      PROVE  Merged(w)'
  BY <1>2 DEF StoredInv, Merged, Loader
<1>3. ASSUME NEW v \in Workers, v # w, Step(v) PROVE Merged(w)'
  <2>1. run'[w] = run[w]
    BY <1>0, <1>3, StepKeeps
  <2>2. Told(w)
    <3>1. At(w, "tell")' => At(w, "tell")
      BY <2>1 DEF At
    <3>2. \A c \in Conns : conn'[c] = conn[c] \/ conn'[c].endedBy = v
      <4>1. ~ CloseEvent(v) => conn' = conn
        BY <1>3 DEF Step, Write, CallFlush, Return, Fail, Send, SendTo, MergeEnd
      <4> QED BY <1>0, <4>1, CloseIs
    <3> QED BY <1>3, <3>1, <3>2 DEF Told
  <2>3. node'[run[w].event] = node[run[w].event] \/ node'[run[w].event].by # w
    <3>1. Fail(v) \/ MergeEnd(v) \/ node' = node
      BY <1>3 DEF Step, Write, CallFlush, Return, Send, SendTo, CloseEvent
    <3> QED BY <1>0, <1>1, <1>3, <2>2, <3>1, NodeIs
  <2> QED BY <1>2, <2>1, <2>2, <2>3
<1>4. ASSUME Step(w) PROVE Merged(w)'
  <2>0. /\ run[w] \in Run /\ run[w].at # "done" /\ Flow(run[w])
        /\ run'[w].event = run[w].event /\ run'[w].kind = run[w].kind
    BY <1>0, <1>4, StepKeeps DEF FlowInv, Same
  <2>1. run'[w].at \in {"tell", "done"}
    BY <1>0 DEF Told, At, OutputInv, PageInv, EndInv
  <2>2. CASE MergeEnd(w)
    <3>1. /\ node'[run[w].event].status = "end" /\ node'[run[w].event].content = run[w].flushed
          /\ run'[w].wrote = run[w].wrote /\ run[w].flushed = run[w].wrote
      BY <1>0, <2>0, <2>2, NodeIs, StepIs DEF Flow
    <3> QED BY <2>0, <3>1 DEF Merged
  <2>3. CASE CloseEvent(w)
    <3>1. Told(w)
      BY <2>3 DEF CloseEvent, Told
    <3> QED BY <1>0, <1>2, <2>0, <2>3, <3>1, CloseIs, StepIs
  <2>4. CASE Write(w) \/ CallFlush(w) \/ Return(w) \/ Fail(w) \/ Send(w)
    <3>1. run'[w].at # "tell"
      <4>1. CASE Send(w)
        BY <1>0, <2>0, <4>1, StepIs DEF Flow, Loader
      <4> QED BY <1>0, <2>4, <4>1, StepIs DEF MovesTo
    <3>2. PICK c \in Conns : conn'[c] # Unused /\ conn'[c].endedBy = w
      BY <3>1 DEF Told, At
    <3>3. conn' = conn
      BY <2>4 DEF Write, CallFlush, Return, Fail, Send, SendTo
    <3> QED BY <1>0, <2>0, <3>2, <3>3 DEF OutputInv, PageInv, EndInv
  <2> QED BY <1>4, <2>2, <2>3, <2>4 DEF Step
<1>5. ASSUME NEW c \in Conns,
             Lose(c) \/ OnOpen(c) \/ OnClose(c) \/ \E e \in Events : Connect(c, e)
      PROVE  Merged(w)'
  <2>1. UNCHANGED <<run, node>> /\ w # Nobody
    BY <1>0, <1>5, ConnStepIs, Distinct
  <2>2. \A d \in Conns : conn'[d] # Unused /\ conn'[d].endedBy = w =>
                         conn[d] # Unused /\ conn[d].endedBy = w
    BY <1>0, <1>5, <2>1, ConnIs DEF Ages
  <2>3. Told(w)
    BY <2>1, <2>2 DEF Told, At
  <2> QED BY <1>2, <2>1, <2>3
<1>6. ASSUME NEW v \in Workers, NEW e \in Events,
             RunLoader(v, e) \/ InstantRun(v, e) \/ InstantRunRefused(v, e)
      PROVE  Merged(w)'
  <2>1. /\ run[v] = Unused /\ run'[v].at # "tell" /\ conn' = conn
        /\ \A u \in Workers \ {v} : run'[u] = run[u]
    BY <1>0, <1>6, StartIs
  <2>2. Told(w)
    BY <2>1 DEF Told, At
  <2>3. v # w
    BY <1>1, <2>1, <2>2
  <2>4. node' = node \/ RunLoader(v, e)
    BY <1>6 DEF InstantRun, InstantRunRefused
  <2>5. node'[run[w].event] = node[run[w].event] \/ node'[run[w].event].by # w
    BY <1>0, <1>1, <2>2, <2>3, <2>4, NodeIs
  <2> QED BY <1>2, <2>1, <2>2, <2>3, <2>5
<1>7. CASE UNCHANGED vars
  BY <1>2, <1>7 DEF vars, Told, At
<1> QED BY <1>3, <1>4, <1>5, <1>6, <1>7 DEF Next

(* A page that is told the end of a loader finds its node ended with all its *)
(* output, whatever other runs, connections and failures there are.          *)
THEOREM EndIsStored == Spec => []EndMeansStored
<1>1. StoredInv => EndMeansStored
  BY DEF StoredInv, EndMeansStored, Told, Merged
<1> QED BY <1>1, StoredInit, StoredStep, PTL DEF Spec
------------------------------------------------------------------------------
LEMMA FailInit == Init => FailInv
  BY FlowInit DEF Init, FailInv, WrittenBy, Recorded, Muted

(* A run that failed without a message stays such a run.                     *)
LEMMA MuteStays ==
  ASSUME FlowInv, [Next]_vars, NEW v \in Workers, run[v] # Unused, run[v].outcome = "mute"
  PROVE  run'[v] # Unused /\ run'[v].outcome = "mute"
<1>0. TypeInv /\ Flow(run[v])
  BY DEF FlowInv
<1>1. ASSUME NEW w \in Workers, Step(w) PROVE run'[v] # Unused /\ run'[v].outcome = "mute"
  <2>1. CASE v = w
    <3>1. run'[v] # Unused
      BY <1>0, <1>1, <2>1, StepKeeps DEF RunsKept
    <3>2. run'[v].outcome = "mute"
      BY <1>0, <1>1, <2>1, StepIs DEF Step, Flow, MovesTo
    <3> QED BY <3>1, <3>2
  <2>2. CASE v # w
    BY <1>0, <1>1, <2>2, StepKeeps
  <2> QED BY <2>1, <2>2
<1>2. ASSUME NEW w \in Workers, NEW e \in Events,
             RunLoader(w, e) \/ InstantRun(w, e) \/ InstantRunRefused(w, e)
      PROVE  run'[v] = run[v]
  BY <1>0, <1>2, StartIs
<1>3. ASSUME NEW c \in Conns,
             Lose(c) \/ OnOpen(c) \/ OnClose(c) \/ \E e \in Events : Connect(c, e)
      PROVE  run' = run
  BY <1>0, <1>3, ConnStepIs
<1> QED BY <1>1, <1>2, <1>3 DEF Next, vars

LEMMA FailStep == FailInv /\ [Next]_vars => FailInv'
<1> SUFFICES ASSUME FailInv, [Next]_vars PROVE FailInv'
  OBVIOUS
<1>0. /\ FlowInv /\ FlowInv' /\ TypeInv /\ TypeInv'
  BY FlowStep DEF FailInv, FlowInv
<1>a. ASSUME NEW w \in Workers, run[w] # Unused PROVE run[w].event \in Events /\ Flow(run[w])
  BY <1>0, <1>a, RunFields DEF TypeInv, TypeOK, FlowInv
<1>b. ASSUME RunsKept, NEW w \in Workers, run[w] # Unused, NoOtherMute(w)' PROVE NoOtherMute(w)
  <2> SUFFICES ASSUME NEW v \in Workers \ {w}, run[v] # Unused, run[v].event = run[w].event,
                      run[v].outcome = "mute"
               PROVE  FALSE
    BY DEF NoOtherMute
  <2>1. run'[v] # Unused /\ run'[v].outcome = "mute"
    BY <1>0, MuteStays
  <2>2. run'[v].event = run'[w].event
    BY <1>b DEF RunsKept
  <2> QED BY <1>b, <2>1, <2>2 DEF NoOtherMute
(* A step that leaves the nodes alone and no run without its kind and event. *)
<1>1. ASSUME node' = node, RunsKept,
             \A w \in Workers : /\ run[w] # Unused => run'[w].kind = run[w].kind
                               /\ \/ run'[w] = run[w]
                                  \/ run'[w].outcome \notin {"fail", "mute"}
                                  \/ run'[w].at = "fail"
                                  \/ /\ run[w] # Unused /\ run'[w].outcome = run[w].outcome
                                     /\ run[w].at # "fail"
      PROVE  FailInv'
  <2>1. ASSUME NEW e \in Events, node[e] # Absent
        PROVE  node[e].by \in Workers /\ WrittenBy(e)
    BY <1>0, <2>1 DEF FailInv, TypeInv, TypeOK, Node
  <2>2. \A e \in Events : WrittenBy(e)'
    BY <1>1, <2>1 DEF WrittenBy, Loader, RunsKept
  <2>3. ASSUME NEW w \in Workers PROVE Recorded(w)'
    BY <1>1, <1>b, <2>3 DEF FailInv, Recorded, Loader, RunsKept
  <2>4. ASSUME NEW w \in Workers PROVE Muted(w)'
    BY <1>1, <2>4 DEF FailInv, Muted, Loader, RunsKept
  <2> QED BY <1>0, <2>2, <2>3, <2>4 DEF FailInv
(* A step of a loader that writes its node, after which it is not about to.  *)
<1>2. ASSUME NEW v \in Workers, run'[v] # Unused, Loader(v)', NEW e \in Events, run'[v].event = e,
             node'[e] # Absent, node'[e].by = v, \A f \in Events \ {e} : node'[f] = node[f],
             \A w \in Workers \ {v} : run'[w] = run[w],
             RunsKept, run[v] # Unused => run'[v].kind = run[v].kind,
             \/ node[e] # Absent => node'[e].exception = node[e].exception
             \/ node'[e].exception
             \/ run'[v].outcome = "mute",
             Recorded(v)', Muted(v)'
      PROVE  FailInv'
  <2>1. ASSUME NEW f \in Events PROVE WrittenBy(f)'
    <3>1. CASE f = e
      BY <1>2, <3>1 DEF WrittenBy
    <3>2. CASE f # e
      <4>1. node'[f] = node[f]
        BY <1>2, <3>2
      <4>2. node[f] # Absent => node[f].by \in Workers /\ WrittenBy(f)
        BY <1>0 DEF FailInv, TypeInv, TypeOK, Node
      <4> QED BY <1>2, <4>1, <4>2 DEF WrittenBy, Loader, RunsKept
    <3> QED BY <3>1, <3>2
  <2>2. ASSUME NEW w \in Workers PROVE Recorded(w)'
    <3>1. CASE w = v
      BY <1>2, <3>1
    <3>2. CASE w # v
      <4> SUFFICES ASSUME run[w] # Unused, Loader(w), run[w].outcome = "fail", run[w].at # "fail",
                          NoOtherMute(w)'
                   PROVE  node'[run[w].event].exception
        BY <1>2, <3>2 DEF Recorded, Loader
      <4>1. node[run[w].event].exception
        BY <1>2, <1>b DEF FailInv, Recorded
      <4>2. run[w].event \in Events /\ node[run[w].event] # Absent
        BY <1>0, <1>a, RunOfWorker DEF Noted
      <4>3. run[w].event = e => run'[v].outcome # "mute"
        BY <1>2, <3>2 DEF NoOtherMute
      <4> QED BY <1>2, <4>1, <4>2, <4>3
    <3> QED BY <3>1, <3>2
  <2>3. ASSUME NEW w \in Workers PROVE Muted(w)'
    <3>1. CASE w = v
      BY <1>2, <3>1
    <3>2. CASE w # v
      <4>1. run'[w] = run[w] /\ (run[w] # Unused => run[w].event \in Events)
        BY <1>2, <1>a, <3>2
      <4>2. Muted(w)
        BY DEF FailInv
      <4> QED BY <1>2, <3>2, <4>1, <4>2 DEF Muted, Loader
    <3> QED BY <3>1, <3>2
  <2> QED BY <1>0, <2>1, <2>2, <2>3 DEF FailInv
<1>3. ASSUME NEW w \in Workers, Step(w) PROVE FailInv'
  <2>0. /\ run[w] \in Run /\ run[w] # Unused /\ run'[w] # Unused /\ RunsKept /\ Flow(run[w])
        /\ run'[w].event = run[w].event /\ run'[w].kind = run[w].kind
        /\ \A v \in Workers \ {w} : run'[v] = run[v]
        /\ run[w].event \in Events
    BY <1>0, <1>3, <1>a, StepKeeps DEF RunsKept, Same
  <2>1. CASE Fail(w)
    <3>1. /\ node'[run[w].event].by = w /\ node'[run[w].event].status = "fail"
          /\ node'[run[w].event].exception = (run[w].outcome = "fail")
          /\ node'[run[w].event] # Absent
          /\ \A f \in Events \ {run[w].event} : node'[f] = node[f]
      BY <1>0, <2>1, NodeIs
    <3>2. run'[w].outcome = run[w].outcome /\ run[w].outcome \in {"fail", "mute"}
      BY <1>0, <2>0, <2>1, StepIs DEF Flow, MovesTo
    <3>3. Recorded(w)' /\ Muted(w)'
      BY <2>0, <3>1, <3>2 DEF Recorded, Muted
    <3>4. Loader(w)'
      BY <1>0, <2>0, <2>1, RunOfWorker DEF Fail, At, Path, Loader, TypeInv, RunInv
    <3> QED BY <1>2, <2>0, <3>1, <3>2, <3>3, <3>4
  <2>2. CASE MergeEnd(w)
    <3>1. /\ node'[run[w].event].by = w
          /\ node'[run[w].event].exception = node[run[w].event].exception
          /\ node'[run[w].event] # Absent
          /\ \A f \in Events \ {run[w].event} : node'[f] = node[f]
      BY <1>0, <2>2, NodeIs
    <3>2. run'[w].outcome = run[w].outcome /\ run[w].at = "merge"
      BY <1>0, <2>2, StepIs DEF MovesTo
    <3>3. run[w].outcome # "mute"
      BY <2>0, <3>2 DEF Flow
    <3>4. Recorded(w)'
      <4> SUFFICES ASSUME Loader(w), run[w].outcome = "fail", NoOtherMute(w)'
                   PROVE  node[run[w].event].exception
        BY <2>0, <3>1, <3>2 DEF Recorded, Loader
      <4> QED BY <1>b, <2>0, <3>2 DEF FailInv, Recorded
    <3>5. Muted(w)'
      BY <3>2, <3>3 DEF Muted
    <3>6. Loader(w)'
      BY <1>0, <2>0, <3>2, RunOfWorker DEF Path, Loader
    <3> QED BY <1>2, <2>0, <3>1, <3>4, <3>5, <3>6
  <2>3. CASE ~ Fail(w) /\ ~ MergeEnd(w)
    <3>1. node' = node
      BY <1>3, <2>3 DEF Step, Write, CallFlush, Return, Send, SendTo, CloseEvent
    <3>2. \/ run'[w].outcome \notin {"fail", "mute"}
          \/ run'[w].at = "fail"
          \/ run'[w].outcome = run[w].outcome /\ run[w].at # "fail"
      BY <1>0, <1>3, <2>3, StepIs DEF Step, MovesTo
    <3> QED BY <1>1, <2>0, <3>1, <3>2
  <2> QED BY <2>1, <2>2, <2>3
<1>4. ASSUME NEW w \in Workers, NEW e \in Events,
             RunLoader(w, e) \/ InstantRun(w, e) \/ InstantRunRefused(w, e)
      PROVE  FailInv'
  <2>0. /\ run[w] = Unused /\ run'[w] \in Run /\ run'[w].event = e
        /\ run'[w].outcome \in {"none", "error"}
        /\ run'[w].kind = "loader" => RunLoader(w, e)
        /\ \A v \in Workers \ {w} : run'[v] = run[v]
    BY <1>0, <1>4, StartIs
  <2>1. CASE RunLoader(w, e)
    <3>1. /\ node'[e] # Absent /\ node'[e].by = w
          /\ node[e] # Absent => node'[e].exception = node[e].exception
          /\ \A f \in Events \ {e} : node'[f] = node[f]
      BY <1>0, <2>1, NodeIs
    <3>2. Recorded(w)' /\ Muted(w)'
      BY <2>0 DEF Recorded, Muted
    <3>3. Loader(w)'
      <4>1. run'[w] = NewRun(e, "loader", "exec")
        BY <1>0, <2>1, OfWorker DEF RunLoader
      <4> QED BY <4>1 DEF NewRun, Loader
    <3>4. RunsKept
      BY <2>0 DEF RunsKept
    <3> QED BY <1>2, <2>0, <3>1, <3>2, <3>3, <3>4, RunFields
  <2>2. CASE ~ RunLoader(w, e)
    <3>1. node' = node
      BY <1>4, <2>2 DEF InstantRun, InstantRunRefused
    <3>2. RunsKept
      BY <2>0 DEF RunsKept
    <3> QED BY <1>1, <2>0, <3>1, <3>2
  <2> QED BY <2>1, <2>2
<1>5. ASSUME NEW c \in Conns,
             Lose(c) \/ OnOpen(c) \/ OnClose(c) \/ \E e \in Events : Connect(c, e)
      PROVE  FailInv'
  BY <1>0, <1>1, <1>5, ConnStepIs DEF RunsKept
<1>6. CASE UNCHANGED vars
  BY <1>1, <1>6 DEF vars, RunsKept
<1> QED BY <1>3, <1>4, <1>5, <1>6 DEF Next

(* The failure of the run that wrote a node last can be told from the node,  *)
(* unless another run of the same event failed without a message: for any    *)
(* number of runs of any events.                                             *)
THEOREM FailureIsRecorded == Spec => []FailureOnRecord
<1>1. FailInv => FailureOnRecord
  <2> SUFFICES ASSUME FailInv, NEW e \in Events, node[e] # Absent,
                      run[node[e].by].outcome \in {"fail", "mute"}, run[node[e].by].at # "fail",
                      \A v \in Workers \ {node[e].by} :
                        run[v] # Unused /\ run[v].event = e => run[v].outcome # "mute"
               PROVE  node[e].exception \/ node[e].status = "fail"
    BY DEF FailureOnRecord
  <2>1. node[e].by \in Workers
    BY DEF FailInv, FlowInv, TypeInv, TypeOK, Node
  <2>2. WrittenBy(e) /\ Recorded(node[e].by) /\ Muted(node[e].by)
    BY <2>1 DEF FailInv
  <2>3. NoOtherMute(node[e].by)
    BY <2>2 DEF WrittenBy, NoOtherMute
  <2> QED BY <2>2, <2>3 DEF WrittenBy, Recorded, Muted
<1> QED BY <1>1, FailInit, FailStep, PTL DEF Spec
==============================================================================
