--------------------------- MODULE EventRunProofs ----------------------------
(* What EventRun promises for any events, connections, runs and length of    *)
(* output.                                                                   *)
EXTENDS EventRun, TLAPS

(* TypeOK is not inductive alone: a handler may write one piece more only    *)
(* while the script has not written that many, only a loader's run, whose     *)
(* node is there, goes where the node is changed, and what is looked up in    *)
(* the map of connections is one.                                            *)
Room(r) ==
  (r.at \in {"exec", "fail"} \/ (r.at = "send" /\ r.next = "exec")) => r.wrote <= MaxOut
Path(r) ==
  /\ r.at = "exec" => r.next = "exec"
  /\ r.at = "fail" => r.next = "merge"
  /\ (r.at = "merge" \/ r.next = "merge") => r.kind = "loader"
Noted(w) == Loader(w) => node[run[w].event] # Absent

RunInv == \A w \in Workers : run[w] # Unused => Room(run[w]) /\ Path(run[w]) /\ Noted(w)

(* A connection that is in the map was opened. *)
MapInv == \A e \in Events : connMap[e] # Nobody => conn[connMap[e]] # Unused

TypeInv == TypeOK /\ RunInv /\ MapInv

LEMMA TypeInit == Init => TypeInv
  BY DEF Init, TypeInv, TypeOK, RunInv, MapInv

(* What the steps of connections and runs change of one connection, run or node. *)
LEMMA ConnUpdate ==
  ASSUME TypeOK, NEW c \in Conns, conn[c] # Unused
  PROVE  /\ conn[c] \in Conn
         /\ [conn[c] EXCEPT !.alive = FALSE] \in Conn
         /\ \A o \in {"released", "put"} : [conn[c] EXCEPT !.open = o] \in Conn
         /\ \A o \in {"unlatched", "done"} : [conn[c] EXCEPT !.close = o] \in Conn
         /\ \A w \in Workers : [[conn[c] EXCEPT !.endedBy = w] EXCEPT !.alive = FALSE] \in Conn
<1>1. conn[c] \in Conn
  BY DEF TypeOK
<1>2. [conn[c] EXCEPT !.alive = FALSE] \in Conn
  BY <1>1 DEF Conn
<1>3. \A o \in {"released", "put"} : [conn[c] EXCEPT !.open = o] \in Conn
  BY <1>1 DEF Conn
<1>4. \A o \in {"unlatched", "done"} : [conn[c] EXCEPT !.close = o] \in Conn
  BY <1>1 DEF Conn
<1>5. \A w \in Workers : [[conn[c] EXCEPT !.endedBy = w] EXCEPT !.alive = FALSE] \in Conn
  BY <1>1 DEF Conn
<1> QED  BY <1>1, <1>2, <1>3, <1>4, <1>5

(* The record of a run changes, never its event. *)
RunsKept == \A w \in Workers : run[w] # Unused => run'[w] # Unused /\ run'[w].event = run[w].event

LEMMA RunUpdate ==
  ASSUME TypeInv, NEW w \in Workers, NEW r \in Run, run' = [run EXCEPT ![w] = r],
         Room(r), Path(r), r.kind = "loader" => node'[r.event] # Absent,
         run[w] # Unused => r.event = run[w].event,
         \A e \in Events : node[e] # Absent => node'[e] # Absent
  PROVE  run' \in [Workers -> Run \cup {Unused}] /\ RunInv' /\ RunsKept
<1>1. run' \in [Workers -> Run \cup {Unused}]
  BY DEF TypeInv, TypeOK
<1>2. ASSUME NEW v \in Workers, run'[v] # Unused
      PROVE  Room(run'[v]) /\ Path(run'[v]) /\ (run'[v].kind = "loader" => node'[run'[v].event] # Absent)
  <2>1. CASE v = w
    <3>1. run'[v] = r
      BY <2>1 DEF TypeInv, TypeOK
    <3> QED  BY <3>1
  <2>2. CASE v # w
    <3>1. run'[v] = run[v] /\ run[v] \in Run
      BY <1>2, <2>2 DEF TypeInv, TypeOK
    <3>2. Room(run[v]) /\ Path(run[v]) /\ (run[v].kind = "loader" => node[run[v].event] # Absent)
      BY <1>2, <3>1 DEF TypeInv, RunInv, Noted, Loader
    <3>3. run[v].event \in Events
      BY <3>1 DEF Run
    <3> QED  BY <3>1, <3>2, <3>3
  <2> QED  BY <2>1, <2>2
<1>3. RunInv'
  BY <1>2 DEF RunInv, Noted, Loader
<1>4. RunsKept
  BY Distinct DEF TypeInv, TypeOK, RunsKept
<1> QED  BY <1>1, <1>3, <1>4

(* The callbacks of connections leave runs and nodes alone. *)
LEMMA RunsAlone ==
  ASSUME RunInv, UNCHANGED <<run, node>>
  PROVE  RunInv'
  BY DEF RunInv, Noted, Loader

LEMMA MapAlone ==
  ASSUME MapInv, UNCHANGED <<connMap, conn>>
  PROVE  MapInv'
  BY DEF MapInv

Grows == \A d \in Conns : conn[d] # Unused => conn'[d] # Unused
OnlyPut(c) == \A e \in Events : connMap'[e] \in {connMap[e], Nobody} \/ connMap'[e] = c

LEMMA MapStep ==
  ASSUME TypeInv, NEW c \in Conns, conn'[c] # Unused, Grows, OnlyPut(c)
  PROVE  MapInv'
<1> SUFFICES ASSUME NEW e \in Events, connMap'[e] # Nobody
             PROVE  conn'[connMap'[e]] # Unused
  BY DEF MapInv
<1>1. connMap'[e] = c \/ connMap'[e] = connMap[e]
  BY DEF OnlyPut
<1>2. connMap[e] # Nobody => connMap[e] \in Conns /\ conn[connMap[e]] # Unused
  BY DEF TypeInv, TypeOK, MapInv
<1> QED  BY <1>1, <1>2 DEF Grows

LEMMA ConnType ==
  ASSUME TypeInv, NEW c \in Conns
  PROVE  /\ \A e \in Events : Connect(c, e) => TypeInv'
         /\ Lose(c) => TypeInv'
         /\ OnOpen(c) => TypeInv'
         /\ OnClose(c) => TypeInv'
<1> USE DEF registry
<1>0. ASSUME NEW k \in Conn, conn' = [conn EXCEPT ![c] = k]
      PROVE  /\ conn' \in [Conns -> Conn \cup {Unused}]
             /\ conn'[c] # Unused /\ Grows
  BY <1>0, Distinct DEF TypeInv, TypeOK, Grows
<1>1. ASSUME NEW e \in Events, Connect(c, e)  PROVE TypeInv'
  <2> DEFINE k == [id |-> e, alive |-> TRUE, open |-> "asked", close |-> "no", endedBy |-> Nobody]
  <2>1. k \in Conn  BY DEF Conn
  <2>2. conn' = [conn EXCEPT ![c] = k]  BY <1>1 DEF Connect
  <2> HIDE DEF k
  <2>3. /\ conn' \in [Conns -> Conn \cup {Unused}]
       /\ conn'[c] # Unused /\ Grows
    BY <1>0, <2>1, <2>2
  <2>4. OnlyPut(c)
    BY <1>1 DEF Connect, TypeInv, TypeOK, OnlyPut
  <2>5. MapInv'
    BY <2>3, <2>4, MapStep
  <2> QED  BY <1>1, <2>3, <2>5, RunsAlone DEF Connect, TypeInv, TypeOK
<1>2. ASSUME Lose(c)  PROVE TypeInv'
  <2> DEFINE k == [conn[c] EXCEPT !.alive = FALSE]
  <2>1. k \in Conn  BY <1>2, ConnUpdate DEF Lose, TypeInv
  <2>2. conn' = [conn EXCEPT ![c] = k]  BY <1>2 DEF Lose
  <2> HIDE DEF k
  <2>3. /\ conn' \in [Conns -> Conn \cup {Unused}]
       /\ conn'[c] # Unused /\ Grows
    BY <1>0, <2>1, <2>2
  <2>4. OnlyPut(c)
    BY <1>2 DEF Lose, TypeInv, TypeOK, OnlyPut
  <2>5. MapInv'
    BY <2>3, <2>4, MapStep
  <2> QED  BY <1>2, <2>3, <2>5, RunsAlone DEF Lose, TypeInv, TypeOK
<1>3. ASSUME Release(c)  PROVE TypeInv'
  <2> DEFINE k == [conn[c] EXCEPT !.open = "released"]
  <2>1. k \in Conn /\ conn[c] \in Conn  BY <1>3, ConnUpdate DEF Release, TypeInv
  <2>2. conn[c].id \in Events  BY <2>1 DEF Conn
  <2>3. conn' = [conn EXCEPT ![c] = k]  BY <1>3 DEF Release
  <2> HIDE DEF k
  <2>4. /\ conn' \in [Conns -> Conn \cup {Unused}]
       /\ conn'[c] # Unused /\ Grows
    BY <1>0, <2>1, <2>2, <2>3
  <2>5. OnlyPut(c)
    BY <1>3, <2>2 DEF Release, TypeInv, TypeOK, OnlyPut
  <2>6. MapInv'
    BY <2>4, <2>5, MapStep
  <2> QED  BY <1>3, <2>2, <2>4, <2>6, RunsAlone DEF Release, TypeInv, TypeOK
<1>4. ASSUME PutConn(c)  PROVE TypeInv'
  <2> DEFINE k == [conn[c] EXCEPT !.open = "put"]
  <2>1. k \in Conn /\ conn[c] \in Conn  BY <1>4, ConnUpdate DEF PutConn, TypeInv
  <2>2. conn[c].id \in Events  BY <2>1 DEF Conn
  <2>3. conn' = [conn EXCEPT ![c] = k]  BY <1>4 DEF PutConn
  <2> HIDE DEF k
  <2>4. /\ conn' \in [Conns -> Conn \cup {Unused}]
       /\ conn'[c] # Unused /\ Grows
    BY <1>0, <2>1, <2>2, <2>3
  <2>5. OnlyPut(c)
    BY <1>4, <2>2 DEF PutConn, TypeInv, TypeOK, OnlyPut
  <2>6. MapInv'
    BY <2>4, <2>5, MapStep
  <2> QED  BY <1>4, <2>2, <2>4, <2>6, RunsAlone DEF PutConn, TypeInv, TypeOK
<1>5. ASSUME RemoveLatch(c)  PROVE TypeInv'
  <2> DEFINE k == [conn[c] EXCEPT !.close = "unlatched"]
  <2>1. k \in Conn /\ conn[c] \in Conn  BY <1>5, ConnUpdate DEF RemoveLatch, TypeInv
  <2>2. conn[c].id \in Events  BY <2>1 DEF Conn
  <2>3. conn' = [conn EXCEPT ![c] = k]  BY <1>5 DEF RemoveLatch
  <2> HIDE DEF k
  <2>4. /\ conn' \in [Conns -> Conn \cup {Unused}]
       /\ conn'[c] # Unused /\ Grows
    BY <1>0, <2>1, <2>2, <2>3
  <2>5. OnlyPut(c)
    BY <1>5, <2>2 DEF RemoveLatch, TypeInv, TypeOK, OnlyPut
  <2>6. MapInv'
    BY <2>4, <2>5, MapStep
  <2> QED  BY <1>5, <2>2, <2>4, <2>6, RunsAlone DEF RemoveLatch, TypeInv, TypeOK
<1>6. ASSUME RemoveConn(c)  PROVE TypeInv'
  <2> DEFINE k == [conn[c] EXCEPT !.close = "done"]
  <2>1. k \in Conn /\ conn[c] \in Conn  BY <1>6, ConnUpdate DEF RemoveConn, TypeInv
  <2>2. conn[c].id \in Events  BY <2>1 DEF Conn
  <2>3. conn' = [conn EXCEPT ![c] = k]  BY <1>6 DEF RemoveConn
  <2> HIDE DEF k
  <2>4. /\ conn' \in [Conns -> Conn \cup {Unused}]
       /\ conn'[c] # Unused /\ Grows
    BY <1>0, <2>1, <2>2, <2>3
  <2>5. OnlyPut(c)
    BY <1>6, <2>2 DEF RemoveConn, TypeInv, TypeOK, OnlyPut
  <2>6. MapInv'
    BY <2>4, <2>5, MapStep
  <2> QED  BY <1>6, <2>2, <2>4, <2>6, RunsAlone DEF RemoveConn, TypeInv, TypeOK
<1> QED  BY <1>1, <1>2, <1>3, <1>4, <1>5, <1>6 DEF OnOpen, OnClose

LEMMA StartType ==
  ASSUME TypeInv, NEW w \in Workers, NEW e \in Events
  PROVE  /\ RunLoader(w, e) => TypeInv' /\ RunsKept
         /\ InstantRun(w, e) => TypeInv' /\ RunsKept
         /\ InstantRunRefused(w, e) => TypeInv' /\ RunsKept
<1>1. ASSUME RunLoader(w, e)  PROVE TypeInv' /\ RunsKept
  <2> DEFINE fresh == [status |-> "started", exception |-> FALSE, content |-> 0, by |-> w]
             again == [node[e] EXCEPT !.status = "started", !.by = w]
             r == NewRun(e, "loader", "exec")
  <2>1. fresh \in Node
    BY MaxOutIsNat DEF Node, Outputs
  <2>2. node[e] # Absent => again \in Node
    BY DEF TypeInv, TypeOK, Node
  <2>3. node' = [node EXCEPT ![e] = IF node[e] = Absent THEN fresh ELSE again]
    BY <1>1 DEF RunLoader
  <2> HIDE DEF fresh, again
  <2>4. node' \in [Events -> Node \cup {Absent}] /\ node'[e] # Absent
    BY <2>1, <2>2, <2>3, Distinct DEF TypeInv, TypeOK
  <2>5. \A f \in Events : node[f] # Absent => node'[f] # Absent
    BY <2>3, <2>4 DEF TypeInv, TypeOK
  <2>6. r \in Run /\ Room(r) /\ Path(r) /\ (r.kind = "loader" => node'[r.event] # Absent)
        /\ (run[w] # Unused => r.event = run[w].event)
    BY <2>4, <1>1, MaxOutIsNat DEF RunLoader, NewRun, Run, Outputs, Room, Path
  <2>7. run' = [run EXCEPT ![w] = r]
    BY <1>1 DEF RunLoader
  <2> HIDE DEF r
  <2>8. run' \in [Workers -> Run \cup {Unused}] /\ RunInv' /\ RunsKept
    BY <2>5, <2>6, <2>7, RunUpdate
  <2> QED  BY <1>1, <2>4, <2>8, MapAlone DEF RunLoader, TypeInv, TypeOK, registry
<1>2. ASSUME InstantRun(w, e)  PROVE TypeInv' /\ RunsKept
  <2> DEFINE r == NewRun(e, "script", "exec")
  <2>1. r \in Run /\ Room(r) /\ Path(r) /\ (r.kind = "loader" => node'[r.event] # Absent)
        /\ (run[w] # Unused => r.event = run[w].event)
    BY <1>2, MaxOutIsNat DEF InstantRun, NewRun, Run, Outputs, Room, Path
  <2>2. run' = [run EXCEPT ![w] = r] /\ node' = node
    BY <1>2 DEF InstantRun
  <2> HIDE DEF r
  <2>3. run' \in [Workers -> Run \cup {Unused}] /\ RunInv' /\ RunsKept
    BY <2>1, <2>2, RunUpdate
  <2> QED  BY <1>2, <2>3, MapAlone DEF InstantRun, TypeInv, TypeOK
<1>3. ASSUME InstantRunRefused(w, e)  PROVE TypeInv' /\ RunsKept
  <2> DEFINE r == [NewRun(e, "script", "done") EXCEPT !.outcome = "error"]
  <2>1. r \in Run /\ Room(r) /\ Path(r) /\ (r.kind = "loader" => node'[r.event] # Absent)
        /\ (run[w] # Unused => r.event = run[w].event)
    BY <1>3, MaxOutIsNat DEF InstantRunRefused, NewRun, Run, Outputs, Room, Path
  <2>2. run' = [run EXCEPT ![w] = r] /\ node' = node
    BY <1>3 DEF InstantRunRefused
  <2> HIDE DEF r
  <2>3. run' \in [Workers -> Run \cup {Unused}] /\ RunInv' /\ RunsKept
    BY <2>1, <2>2, RunUpdate
  <2> QED  BY <1>3, <2>3, MapAlone DEF InstantRunRefused, TypeInv, TypeOK
<1> QED  BY <1>1, <1>2, <1>3

(* A run that goes on is a run and keeps to its path. *)
LEMMA RunOfWorker ==
  ASSUME TypeInv, NEW w \in Workers, run[w] # Unused
  PROVE  run[w] \in Run /\ Room(run[w]) /\ Path(run[w]) /\ Noted(w)
  BY DEF TypeInv, TypeOK, RunInv

(* The steps of a run that leave the nodes alone. *)
LEMMA OutputType ==
  ASSUME TypeInv, NEW w \in Workers
  PROVE  /\ Write(w) => TypeInv' /\ RunsKept
         /\ CallFlush(w) => TypeInv' /\ RunsKept
         /\ Return(w) => TypeInv' /\ RunsKept
         /\ Send(w) => TypeInv' /\ RunsKept
         /\ CloseEvent(w) => TypeInv' /\ RunsKept
<1> USE DEF Room, Path, Noted, Loader
<1>1. ASSUME Write(w)  PROVE TypeInv' /\ RunsKept
  <2> DEFINE r == [run[w] EXCEPT !.wrote = @ + 1]
  <2>1. r \in Run /\ Room(r) /\ Path(r) /\ (r.kind = "loader" => node'[r.event] # Absent)
        /\ (run[w] # Unused => r.event = run[w].event)
    BY <1>1, RunOfWorker, MaxOutIsNat DEF Write, At, Run, Outputs, registry
  <2>2. run' = [run EXCEPT ![w] = r] /\ node' = node
    BY <1>1 DEF Write
  <2> HIDE DEF r
  <2>3. run' \in [Workers -> Run \cup {Unused}] /\ RunInv' /\ RunsKept
    BY <2>1, <2>2, RunUpdate
  <2> QED  BY <1>1, <2>3, MapAlone DEF Write, TypeInv, TypeOK, registry
<1>2. ASSUME CallFlush(w)  PROVE TypeInv' /\ RunsKept
  <2> DEFINE r == [run[w] EXCEPT !.at = "send"]
  <2>1. r \in Run /\ Room(r) /\ Path(r) /\ (r.kind = "loader" => node'[r.event] # Absent)
        /\ (run[w] # Unused => r.event = run[w].event)
    BY <1>2, RunOfWorker, MaxOutIsNat DEF CallFlush, At, Run, Outputs
  <2>2. run' = [run EXCEPT ![w] = r] /\ node' = node
    BY <1>2 DEF CallFlush, GoTo
  <2> HIDE DEF r
  <2>3. run' \in [Workers -> Run \cup {Unused}] /\ RunInv' /\ RunsKept
    BY <2>1, <2>2, RunUpdate
  <2> QED  BY <1>2, <2>3, MapAlone DEF CallFlush, TypeInv, TypeOK, registry
<1>3. ASSUME Return(w)  PROVE TypeInv' /\ RunsKept
  <2>0. run[w] \in Run /\ run[w].at = "exec" /\ run[w].wrote <= MaxOut /\ node' = node
    BY <1>3, RunOfWorker DEF Return, At
  <2>1. PICK o \in {"ok", "fail", "mute", "error"}, p \in {0, 1},
             a \in {"done", "send", "fail"}, n \in {"exec", "merge", "send"} :
          /\ Finish(w, o, p, a, n)
          /\ a = "fail" => n = "merge"
          /\ n = "exec" => a = "done"
          /\ n = "merge" => p = 0 /\ Loader(w)
    BY <1>3 DEF Return
  <2> DEFINE r == [run[w] EXCEPT !.outcome = o, !.wrote = @ + p, !.at = a, !.next = n]
  <2>2. run' = [run EXCEPT ![w] = r]
    BY <2>1 DEF Finish
  <2>3. r \in Run
    <3>1. run[w].wrote \in Nat /\ run[w].wrote + p \in Outputs
      BY <2>0, MaxOutIsNat DEF Run, Outputs
    <3> QED  BY <2>0, <3>1 DEF Run
  <2>4. Room(r) /\ Path(r)
    BY <2>0, <2>1, MaxOutIsNat DEF Run, Outputs, Loader
  <2>5. /\ r.kind = "loader" => node'[r.event] # Absent
        /\ r.event = run[w].event
    BY <2>0, <1>3, RunOfWorker DEF Run, Return, At
  <2> HIDE DEF r
  <2>6. run' \in [Workers -> Run \cup {Unused}] /\ RunInv' /\ RunsKept
    BY <2>0, <2>2, <2>3, <2>4, <2>5, RunUpdate
  <2> QED  BY <1>3, <2>6, MapAlone DEF Return, TypeInv, TypeOK, registry
<1>4. ASSUME Send(w)  PROVE TypeInv' /\ RunsKept
  <2>0. run[w] \in Run /\ run[w].at = "send" /\ node' = node
        /\ Room(run[w]) /\ Path(run[w]) /\ Noted(w)
    BY <1>4, RunOfWorker DEF Send, SendTo, At
  <2> DEFINE n == IF run[w].next = "send" THEN "tell" ELSE run[w].next
             r == [run[w] EXCEPT !.flushed = run[w].wrote, !.at = run[w].next, !.next = n]
             c == connMap[run[w].event]
  <2>1. n \in {"exec", "send", "merge", "tell"} /\ run[w].next \in {"exec", "send", "merge", "tell"}
    BY <2>0 DEF Run
  <2>2. r \in Run
    BY <2>0, <2>1 DEF Run
  <2>3. Room(r) /\ Path(r) /\ (r.kind = "loader" => node'[r.event] # Absent)
        /\ (run[w] # Unused => r.event = run[w].event)
    BY <2>0, <2>1 DEF Run
  <2>4. run' = [run EXCEPT ![w] = r]
    BY <1>4 DEF Send, SendTo
  <2> HIDE DEF r
  <2>5. run' \in [Workers -> Run \cup {Unused}] /\ RunInv' /\ RunsKept
    BY <2>0, <2>2, <2>3, <2>4, RunUpdate
  <2>6. got' \in [Conns -> SUBSET (Workers \X Outputs)]
    <3>1. Buffer(w) \subseteq Workers \X Outputs
      BY <2>0, MaxOutIsNat DEF Buffer, Run, Outputs
    <3>2. CASE Live(c)
      <4>1. c \in Conns
        BY <2>0, <3>2 DEF TypeInv, TypeOK, Run, Live
      <4>2. got' = [got EXCEPT ![c] = @ \cup Buffer(w)]
        BY <1>4, <3>2 DEF Send, SendTo
      <4> QED  BY <3>1, <4>1, <4>2 DEF TypeInv, TypeOK
    <3>3. CASE ~ Live(c)
      BY <1>4, <3>3 DEF Send, SendTo, TypeInv, TypeOK
    <3> QED  BY <3>2, <3>3
  <2> QED  BY <1>4, <2>5, <2>6, MapAlone DEF Send, SendTo, TypeInv, TypeOK, registry
<1>5. ASSUME CloseEvent(w)  PROVE TypeInv' /\ RunsKept
  <2> DEFINE r == [run[w] EXCEPT !.at = "done"]
             c == connMap[run[w].event]
  <2>1. r \in Run /\ Room(r) /\ Path(r) /\ (r.kind = "loader" => node'[r.event] # Absent)
        /\ (run[w] # Unused => r.event = run[w].event)
    BY <1>5, RunOfWorker DEF CloseEvent, At, Run
  <2>2. run' = [run EXCEPT ![w] = r] /\ node' = node
    BY <1>5 DEF CloseEvent, GoTo
  <2>3. run[w] \in Run
    BY <1>5, RunOfWorker DEF CloseEvent, At
  <2> HIDE DEF r
  <2>4. run' \in [Workers -> Run \cup {Unused}] /\ RunInv' /\ RunsKept
    BY <2>1, <2>2, RunUpdate
  <2>5. /\ conn' \in [Conns -> Conn \cup {Unused}]
        /\ Live(c) => conn'[c] # Unused /\ Grows
        /\ ~ Live(c) => conn' = conn
    <3>1. CASE Live(c)
      <4> DEFINE k == [[conn[c] EXCEPT !.endedBy = w] EXCEPT !.alive = FALSE]
      <4>1. c \in Conns /\ k \in Conn
        BY <2>3, <3>1, ConnUpdate DEF TypeInv, TypeOK, MapInv, Run, Live
      <4>2. conn' = [conn EXCEPT ![c] = k]
        BY <1>5, <3>1, <4>1 DEF CloseEvent, TypeInv, TypeOK
      <4> HIDE DEF k
      <4> QED  BY <3>1, <4>1, <4>2, Distinct DEF TypeInv, TypeOK, Grows
    <3>2. CASE ~ Live(c)
      BY <1>5, <3>2 DEF CloseEvent, TypeInv, TypeOK
    <3> QED  BY <3>1, <3>2
  <2>6. MapInv'
    <3>1. connMap' = connMap  BY <1>5 DEF CloseEvent, registry
    <3>2. CASE Live(c)
      <4>1. c \in Conns  BY <2>3, <3>2 DEF TypeInv, TypeOK, Run, Live
      <4>2. OnlyPut(c)  BY <3>1 DEF OnlyPut
      <4> QED  BY <2>5, <3>2, <4>1, <4>2, MapStep
    <3>3. CASE ~ Live(c)
      BY <2>5, <3>1, <3>3, MapAlone DEF TypeInv
    <3> QED  BY <3>2, <3>3
  <2> QED  BY <1>5, <2>4, <2>5, <2>6 DEF CloseEvent, TypeInv, TypeOK, registry
<1> QED  BY <1>1, <1>2, <1>3, <1>4, <1>5

(* The steps that change a node: it is there, being that of a loader.        *)
LEMMA NodeType ==
  ASSUME TypeInv, NEW w \in Workers
  PROVE  /\ Fail(w) => TypeInv' /\ RunsKept
         /\ MergeEnd(w) => TypeInv' /\ RunsKept
<1> USE DEF Room, Path, Noted, Loader
<1>1. ASSUME Fail(w)  PROVE TypeInv' /\ RunsKept
  <2> DEFINE e == run[w].event
             n == [node[e] EXCEPT !.status = "fail", !.exception = (run[w].outcome = "fail"), !.by = w]
  <2>1. run[w] \in Run /\ e \in Events /\ node[e] \in Node /\ run[w].at = "fail" /\ run[w].wrote <= MaxOut
    BY <1>1, RunOfWorker DEF Fail, At, TypeInv, TypeOK, Run
  <2>2. n \in Node /\ n # Absent
    BY <2>1, Distinct DEF Node
  <2>3. node' = [node EXCEPT ![e] = n]
    BY <1>1 DEF Fail
  <2> HIDE DEF n
  <2>4. node' \in [Events -> Node \cup {Absent}] /\ \A f \in Events : node[f] # Absent => node'[f] # Absent
    BY <2>1, <2>2, <2>3 DEF TypeInv, TypeOK
  <2>5. PICK r \in {[run[w] EXCEPT !.at = "done"], [run[w] EXCEPT !.at = "send", !.wrote = @ + 1]} :
          run' = [run EXCEPT ![w] = r]
    BY <1>1 DEF Fail, GoTo
  <2>6. r \in Run /\ r.event = e /\ Room(r) /\ Path(r)
    <3>1. run[w].wrote \in Nat /\ run[w].wrote + 1 \in Outputs
      BY <2>1, MaxOutIsNat DEF Run, Outputs
    <3>2. run[w].next = "merge" /\ run[w].kind = "loader"
      BY <1>1, <2>1, RunOfWorker DEF Fail, At
    <3>3. CASE r = [run[w] EXCEPT !.at = "done"]
      BY <2>1, <3>2, <3>3 DEF Run
    <3>4. CASE r = [run[w] EXCEPT !.at = "send", !.wrote = @ + 1]
      <4>1. r \in Run /\ r.event = e
        BY <2>1, <3>1, <3>4 DEF Run
      <4>2. r.at = "send" /\ r.kind = "loader" /\ r.next = "merge"
        BY <2>1, <3>2, <3>4 DEF Run
      <4> QED  BY <4>1, <4>2
    <3> QED  BY <2>5, <3>3, <3>4
  <2>7. r.kind = "loader" => node'[r.event] # Absent
    BY <2>1, <2>2, <2>3, <2>6 DEF TypeInv, TypeOK
  <2>8. run' \in [Workers -> Run \cup {Unused}] /\ RunInv' /\ RunsKept
    BY <2>4, <2>5, <2>6, <2>7, RunUpdate
  <2> QED  BY <1>1, <2>4, <2>8, MapAlone DEF Fail, TypeInv, TypeOK, registry
<1>2. ASSUME MergeEnd(w)  PROVE TypeInv' /\ RunsKept
  <2> DEFINE e == run[w].event
             n == [node[e] EXCEPT !.status = "end", !.content = run[w].flushed, !.by = w]
             r == [run[w] EXCEPT !.at = "tell"]
  <2>1. run[w] \in Run /\ e \in Events /\ node[e] \in Node
    BY <1>2, RunOfWorker DEF MergeEnd, At, TypeInv, TypeOK, Run
  <2>2. n \in Node /\ n # Absent
    BY <2>1, Distinct DEF Node, Run
  <2>3. node' = [node EXCEPT ![e] = n]
    BY <1>2 DEF MergeEnd
  <2> HIDE DEF n
  <2>4. node' \in [Events -> Node \cup {Absent}] /\ \A f \in Events : node[f] # Absent => node'[f] # Absent
    BY <2>1, <2>2, <2>3 DEF TypeInv, TypeOK
  <2>5. run' = [run EXCEPT ![w] = r]
    BY <1>2 DEF MergeEnd, GoTo
  <2>6. r \in Run /\ r.event = e /\ Room(r) /\ Path(r)
    BY <1>2, <2>1, RunOfWorker DEF MergeEnd, At, Run
  <2> HIDE DEF r
  <2>7. r.kind = "loader" => node'[r.event] # Absent
    BY <2>1, <2>2, <2>3, <2>6 DEF TypeInv, TypeOK
  <2>8. run' \in [Workers -> Run \cup {Unused}] /\ RunInv' /\ RunsKept
    BY <2>4, <2>5, <2>6, <2>7, RunUpdate
  <2> QED  BY <1>2, <2>4, <2>8, MapAlone DEF MergeEnd, TypeInv, TypeOK, registry
<1> QED  BY <1>1, <1>2

LEMMA TypeStep == TypeInv /\ [Next]_vars => TypeInv'
<1>1. TypeInv /\ UNCHANGED vars => TypeInv'
  BY DEF TypeInv, TypeOK, RunInv, Noted, Loader, MapInv, vars
<1> QED  BY <1>1, ConnType, StartType, OutputType, NodeType DEF Next, Step

(* Connections, maps, latches, runs and nodes keep their types.              *)
THEOREM TypeCorrect == Spec => []TypeOK
<1>1. TypeInv => TypeOK  BY DEF TypeInv
<1> QED  BY <1>1, TypeInit, TypeStep, PTL DEF Spec
------------------------------------------------------------------------------
(* ReleasedIsConnected needs that a latch belongs to the run of its event:    *)
(* the thread that counts it down knows the event only.                      *)
LatchInv ==
  /\ \A e \in Events : latchs[e] # Nobody => run[latchs[e]] # Unused /\ run[latchs[e]].event = e
  /\ \A w \in released : run[w] # Unused

ReleasedInv == TypeInv /\ LatchInv /\ ReleasedIsConnected

ConnsKept ==
  \A c \in Conns : conn[c] # Unused =>
    /\ conn'[c] # Unused /\ conn'[c].id = conn[c].id
    /\ conn'[c].open = conn[c].open /\ conn'[c].close = conn[c].close

LEMMA ReleasedInit == Init => ReleasedInv
  BY TypeInit DEF Init, ReleasedInv, LatchInv, ReleasedIsConnected

(* A step that leaves the maps and the latches alone. *)
LEMMA ReleasedQuiet ==
  ASSUME ReleasedInv, TypeInv', RunsKept, ConnsKept, UNCHANGED registry
  PROVE  ReleasedInv'
<1>0. released \subseteq Workers /\ latchs \in [Events -> Workers \cup {Nobody}]
  BY DEF ReleasedInv, TypeInv, TypeOK
<1>1. LatchInv'
  BY <1>0 DEF ReleasedInv, LatchInv, RunsKept, registry
<1>2. ReleasedIsConnected'
  <2> SUFFICES ASSUME NEW w \in released, connMap[run[w].event] = Nobody
               PROVE  \E c \in Conns : /\ conn'[c] # Unused /\ conn'[c].id = run[w].event
                                       /\ conn'[c].open = "released" \/ conn'[c].close = "done"
    BY <1>0 DEF ReleasedIsConnected, ReleasedInv, LatchInv, RunsKept, registry
  <2>1. PICK c \in Conns : /\ conn[c] # Unused /\ conn[c].id = run[w].event
                           /\ conn[c].open = "released" \/ conn[c].close = "done"
    BY DEF ReleasedInv, ReleasedIsConnected
  <2> QED  BY <2>1 DEF ConnsKept
<1> QED  BY <1>1, <1>2 DEF ReleasedInv

(* Opening and losing a connection, and the steps of a run, are such steps. *)
LEMMA ConnsKeptByOthers ==
  ASSUME TypeInv, TypeInv'
  PROVE  /\ \A c \in Conns, e \in Events : Connect(c, e) => ConnsKept
         /\ \A c \in Conns : Lose(c) => ConnsKept
         /\ \A w \in Workers : CloseEvent(w) => ConnsKept
<1>0. conn \in [Conns -> Conn \cup {Unused}] /\ conn' \in [Conns -> Conn \cup {Unused}]
  BY DEF TypeInv, TypeOK
<1>1. ASSUME NEW c \in Conns, NEW e \in Events, Connect(c, e)  PROVE ConnsKept
  <2>1. conn[c] = Unused /\ \A d \in Conns : d # c => conn'[d] = conn[d]
    BY <1>0, <1>1 DEF Connect
  <2> QED  BY <2>1 DEF ConnsKept
<1>2. ASSUME NEW d \in Conns, conn[d] # Unused, NEW k \in Conn, conn' = [conn EXCEPT ![d] = k],
             k.id = conn[d].id, k.open = conn[d].open, k.close = conn[d].close
      PROVE  ConnsKept
  BY <1>0, <1>2, Distinct DEF ConnsKept
<1>3. ASSUME NEW c \in Conns, Lose(c)  PROVE ConnsKept
  <2> DEFINE k == [conn[c] EXCEPT !.alive = FALSE]
  <2>1. k \in Conn /\ conn[c] \in Conn /\ conn[c] # Unused
    BY <1>3, ConnUpdate DEF Lose, TypeInv
  <2>2. k.id = conn[c].id /\ k.open = conn[c].open /\ k.close = conn[c].close
    BY <2>1 DEF Conn
  <2>3. conn' = [conn EXCEPT ![c] = k]  BY <1>3 DEF Lose
  <2> HIDE DEF k
  <2> QED  BY <1>2, <2>1, <2>2, <2>3
<1>4. ASSUME NEW w \in Workers, CloseEvent(w)  PROVE ConnsKept
  <2> DEFINE d == connMap[run[w].event]
             k == [[conn[d] EXCEPT !.endedBy = w] EXCEPT !.alive = FALSE]
  <2>0. run[w] \in Run
    BY <1>4, RunOfWorker DEF CloseEvent, At
  <2>1. CASE Live(d)
    <3>1. d \in Conns /\ conn[d] # Unused
      BY <2>0, <2>1 DEF TypeInv, TypeOK, MapInv, Run, Live
    <3>2. k \in Conn /\ conn[d] \in Conn
      BY <3>1, ConnUpdate DEF TypeInv
    <3>3. k.id = conn[d].id /\ k.open = conn[d].open /\ k.close = conn[d].close
      BY <3>2 DEF Conn
    <3>4. conn' = [conn EXCEPT ![d] = k]
      BY <1>4, <2>1, <3>1 DEF CloseEvent, TypeInv, TypeOK
    <3> HIDE DEF k, d
    <3> QED  BY <1>2, <3>1, <3>2, <3>3, <3>4
  <2>2. CASE ~ Live(d)
    BY <1>4, <2>2 DEF CloseEvent, ConnsKept
  <2> QED  BY <2>1, <2>2
<1> QED  BY <1>1, <1>3, <1>4

(* The callbacks of a connection keep the promise: onOpen counts the latch    *)
(* down before it puts the connection, and what onClose removes leaves a      *)
(* closed connection of that event behind.                                   *)
LEMMA ReleasedCallbacks ==
  ASSUME ReleasedInv, TypeInv', NEW c \in Conns
  PROVE  OnOpen(c) \/ OnClose(c) => ReleasedInv'
<1> USE DEF registry
<1>0. /\ conn \in [Conns -> Conn \cup {Unused}] /\ connMap \in [Events -> Conns \cup {Nobody}]
      /\ latchs \in [Events -> Workers \cup {Nobody}] /\ released \subseteq Workers
      /\ \A w \in Workers : run[w] # Unused => run[w].event \in Events
      /\ Nobody \notin Conns
  BY Distinct DEF ReleasedInv, TypeInv, TypeOK, Run
<1>1. ASSUME conn[c] # Unused  PROVE conn[c] \in Conn /\ conn[c].id \in Events
  BY <1>0, <1>1 DEF Conn
<1>2. ASSUME Release(c)  PROVE ReleasedInv'
  <2> DEFINE k == [conn[c] EXCEPT !.open = "released"]
  <2>1. conn[c] # Unused /\ conn[c] \in Conn /\ conn[c].id \in Events
    BY <1>1, <1>2 DEF Release
  <2>2. k \in Conn /\ k.id = conn[c].id /\ k.open = "released" /\ k.close = conn[c].close
    BY <2>1 DEF Conn
  <2>3. conn' = [conn EXCEPT ![c] = k]
        /\ released' = released \cup ({latchs[conn[c].id]} \ {Nobody})
        /\ connMap' = connMap /\ latchs' = latchs /\ run' = run
    BY <1>2 DEF Release
  <2> HIDE DEF k
  <2>4. LatchInv'
    BY <1>0, <2>1, <2>3 DEF ReleasedInv, LatchInv
  <2>5. conn'[c] = k /\ k # Unused /\ \A d \in Conns : d # c => conn'[d] = conn[d]
    BY <1>0, <2>2, <2>3, Distinct
  <2>6. ASSUME NEW w \in released', connMap'[run'[w].event] = Nobody
        PROVE  \E d \in Conns : /\ conn'[d] # Unused /\ conn'[d].id = run'[w].event
                                /\ conn'[d].open = "released" \/ conn'[d].close = "done"
    <3>1. CASE w \in released
      <4>1. PICK d \in Conns : /\ conn[d] # Unused /\ conn[d].id = run[w].event
                               /\ conn[d].open = "released" \/ conn[d].close = "done"
        BY <2>3, <2>6, <3>1 DEF ReleasedInv, ReleasedIsConnected
      <4>2. CASE d = c
        BY <2>2, <2>3, <2>5, <4>1, <4>2
      <4>3. CASE d # c
        BY <2>3, <2>5, <4>1, <4>3
      <4> QED  BY <4>2, <4>3
    <3>2. CASE w \notin released
      <4>1. w = latchs[conn[c].id] /\ w # Nobody
        BY <2>3, <3>2
      <4>2. run[w].event = conn[c].id
        BY <2>1, <4>1 DEF ReleasedInv, LatchInv
      <4> QED  BY <2>2, <2>3, <2>5, <4>2
    <3> QED  BY <3>1, <3>2
  <2> QED  BY <2>4, <2>6 DEF ReleasedInv, ReleasedIsConnected
<1>3. ASSUME PutConn(c)  PROVE ReleasedInv'
  <2> DEFINE k == [conn[c] EXCEPT !.open = "put"]
  <2>1. conn[c] # Unused /\ conn[c] \in Conn /\ conn[c].id \in Events
    BY <1>1, <1>3 DEF PutConn
  <2>2. k \in Conn /\ k.id = conn[c].id /\ k.close = conn[c].close
    BY <2>1 DEF Conn
  <2>3. conn' = [conn EXCEPT ![c] = k] /\ connMap' = [connMap EXCEPT ![conn[c].id] = c]
        /\ released' = released /\ latchs' = latchs /\ run' = run
    BY <1>3 DEF PutConn
  <2> HIDE DEF k
  <2>4. LatchInv'
    BY <2>3 DEF ReleasedInv, LatchInv
  <2>5. conn'[c] = k /\ k # Unused /\ \A d \in Conns : d # c => conn'[d] = conn[d]
    BY <1>0, <2>2, <2>3, Distinct
  <2>6. ASSUME NEW w \in released', connMap'[run'[w].event] = Nobody
        PROVE  \E d \in Conns : /\ conn'[d] # Unused /\ conn'[d].id = run'[w].event
                                /\ conn'[d].open = "released" \/ conn'[d].close = "done"
    <3>1. run[w].event \in Events /\ run[w].event # conn[c].id /\ connMap[run[w].event] = Nobody
      BY <1>0, <2>1, <2>3, <2>6 DEF ReleasedInv, LatchInv
    <3>2. PICK d \in Conns : /\ conn[d] # Unused /\ conn[d].id = run[w].event
                             /\ conn[d].open = "released" \/ conn[d].close = "done"
      BY <2>3, <2>6, <3>1 DEF ReleasedInv, ReleasedIsConnected
    <3> QED  BY <2>3, <2>5, <3>1, <3>2
  <2> QED  BY <2>4, <2>6 DEF ReleasedInv, ReleasedIsConnected
<1>4. ASSUME RemoveLatch(c) \/ RemoveConn(c)  PROVE ReleasedInv'
  <2>1. conn[c] # Unused /\ conn[c] \in Conn /\ conn[c].id \in Events
    BY <1>1, <1>4 DEF RemoveLatch, RemoveConn
  <2>2. PICK k \in Conn :
          /\ conn' = [conn EXCEPT ![c] = k] /\ k.id = conn[c].id /\ k.open = conn[c].open
          /\ \/ RemoveLatch(c) /\ conn[c].close = "no"
             \/ RemoveConn(c) /\ k.close = "done"
    <3>1. CASE RemoveLatch(c)
      <4> DEFINE l == [conn[c] EXCEPT !.close = "unlatched"]
      <4>1. l \in Conn /\ l.id = conn[c].id /\ l.open = conn[c].open /\ l.close = "unlatched"
        BY <2>1 DEF Conn
      <4>2. conn' = [conn EXCEPT ![c] = l] /\ conn[c].close = "no"
        BY <3>1 DEF RemoveLatch
      <4> HIDE DEF l
      <4> QED  BY <3>1, <4>1, <4>2
    <3>2. CASE RemoveConn(c)
      <4> DEFINE l == [conn[c] EXCEPT !.close = "done"]
      <4>1. l \in Conn /\ l.id = conn[c].id /\ l.open = conn[c].open /\ l.close = "done"
        BY <2>1 DEF Conn
      <4>2. conn' = [conn EXCEPT ![c] = l] /\ conn[c].close = "unlatched"
        BY <3>2 DEF RemoveConn
      <4> HIDE DEF l
      <4> QED  BY <3>2, <4>1, <4>2
    <3> QED  BY <1>4, <3>1, <3>2
  <2>3. /\ released' = released /\ run' = run
        /\ \A e \in Events : latchs'[e] \in {latchs[e], Nobody}
        /\ \A e \in Events : connMap'[e] = connMap[e] \/ (e = conn[c].id /\ k.close = "done")
    BY <1>0, <2>1, <2>2 DEF RemoveLatch, RemoveConn
  <2>4. LatchInv'
    BY <2>3 DEF ReleasedInv, LatchInv
  <2>5. conn'[c] = k /\ k # Unused /\ \A d \in Conns : d # c => conn'[d] = conn[d]
    BY <1>0, <2>2, Distinct
  <2>6. ASSUME NEW w \in released', connMap'[run'[w].event] = Nobody
        PROVE  \E d \in Conns : /\ conn'[d] # Unused /\ conn'[d].id = run'[w].event
                                /\ conn'[d].open = "released" \/ conn'[d].close = "done"
    <3>1. run[w].event \in Events /\ run' = run
      BY <1>0, <2>3 DEF ReleasedInv, LatchInv
    <3>2. CASE run[w].event = conn[c].id /\ k.close = "done"
      BY <2>2, <2>5, <3>1, <3>2
    <3>3. CASE connMap'[run[w].event] = connMap[run[w].event]
      <4>1. PICK d \in Conns : /\ conn[d] # Unused /\ conn[d].id = run[w].event
                               /\ conn[d].open = "released" \/ conn[d].close = "done"
        BY <2>3, <2>6, <3>1, <3>3 DEF ReleasedInv, ReleasedIsConnected
      <4>2. CASE d = c
        <5>1. k.close = "done" \/ k.open = "released"
          BY <2>2, <4>1, <4>2 DEF RemoveConn
        <5> QED  BY <2>2, <2>5, <3>1, <4>1, <4>2, <5>1
      <4>3. CASE d # c
        BY <2>5, <3>1, <4>1, <4>3
      <4> QED  BY <4>2, <4>3
    <3> QED  BY <2>3, <3>1, <3>2, <3>3
  <2> QED  BY <2>4, <2>6 DEF ReleasedInv, ReleasedIsConnected
<1> QED  BY <1>2, <1>3, <1>4 DEF OnOpen, OnClose

(* An instant run sets the latch of its event, in the place of an earlier one. *)
LEMMA ReleasedStart ==
  ASSUME ReleasedInv, TypeInv', NEW w \in Workers, NEW e \in Events
  PROVE  RunLoader(w, e) \/ InstantRun(w, e) \/ InstantRunRefused(w, e) => ReleasedInv'
<1> USE DEF registry
<1>0. /\ RunLoader(w, e) \/ InstantRun(w, e) \/ InstantRunRefused(w, e) => RunsKept
      /\ RunLoader(w, e) => ReleasedInv'
  <2>1. RunLoader(w, e) \/ InstantRun(w, e) \/ InstantRunRefused(w, e) => RunsKept
    BY StartType DEF ReleasedInv
  <2>2. RunLoader(w, e) => ConnsKept
    BY DEF RunLoader, ConnsKept
  <2> QED  BY <2>1, <2>2, ReleasedQuiet DEF RunLoader
<1>1. ASSUME InstantRun(w, e) \/ InstantRunRefused(w, e)  PROVE ReleasedInv'
  <2>1. /\ RunsKept /\ latchs' = [latchs EXCEPT ![e] = w]
        /\ released' = released /\ connMap' = connMap /\ conn' = conn
    BY <1>0, <1>1 DEF InstantRun, InstantRunRefused
  <2>2. run \in [Workers -> Run \cup {Unused}] /\ run' \in [Workers -> Run \cup {Unused}]
        /\ latchs \in [Events -> Workers \cup {Nobody}] /\ released \subseteq Workers
    BY DEF ReleasedInv, TypeInv, TypeOK
  <2>3. run'[w] # Unused /\ run'[w].event = e
    <3>1. ASSUME InstantRun(w, e)  PROVE run'[w] \in Run /\ run'[w].event = e
      <4>1. run'[w] = NewRun(e, "script", "exec")
        BY <2>2, <3>1 DEF InstantRun
      <4> QED  BY <4>1, MaxOutIsNat DEF NewRun, Run, Outputs
    <3>2. ASSUME InstantRunRefused(w, e)  PROVE run'[w] \in Run /\ run'[w].event = e
      <4>1. run'[w] = [NewRun(e, "script", "done") EXCEPT !.outcome = "error"]
        BY <2>2, <3>2 DEF InstantRunRefused
      <4> QED  BY <4>1, MaxOutIsNat DEF NewRun, Run, Outputs
    <3> QED  BY <1>1, <3>1, <3>2, Distinct
  <2>4. LatchInv'
    BY <2>1, <2>2, <2>3 DEF ReleasedInv, LatchInv, RunsKept
  <2>5. ReleasedIsConnected'
    BY <2>1, <2>2 DEF ReleasedInv, LatchInv, ReleasedIsConnected, RunsKept
  <2> QED  BY <2>4, <2>5 DEF ReleasedInv
<1> QED  BY <1>0, <1>1

LEMMA ReleasedStep == ReleasedInv /\ [Next]_vars => ReleasedInv'
<1> SUFFICES ASSUME ReleasedInv, [Next]_vars  PROVE ReleasedInv'
  OBVIOUS
<1>0. TypeInv /\ TypeInv'
  BY TypeStep DEF ReleasedInv
<1>1. CASE UNCHANGED vars
  <2>1. RunsKept /\ ConnsKept /\ UNCHANGED registry
    BY <1>1 DEF RunsKept, ConnsKept, vars, registry
  <2> QED  BY <1>0, <2>1, ReleasedQuiet
<1>2. ASSUME NEW c \in Conns, NEW e \in Events, Connect(c, e)  PROVE ReleasedInv'
  <2>1. RunsKept /\ UNCHANGED registry  BY <1>2 DEF Connect, RunsKept
  <2>2. ConnsKept  BY <1>0, <1>2, ConnsKeptByOthers DEF Connect
  <2> QED  BY <1>0, <2>1, <2>2, ReleasedQuiet
<1>3. ASSUME NEW c \in Conns, Lose(c)  PROVE ReleasedInv'
  <2>1. RunsKept /\ UNCHANGED registry  BY <1>3 DEF Lose, RunsKept
  <2>2. ConnsKept  BY <1>0, <1>3, ConnsKeptByOthers
  <2> QED  BY <1>0, <2>1, <2>2, ReleasedQuiet
<1>4. ASSUME NEW c \in Conns, OnOpen(c) \/ OnClose(c)  PROVE ReleasedInv'
  BY <1>0, <1>4, ReleasedCallbacks
<1>5. ASSUME NEW w \in Workers, NEW e \in Events,
             RunLoader(w, e) \/ InstantRun(w, e) \/ InstantRunRefused(w, e)
      PROVE  ReleasedInv'
  BY <1>0, <1>5, ReleasedStart
<1>6. ASSUME NEW w \in Workers, Step(w)  PROVE ReleasedInv'
  <2>1. RunsKept
    BY <1>0, <1>6, OutputType, NodeType DEF Step
  <2>2. UNCHANGED registry
    BY <1>6 DEF Step, Write, CallFlush, Return, Fail, Send, SendTo, MergeEnd, CloseEvent
  <2>3. ~ CloseEvent(w) => conn' = conn
    BY <1>6 DEF Step, Write, CallFlush, Return, Fail, Send, SendTo, MergeEnd
  <2>4. ConnsKept
    BY <1>0, <2>3, ConnsKeptByOthers DEF ConnsKept
  <2> QED  BY <1>0, <2>1, <2>2, <2>4, ReleasedQuiet
<1> QED  BY <1>1, <1>2, <1>3, <1>4, <1>5, <1>6 DEF Next

(* A latch that is counted down has a connection to write to, except while    *)
(* onOpen is between its two steps or after a connection of the event was     *)
(* closed.                                                                   *)
THEOREM ReleasedConnected == Spec => []ReleasedIsConnected
<1>1. ReleasedInv => ReleasedIsConnected  BY DEF ReleasedInv
<1> QED  BY <1>1, ReleasedInit, ReleasedStep, PTL DEF Spec
------------------------------------------------------------------------------
(* What RunEnds needs besides fairness: each step of a run leaves it fewer to *)
(* take, whatever connections and latches do.                                 *)
Room4(q) == 4 * (MaxOut - q.wrote)

ToDo(q) ==
  IF q.at = "exec" THEN Room4(q) + (IF q.flushed < q.wrote THEN 10 ELSE 8)
  ELSE IF q.at = "send" /\ q.next = "exec" THEN Room4(q) + 9
  ELSE IF q.at = "fail" THEN 6
  ELSE IF q.at = "send" /\ q.next = "send" THEN 4
  ELSE IF q.at = "send" THEN 3
  ELSE IF q.at = "merge" THEN 2
  ELSE IF q.at = "tell" THEN 1
  ELSE 0

Advances(w) == run[w] # Unused /\ run'[w] # run[w]
                 => run'[w] # Unused /\ ToDo(run'[w]) \in 0 .. ToDo(run[w]) - 1
RunsAdvance == [][\A w \in Workers : Advances(w)]_vars

LEMMA StepAdvances ==
  ASSUME TypeInv, NEW w \in Workers, Step(w)
  PROVE  /\ \A v \in Workers : v # w => run'[v] = run[v]
         /\ ToDo(run'[w]) \in 0 .. ToDo(run[w]) - 1
<1>0. /\ run[w] # Unused /\ run[w] \in Run /\ Room(run[w]) /\ Path(run[w])
      /\ run[w].wrote \in Nat /\ run[w].flushed \in Nat
  BY RunOfWorker DEF Step, Write, CallFlush, Return, Fail, Send, SendTo, MergeEnd, CloseEvent, At, Run, Outputs
<1>1. ASSUME NEW q, run' = [run EXCEPT ![w] = q]
      PROVE  run'[w] = q /\ \A v \in Workers : v # w => run'[v] = run[v]
  BY <1>1 DEF TypeInv, TypeOK
<1> USE MaxOutIsNat
<1>2. CASE Write(w)
  <2>1. PICK q : q = [run[w] EXCEPT !.wrote = @ + 1]
    OBVIOUS
  <2>2. run[w].at = "exec" /\ run[w].wrote < MaxOut /\ run' = [run EXCEPT ![w] = q]
    BY <1>2, <2>1 DEF Write, At
  <2>3. q.at = "exec" /\ q.wrote = run[w].wrote + 1 /\ q.flushed = run[w].flushed
    BY <1>0, <2>1, <2>2 DEF Run
  <2>4. PICK n \in 1 .. MaxOut : run[w].wrote = n - 1
    BY <1>0, <2>2
  <2>5. ToDo(run[w]) \in {4 * (MaxOut - (n - 1)) + 8, 4 * (MaxOut - (n - 1)) + 10}
    BY <2>2, <2>4 DEF ToDo, Room4
  <2>6. ToDo(q) \in {4 * (MaxOut - n) + 8, 4 * (MaxOut - n) + 10}
    BY <2>3, <2>4 DEF ToDo, Room4
  <2>7. ToDo(q) \in 0 .. ToDo(run[w]) - 1
    BY <2>5, <2>6
  <2> QED BY <1>1, <2>2, <2>7
<1>3. CASE CallFlush(w)
  <2>1. PICK q : q = [run[w] EXCEPT !.at = "send"]
    OBVIOUS
  <2>2. run[w].at = "exec" /\ run[w].flushed < run[w].wrote /\ run' = [run EXCEPT ![w] = q]
    BY <1>3, <2>1 DEF CallFlush, GoTo, At
  <2>3. /\ q.at = "send" /\ q.next = "exec" /\ q.wrote = run[w].wrote /\ run[w].wrote <= MaxOut
    BY <1>0, <2>1, <2>2 DEF Run, Path, Room
  <2>4. ToDo(run[w]) = 4 * (MaxOut - run[w].wrote) + 10
    BY <2>2 DEF ToDo, Room4
  <2>5. ToDo(q) = 4 * (MaxOut - run[w].wrote) + 9
    BY <2>3 DEF ToDo, Room4
  <2>6. ToDo(q) \in 0 .. ToDo(run[w]) - 1
    BY <1>0, <2>3, <2>4, <2>5
  <2> QED BY <1>1, <2>2, <2>6
<1>4. CASE Return(w)
  <2>1. PICK o \in {"ok", "fail", "mute", "error"}, n \in {0, 1}, a \in {"done", "send", "fail"},
             x \in {"exec", "merge", "send"} :
          Finish(w, o, n, a, x) /\ (a = "send" => x # "exec")
    BY <1>4 DEF Return
  <2>2. PICK q : q = [run[w] EXCEPT !.outcome = o, !.wrote = run[w].wrote + n, !.at = a, !.next = x]
    OBVIOUS
  <2>3. run[w].at = "exec" /\ run[w].wrote <= MaxOut /\ run' = [run EXCEPT ![w] = q]
    BY <1>0, <1>4, <2>1, <2>2 DEF Return, Finish, At, Room
  <2>4. q.at = a /\ q.next = x
    BY <1>0, <2>2 DEF Run
  <2>5. ToDo(q) \in 0 .. 6
    BY <2>1, <2>4 DEF ToDo
  <2>6. ToDo(run[w]) \in Nat /\ ToDo(run[w]) >= 8
    BY <1>0, <2>3 DEF ToDo, Room4
  <2>7. ToDo(q) \in 0 .. ToDo(run[w]) - 1
    BY <2>5, <2>6
  <2> QED BY <1>1, <2>3, <2>7
<1>5. CASE Fail(w)
  <2>1. PICK q \in {[run[w] EXCEPT !.at = "done"], [run[w] EXCEPT !.at = "send", !.wrote = @ + 1]} :
          run' = [run EXCEPT ![w] = q]
    BY <1>5 DEF Fail, GoTo
  <2>2. run[w].at = "fail" /\ run[w].next = "merge"
    BY <1>0, <1>5 DEF Fail, At, Path
  <2>3. q.at = "done" \/ (q.at = "send" /\ q.next = "merge")
    BY <1>0, <2>1, <2>2 DEF Run
  <2>4. ToDo(run[w]) = 6 /\ ToDo(q) \in {0, 3}
    BY <2>2, <2>3 DEF ToDo
  <2>5. ToDo(q) \in 0 .. ToDo(run[w]) - 1
    BY <2>4
  <2> QED BY <1>1, <2>1, <2>5
<1>6. CASE Send(w)
  <2>1. PICK x : x = IF run[w].next = "send" THEN "tell" ELSE run[w].next
    OBVIOUS
  <2>2. PICK q : q = [run[w] EXCEPT !.flushed = run[w].wrote, !.at = run[w].next, !.next = x]
    OBVIOUS
  <2>3. run[w].at = "send" /\ run' = [run EXCEPT ![w] = q]
    BY <1>6, <2>1, <2>2 DEF Send, SendTo, At
  <2>4. /\ q.at = run[w].next /\ q.next = x /\ q.wrote = run[w].wrote /\ q.flushed = run[w].wrote
        /\ run[w].next \in {"exec", "send", "merge", "tell"}
    BY <1>0, <2>2 DEF Run
  <2>5. CASE run[w].next = "exec"
    <3>1. run[w].wrote <= MaxOut
      BY <1>0, <2>3, <2>5 DEF Room
    <3>2. ToDo(run[w]) = 4 * (MaxOut - run[w].wrote) + 9
      BY <2>3, <2>5 DEF ToDo, Room4
    <3>3. ~(q.flushed < q.wrote)
      BY <1>0, <2>4
    <3>4. ToDo(q) = 4 * (MaxOut - run[w].wrote) + 8
      BY <2>4, <2>5, <3>3 DEF ToDo, Room4
    <3>5. ToDo(q) \in 0 .. ToDo(run[w]) - 1
      BY <1>0, <3>1, <3>2, <3>4
    <3> QED BY <1>1, <2>3, <3>5
  <2>6. CASE run[w].next # "exec"
    <3>1. ToDo(q) \in 0 .. ToDo(run[w]) - 1
      BY <2>1, <2>3, <2>4, <2>6 DEF ToDo
    <3> QED BY <1>1, <2>3, <3>1
  <2> QED BY <2>5, <2>6
<1>7. CASE MergeEnd(w) \/ CloseEvent(w)
  <2>1. PICK a \in {"tell", "done"} : run' = [run EXCEPT ![w].at = a] /\ (a = "tell" => run[w].at = "merge")
                                   /\ run[w].at \in {"merge", "tell"}
    BY <1>7 DEF MergeEnd, CloseEvent, GoTo, At
  <2>2. PICK q : q = [run[w] EXCEPT !.at = a]
    OBVIOUS
  <2>3. run' = [run EXCEPT ![w] = q] /\ q.at = a
    BY <1>0, <2>1, <2>2 DEF Run
  <2>4. ToDo(q) \in 0 .. ToDo(run[w]) - 1
    BY <2>1, <2>3 DEF ToDo
  <2> QED BY <1>1, <2>3, <2>4
<1> QED BY <1>2, <1>3, <1>4, <1>5, <1>6, <1>7 DEF Step

(* LoaderWeb.java:188-220, ScriptWeb.java:425-450: each step of a run         *)
(* leaves it fewer to take, and no page, connection, latch or other run sets  *)
(* it back: a run takes a bounded number of steps.                            *)
THEOREM RunsComeToAnEnd == Spec => RunsAdvance
<1>1. TypeInv /\ [Next]_vars => [\A w \in Workers : Advances(w)]_vars
  <2> SUFFICES ASSUME TypeInv, [Next]_vars, NEW w \in Workers, run[w] # Unused, run'[w] # run[w]
               PROVE  run'[w] # Unused /\ ToDo(run'[w]) \in 0 .. ToDo(run[w]) - 1
    BY DEF Advances
  <2>1. ASSUME NEW v \in Workers, Step(v)
        PROVE  run'[w] # Unused /\ ToDo(run'[w]) \in 0 .. ToDo(run[w]) - 1
    <3>1. RunsKept
      BY <2>1, OutputType, NodeType DEF Step
    <3> QED BY <2>1, <3>1, StepAdvances DEF RunsKept
  <2>2. ASSUME NEW v \in Workers, NEW e \in Events,
               RunLoader(v, e) \/ InstantRun(v, e) \/ InstantRunRefused(v, e)
        PROVE  FALSE
    BY <2>2 DEF RunLoader, InstantRun, InstantRunRefused, TypeInv, TypeOK
  <2>3. ASSUME NEW c \in Conns, Lose(c) \/ OnOpen(c) \/ OnClose(c) \/ \E e \in Events : Connect(c, e)
        PROVE  FALSE
    BY <2>3 DEF Lose, OnOpen, OnClose, Connect, Release, PutConn, RemoveLatch, RemoveConn
  <2> QED BY <2>1, <2>2, <2>3 DEF Next, vars
<1> QED BY <1>1, TypeInit, TypeStep, PTL DEF Spec, RunsAdvance
==============================================================================
