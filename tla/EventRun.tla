------------------------------ MODULE EventRun -------------------------------
(* Asynchronous runs and the event streams that show them: the runs of a     *)
(* loader (webapp/loaders/LoaderWeb.java) and the instant runs of a script   *)
(* (webapp/scripters/ScriptWeb.java, the same code in DScriptWeb), their     *)
(* writers, the registry of connections webapp/EventSourceEntry.java and the *)
(* nodes /events/loaders/{eventId}.                                          *)
(*                                                                           *)
(* A page connects to /event/{id} and asks for a run with the same id.  The  *)
(* callbacks of a connection run in threads of a cached pool, in any order;  *)
(* a run has a thread of another pool.  The maps of EventSourceEntry are     *)
(* read and written in one step each, and what is sent to a connection that  *)
(* is lost is lost.                                                          *)
EXTENDS Integers, FiniteSets

CONSTANTS
  Events,   \* event ids
  Conns,    \* bound: connections, each opened once
  Workers,  \* bound: runs, each started once; a run stands for its latch too
  MaxOut,   \* bound: pieces of output a script writes
  Unused,   \* a connection or run that is still to come
  Nobody,   \* no connection, no latch, no run
  Absent    \* no node at this path

ASSUME MaxOutIsNat == MaxOut \in Nat

Outputs == 0 .. MaxOut + 1  \* the handler of the result writes one piece more

(* open: what onOpen has done; close: what onClose has done.                 *)
Conn == [id : Events, alive : BOOLEAN,
         open : {"asked", "released", "put"}, close : {"no", "unlatched", "done"},
         endedBy : Workers \cup {Nobody}]
Run == [event : Events, kind : {"loader", "script"},
        at : {"exec", "fail", "send", "merge", "tell", "done"},
        next : {"exec", "send", "merge", "tell"},     \* after the flush
        wrote : Outputs, flushed : Outputs,           \* the buffer is in between
        outcome : {"none", "ok", "fail", "mute", "error"}]
Node == [status : {"started", "fail", "end"}, exception : BOOLEAN, content : Outputs,
         by : Workers]                                \* the run that wrote it last

ASSUME Distinct ==
  /\ Unused \notin Conn \cup Run /\ Absent \notin Node
  /\ Nobody \notin Conns \cup Workers

VARIABLES
  conn,      \* the connections
  connMap,   \* EventSourceEntry.connMap
  latchs,    \* EventSourceEntry.latchs
  released,  \* the latches that were counted down
  run,       \* the runs with their writers
  node,      \* /events/loaders/{eventId}
  got        \* what a page that is there or was told the end received of a run

vars == <<conn, connMap, latchs, released, run, node, got>>
registry == <<connMap, latchs, released>>

TypeOK ==
  /\ conn \in [Conns -> Conn \cup {Unused}]
  /\ connMap \in [Events -> Conns \cup {Nobody}]
  /\ latchs \in [Events -> Workers \cup {Nobody}]
  /\ released \in SUBSET Workers
  /\ run \in [Workers -> Run \cup {Unused}]
  /\ node \in [Events -> Node \cup {Absent}]
  /\ got \in [Conns -> SUBSET (Workers \X Outputs)]

Init ==
  /\ conn = [c \in Conns |-> Unused]
  /\ connMap = [e \in Events |-> Nobody]
  /\ latchs = [e \in Events |-> Nobody]
  /\ released = {}
  /\ run = [w \in Workers |-> Unused]
  /\ node = [e \in Events |-> Absent]
  /\ got = [c \in Conns |-> {}]
------------------------------------------------------------------------------
(* Connections.  The response's head is on its way before onOpen is called,  *)
(* so that the page may ask for its run, or be gone, before that.            *)
Connect(c, e) ==
  /\ conn[c] = Unused
  /\ conn' = [conn EXCEPT ![c] = [id |-> e, alive |-> TRUE, open |-> "asked",
                                  close |-> "no", endedBy |-> Nobody]]
  /\ UNCHANGED <<registry, run, node, got>>

Lose(c) ==
  /\ conn[c] # Unused /\ conn[c].alive
  /\ conn' = [conn EXCEPT ![c].alive = FALSE]
  /\ got' = [got EXCEPT ![c] = {}]
  /\ UNCHANGED <<registry, run, node>>

(* Variant: a latch that is not there is counted down. *)
ReleaseUnchecked(c) ==
  /\ conn[c] # Unused /\ conn[c].open = "asked"
  /\ released' = released \cup {latchs[conn[c].id]}
  /\ conn' = [conn EXCEPT ![c].open = "released"]
  /\ UNCHANGED <<connMap, latchs, run, node, got>>

(* onOpen counts the latch of its event down ...                             *)
Release(c) ==
  /\ conn[c] # Unused /\ conn[c].open = "asked"
  /\ released' = released \cup ({latchs[conn[c].id]} \ {Nobody})
  /\ conn' = [conn EXCEPT ![c].open = "released"]
  /\ UNCHANGED <<connMap, latchs, run, node, got>>

(* ... and then puts the connection.                                         *)
PutConn(c) ==
  /\ conn[c] # Unused /\ conn[c].open = "released"
  /\ connMap' = [connMap EXCEPT ![conn[c].id] = c]
  /\ conn' = [conn EXCEPT ![c].open = "put"]
  /\ UNCHANGED <<latchs, released, run, node, got>>

(* Variant: the connection is removed before the latch. *)
RemoveConnFirst(c) ==
  /\ conn[c] # Unused /\ ~ conn[c].alive /\ conn[c].close = "no"
  /\ connMap' = [connMap EXCEPT ![conn[c].id] = Nobody]
  /\ conn' = [conn EXCEPT ![c].close = "unlatched"]
  /\ UNCHANGED <<latchs, released, run, node, got>>

(* onClose removes the latch of its event and then the connection its event  *)
(* has now, which need not be this one.                                      *)
RemoveLatch(c) ==
  /\ conn[c] # Unused /\ ~ conn[c].alive /\ conn[c].close = "no"
  /\ latchs' = [latchs EXCEPT ![conn[c].id] = Nobody]
  /\ conn' = [conn EXCEPT ![c].close = "unlatched"]
  /\ UNCHANGED <<connMap, released, run, node, got>>

RemoveConn(c) ==
  /\ conn[c] # Unused /\ conn[c].close = "unlatched"
  /\ connMap' = [connMap EXCEPT ![conn[c].id] = Nobody]
  /\ conn' = [conn EXCEPT ![c].close = "done"]
  /\ UNCHANGED <<latchs, released, run, node, got>>
------------------------------------------------------------------------------
(* Runs.                                                                     *)
At(w, at) == run[w] # Unused /\ run[w].at = at
GoTo(w, at) == run' = [run EXCEPT ![w].at = at]

NewRun(e, kind, at) ==
  [event |-> e, kind |-> kind, at |-> at, next |-> "exec", wrote |-> 0, flushed |-> 0,
   outcome |-> "none"]

(* A loader's close changes the store in a transaction during which it tells *)
(* the page; no other transaction gets in between.                           *)
StoreIsFree == \A v \in Workers : ~ (At(v, "tell") /\ run[v].kind = "loader")

(* LoaderWeb.run, for a script that compiles: another is refused before      *)
(* anything is changed.                                                      *)
RunLoader(w, e) ==
  /\ run[w] = Unused /\ StoreIsFree
  /\ run' = [run EXCEPT ![w] = NewRun(e, "loader", "exec")]
  /\ node' = [node EXCEPT ![e] =
       IF @ = Absent THEN [status |-> "started", exception |-> FALSE, content |-> 0, by |-> w]
       ELSE [@ EXCEPT !.status = "started", !.by = w]]
  /\ UNCHANGED <<conn, registry, got>>

(* instantRunScript makes the latch before it compiles: a script that does   *)
(* not compile leaves its latch behind, in the place of an earlier one.      *)
InstantRun(w, e) ==
  /\ run[w] = Unused
  /\ latchs' = [latchs EXCEPT ![e] = w]
  /\ run' = [run EXCEPT ![w] = NewRun(e, "script", "exec")]
  /\ UNCHANGED <<conn, connMap, released, node, got>>

InstantRunRefused(w, e) ==
  /\ run[w] = Unused
  /\ latchs' = [latchs EXCEPT ![e] = w]
  /\ run' = [run EXCEPT ![w] = [NewRun(e, "script", "done") EXCEPT !.outcome = "error"]]
  /\ UNCHANGED <<conn, connMap, released, node, got>>

(* The script writes and flushes.  A flush of an empty buffer sends an empty *)
(* message and is left out.                                                  *)
Write(w) ==
  /\ At(w, "exec") /\ run[w].wrote < MaxOut
  /\ run' = [run EXCEPT ![w].wrote = @ + 1]
  /\ UNCHANGED <<conn, registry, node, got>>

CallFlush(w) ==
  /\ At(w, "exec") /\ run[w].flushed < run[w].wrote
  /\ GoTo(w, "send")
  /\ UNCHANGED <<conn, registry, node, got>>

Loader(w) == run[w].kind = "loader"

Finish(w, outcome, piece, at, next) ==
  run' = [run EXCEPT ![w] = [@ EXCEPT !.outcome = outcome, !.wrote = run[w].wrote + piece,
                                      !.at = at, !.next = next]]

(* Variant: closing does not flush. *)
ReturnUnflushed(w) ==
  /\ At(w, "exec")
  /\ \/ Finish(w, "error", 0, "done", "exec")
     \/ Loader(w) /\ Finish(w, "ok", 0, "merge", "merge")
     \/ Loader(w) /\ \E o \in {"fail", "mute"} : Finish(w, o, 0, "fail", "merge")
     \/ ~ Loader(w) /\ Finish(w, "ok", 1, "tell", "tell")
  /\ UNCHANGED <<conn, registry, node, got>>

(* The script returns, throws an exception with or without a message, or an  *)
(* Error, which runAsyncHandle does not catch.  A loader that returned       *)
(* closes its writer, which flushes first; one that threw first records the  *)
(* failure.  An instant run writes its result or the exception alike,        *)
(* flushes and closes its writer, which flushes again.                       *)
Return(w) ==
  /\ At(w, "exec")
  /\ \/ Finish(w, "error", 0, "done", "exec")
     \/ Loader(w) /\ Finish(w, "ok", 0, "send", "merge")
     \/ Loader(w) /\ \E o \in {"fail", "mute"} : Finish(w, o, 0, "fail", "merge")
     \/ ~ Loader(w) /\ Finish(w, "ok", 1, "send", "send")
  /\ UNCHANGED <<conn, registry, node, got>>

(* Variant: the status alone tells of the failure. *)
FailByStatus(w) ==
  /\ At(w, "fail") /\ StoreIsFree
  /\ node' = [node EXCEPT ![run[w].event] = [@ EXCEPT !.status = "fail", !.by = w]]
  /\ IF run[w].outcome = "mute" THEN GoTo(w, "done")
     ELSE run' = [run EXCEPT ![w].at = "send", ![w].wrote = @ + 1]
  /\ UNCHANGED <<conn, registry, got>>

(* onFail of a loader.  Writing a message that is null throws: the writer is *)
(* not closed then.                                                          *)
Fail(w) ==
  /\ At(w, "fail") /\ StoreIsFree
  /\ node' = [node EXCEPT ![run[w].event] =
       [@ EXCEPT !.status = "fail", !.exception = run[w].outcome = "fail", !.by = w]]
  /\ IF run[w].outcome = "mute" THEN GoTo(w, "done")
     ELSE run' = [run EXCEPT ![w].at = "send", ![w].wrote = @ + 1]
  /\ UNCHANGED <<conn, registry, got>>

Buffer(w) == {w} \X (run[w].flushed + 1 .. run[w].wrote)

Live(c) == c # Nobody /\ conn[c].alive

(* sendTo the connection the event has, if any.  An instant run's close      *)
(* flushes once more.                                                        *)
SendTo(w) ==
  /\ At(w, "send")
  /\ LET c == connMap[run[w].event]
     IN got' = IF Live(c) THEN [got EXCEPT ![c] = @ \cup Buffer(w)] ELSE got
  /\ run' = [run EXCEPT ![w] = [@ EXCEPT !.flushed = run[w].wrote, !.at = run[w].next,
               !.next = IF run[w].next = "send" THEN "tell" ELSE run[w].next]]
  /\ UNCHANGED <<conn, registry, node>>

(* Variant: an instant run waits for its latch without a limit. *)
SendWhenReleased(w) == SendTo(w) /\ (Loader(w) \/ w \in released)

(* The flush of an instant run first waits for its latch, at most a second:  *)
(* it goes on when the latch is down and when the second is over.            *)
Send(w) == SendTo(w)

(* Variant: the content is not stored. *)
MergeStatus(w) ==
  /\ At(w, "merge") /\ StoreIsFree
  /\ node' = [node EXCEPT ![run[w].event] = [@ EXCEPT !.status = "end", !.by = w]]
  /\ GoTo(w, "tell")
  /\ UNCHANGED <<conn, registry, got>>

(* The loader's close: end with the whole output ...                         *)
MergeEnd(w) ==
  /\ At(w, "merge") /\ StoreIsFree
  /\ node' = [node EXCEPT ![run[w].event] =
       [@ EXCEPT !.status = "end", !.content = run[w].flushed, !.by = w]]
  /\ GoTo(w, "tell")
  /\ UNCHANGED <<conn, registry, got>>

(* Variant: only a loader tells. *)
CloseEventOfLoader(w) ==
  /\ At(w, "tell")
  /\ LET c == connMap[run[w].event]
     IN conn' = IF Live(c) /\ Loader(w)
                THEN [conn EXCEPT ![c].endedBy = w, ![c].alive = FALSE] ELSE conn
  /\ GoTo(w, "done")
  /\ UNCHANGED <<registry, node, got>>

(* ... and both tell the page and close its connection: closeEvent.          *)
CloseEvent(w) ==
  /\ At(w, "tell")
  /\ LET c == connMap[run[w].event]
     IN conn' = IF Live(c) THEN [conn EXCEPT ![c].endedBy = w, ![c].alive = FALSE] ELSE conn
  /\ GoTo(w, "done")
  /\ UNCHANGED <<registry, node, got>>

Step(w) == Write(w) \/ CallFlush(w) \/ Return(w) \/ Fail(w) \/ Send(w) \/ MergeEnd(w) \/ CloseEvent(w)

OnOpen(c) == Release(c) \/ PutConn(c)
OnClose(c) == RemoveLatch(c) \/ RemoveConn(c)

Next ==
  \/ \E c \in Conns : Lose(c) \/ OnOpen(c) \/ OnClose(c) \/ \E e \in Events : Connect(c, e)
  \/ \E w \in Workers, e \in Events : RunLoader(w, e) \/ InstantRun(w, e) \/ InstantRunRefused(w, e)
  \/ \E w \in Workers : Step(w)

Spec == Init /\ [][Next]_vars

(* A run that was submitted goes on: the pool is a cached one, the write lock *)
(* is fair, and the script is taken to return.  Nothing is assumed of pages  *)
(* and of the callbacks of their connections.                                *)
FairSpec == Spec /\ \A w \in Workers : WF_vars(Step(w))
------------------------------------------------------------------------------
(* When a latch was released, the event of its run has a connection, except  *)
(* while a connection is between the latch and the map (onOpen, lines 40 and *)
(* 42) or after one of the event was closed (line 50): output is lost        *)
(* unawaited in no other case.                                               *)
ReleasedIsConnected ==
  \A w \in released :
    \/ connMap[run[w].event] # Nobody
    \/ \E c \in Conns : /\ conn[c] # Unused /\ conn[c].id = run[w].event
                        /\ conn[c].open = "released" \/ conn[c].close = "done"

(* What a page receives of a run has no gaps, and when it also receives the  *)
(* end of that run it has the last piece (flush and close of both writers,   *)
(* against connections that are put, replaced and removed meanwhile).        *)
OutputComplete ==
  \A c \in Conns, w \in Workers :
    LET pieces == {n \in Outputs : <<w, n>> \in got[c]}
    IN /\ \A m, n \in pieces : m .. n \subseteq pieces
       /\ pieces # {} /\ conn[c].endedBy = w => run[w].wrote \in pieces

(* A page that is told the end of a loader finds the run ended with all its  *)
(* output, unless another run wrote the node since (close, lines 118-127).   *)
EndMeansStored ==
  \A c \in Conns, w \in Workers :
    /\ conn[c] # Unused /\ conn[c].endedBy = w /\ Loader(w)
    /\ node[run[w].event].by = w
    => node[run[w].event].status = "end" /\ node[run[w].event].content = run[w].wrote

(* The failure of the run that wrote a node last can be told from it, also   *)
(* when its close has set the status to "end" (onFail, lines 203-214), unless *)
(* a run of the same event that failed without a message blanked it.         *)
FailureOnRecord ==
  \A e \in Events :
    /\ node[e] # Absent
    /\ run[node[e].by].outcome \in {"fail", "mute"} /\ run[node[e].by].at # "fail"
    /\ \A v \in Workers \ {node[e].by} :
         run[v] # Unused /\ run[v].event = e => run[v].outcome # "mute"
    => node[e].exception \/ node[e].status = "fail"

(* A run ends, whatever becomes of connections and latches: createEvent may  *)
(* be too late for onOpen, replaced by another or removed by onClose.        *)
RunEnds == \A w \in Workers : run[w] # Unused ~> At(w, "done")

(* A page whose connection is in the map while a run of its event is under   *)
(* way is told the end, unless it is lost or its connection removed or       *)
(* replaced, or the run ends without closing its writer (Return, Fail).      *)
PageIsTold ==
  \A c \in Conns, w \in Workers :
    (At(w, "exec") /\ connMap[run[w].event] = c)
    ~> \/ At(w, "done") /\ run[w].outcome \in {"mute", "error"}
       \/ run[w] # Unused /\ connMap[run[w].event] # c
       \/ conn[c] # Unused /\ ~ conn[c].alive
==============================================================================
