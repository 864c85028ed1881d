--------------------------- MODULE ScriptSchedule ---------------------------
(* The scripts of webapp/scripters/ScriptWeb.java, their schedules and the   *)
(* runs: the CDD handler niss.scripts of webapp/REntry.java that turns a     *)
(* stored schedule into a job, the runnable of a job, the start of the       *)
(* scheduler, and the requests that define, remove, schedule and run scripts. *)
(*                                                                           *)
(* A request's transaction is one step here.  It runs under the workspace's  *)
(* write lock; what reads without the lock is the check of a run, which reads *)
(* one node, and the "{}" it may see of a node being created says the same   *)
(* to it as no node.                                                         *)
EXTENDS Integers, FiniteSets

CONSTANTS
  Sids,           \* script ids
  Sound,          \* contents that return or throw inside JavaScript
  Throwing,       \* contents out of which a Java RuntimeException escapes
  Uncompilable,   \* contents createScript rejects
  NoContent,      \* the property is not there
  Times,          \* times AtTime accepts
  Malformed,      \* a time AtTime rejects
  Limit,          \* the matchtime of a time: how often it may match
  Workers,        \* bound: runs under way at once (the pool has none)
  Absent,         \* no node at this path
  NoJob,          \* the scheduler has no job of this name ...
  Spent,          \* ... because it matched as often as it may
  Rejected,       \* ... because the new time was malformed
  Idle,           \* a worker without a run
  Transactional   \* TRUE: store "fs", FALSE: store "memory"

ASSUME ContentsDisjoint ==
  /\ Sound \cap (Throwing \cup Uncompilable) = {} /\ Throwing \cap Uncompilable = {}
  /\ NoContent \notin Sound \cup Throwing \cup Uncompilable
ASSUME MalformedIsNoTime == Malformed \notin Times
ASSUME LimitOfTimes == Limit \in [Times -> Int]
ASSUME StoreKind == Transactional \in BOOLEAN

Forever == -1

Contents == Sound \cup Throwing \cup Uncompilable

Script   == [content : Contents \cup {NoContent}, running : BOOLEAN]
Schedule == [enable : BOOLEAN, time : Times \cup {Malformed}]
Job      == [time : Times, fired : Nat]
Run      == [sid : Sids, kind : {"schedule", "run", "instant"},
             at : {"check", "mark", "compile", "exec", "log"},
             content : Contents \cup {NoContent}]

ASSUME NoNodeIsAbsent == Absent \notin Script \cup Schedule
ASSUME NoJobIsNone == {NoJob, Spent, Rejected} \cap Job = {} /\ NoJob \notin {Spent, Rejected}
ASSUME NoRunIsIdle == Idle \notin Run

VARIABLES
  up,      \* the process runs
  script,  \* /scripts/{sid}
  sched,   \* /scripts/{sid}/schedule
  job,     \* Scheduler.jobs; Spent and Rejected tell why there is none
  run      \* the runs under way

vars == <<up, script, sched, job, run>>

TypeOK ==
  /\ up \in BOOLEAN
  /\ script \in [Sids -> Script \cup {Absent}]
  /\ sched \in [Sids -> Schedule \cup {Absent}]
  /\ job \in [Sids -> Job \cup {NoJob, Spent, Rejected}]
  /\ run \in [Workers -> Run \cup {Idle}]

Nothing == [s \in Sids |-> Absent]
NoJobs  == [s \in Sids |-> NoJob]
NoRuns  == [w \in Workers |-> Idle]

Init ==
  /\ up = FALSE
  /\ script = Nothing /\ sched = Nothing
  /\ job = NoJobs
  /\ run = NoRuns

Bare == [content |-> NoContent, running |-> FALSE]

(* merge of a node, or of one below it: the node is there afterwards.        *)
Stored(s) == IF script[s] = Absent THEN Bare ELSE script[s]

MergeContent(s, c) == script' = [script EXCEPT ![s] = [Stored(s) EXCEPT !.content = c]]
MergeRunning(s, b) == script' = [script EXCEPT ![s] = [Stored(s) EXCEPT !.running = b]]
MergeBelow(s)      == script' = [script EXCEPT ![s] = Stored(s)]

HasJob(s)  == job[s] \in Job
Enabled(s) == sched[s] # Absent /\ sched[s].enable
------------------------------------------------------------------------------
(* The requests of ScriptWeb that write.                                     *)

DefineScript(s, c) ==
  /\ up /\ MergeContent(s, c)
  /\ UNCHANGED <<up, sched, job, run>>

(* Variant: the deleted handler leaves the job. *)
RemoveScriptsKeepJob(S) ==
  /\ up
  /\ script' = [s \in Sids |-> IF s \in S THEN Absent ELSE script[s]]
  /\ sched'  = [s \in Sids |-> IF s \in S THEN Absent ELSE sched[s]]
  /\ UNCHANGED <<up, job, run>>

(* removeScript and removeScripts; the schedule's removal removes the job.   *)
RemoveScripts(S) ==
  /\ up
  /\ script' = [s \in Sids |-> IF s \in S THEN Absent ELSE script[s]]
  /\ sched'  = [s \in Sids |-> IF s \in S THEN Absent ELSE sched[s]]
  /\ job'    = [s \in Sids |-> IF s \in S /\ sched[s] # Absent THEN NoJob ELSE job[s]]
  /\ UNCHANGED <<up, run>>

SetSchedule(s, v) == sched' = [sched EXCEPT ![s] = v] /\ MergeBelow(s)

(* The modified handler of niss.scripts, for a time that parses. *)
Reschedule(s, v) ==
  job' = [job EXCEPT ![s] = IF v.enable THEN [time |-> v.time, fired |-> 0] ELSE NoJob]

(* Variant: the time is taken as it is. *)
EditScheduleUnparsed(s, v) ==
  /\ up
  /\ SetSchedule(s, v) /\ Reschedule(s, v)
  /\ UNCHANGED <<up, run>>

EditSchedule(s, v) ==
  /\ up /\ (v.enable => v.time # Malformed)
  /\ SetSchedule(s, v) /\ Reschedule(s, v)
  /\ UNCHANGED <<up, run>>

(* Variant: the store keeps what the handler refused. *)
EditScheduleRefusedKept(s) ==
  /\ up
  /\ job' = [job EXCEPT ![s] = Rejected]
  /\ SetSchedule(s, [enable |-> TRUE, time |-> Malformed])
  /\ UNCHANGED <<up, run>>

(* The old job is removed before the new time is parsed: the store goes back *)
(* to the old schedule (when it can), the scheduler does not.                *)
EditScheduleRefused(s) ==
  /\ up
  /\ job' = [job EXCEPT ![s] = Rejected]
  /\ IF Transactional THEN UNCHANGED <<script, sched>>
     ELSE SetSchedule(s, [enable |-> TRUE, time |-> Malformed])
  /\ UNCHANGED <<up, run>>
------------------------------------------------------------------------------
(* A minute of the scheduler: a job that matches is submitted to the pool,   *)
(* and one that is expired, then or before, is removed.  Matches that have   *)
(* no limit are not counted.                                                 *)
Expired(j) == Limit[j.time] # Forever /\ j.fired >= Limit[j.time]

Matched(j) == IF Limit[j.time] = Forever THEN j ELSE [j EXCEPT !.fired = @ + 1]

Fire(s, w) ==
  /\ up /\ HasJob(s) /\ ~ Expired(job[s]) /\ run[w] = Idle
  /\ run' = [run EXCEPT ![w] = [sid |-> s, kind |-> "schedule", at |-> "check",
                                content |-> NoContent]]
  /\ job' = [job EXCEPT ![s] = IF Expired(Matched(job[s])) THEN Spent ELSE Matched(job[s])]
  /\ UNCHANGED <<up, script, sched>>

Expire(s) ==
  /\ up /\ HasJob(s) /\ Expired(job[s])
  /\ job' = [job EXCEPT ![s] = Spent]
  /\ UNCHANGED <<up, script, sched, run>>

(* The runnable of a job.  scriptNode is a snapshot: its content is run even *)
(* when the script was redefined since.                                      *)
At(w, at) == up /\ run[w] # Idle /\ run[w].at = at
Scheduled(w) == run[w] # Idle /\ run[w].kind = "schedule"
GoTo(w, at) == run' = [run EXCEPT ![w].at = at]
Leave(w) == run' = [run EXCEPT ![w] = Idle]

(* Variant: the flag is not asked. *)
CheckBlind(w) ==
  /\ At(w, "check")
  /\ run' = [run EXCEPT ![w].at = "mark", ![w].content = Stored(run[w].sid).content]
  /\ UNCHANGED <<up, script, sched, job>>

Check(w) ==
  /\ At(w, "check")
  /\ LET node == Stored(run[w].sid)
     IN IF node.running THEN Leave(w)
        ELSE run' = [run EXCEPT ![w].at = "mark", ![w].content = node.content]
  /\ UNCHANGED <<up, script, sched, job>>

Mark(w) ==
  /\ At(w, "mark")
  /\ MergeRunning(run[w].sid, TRUE) /\ GoTo(w, "compile")
  /\ UNCHANGED <<up, sched, job>>

(* new StringReader(null) throws past every catch; a ScriptException is      *)
(* logged; neither clears the flag.                                          *)
Compile(w) ==
  /\ At(w, "compile")
  /\ \/ run[w].content = NoContent /\ Leave(w)
     \/ run[w].content \in Uncompilable /\ GoTo(w, "log")
     \/ run[w].content \in Sound \cup Throwing /\ GoTo(w, "exec")
  /\ UNCHANGED <<up, script, sched, job>>

(* Variant: onFail does not clear the flag. *)
ExecLeavesFlag(w) ==
  /\ At(w, "exec") /\ Scheduled(w)
  /\ \/ /\ run[w].content \in Sound
        /\ MergeRunning(run[w].sid, FALSE) /\ GoTo(w, "log")
     \/ /\ run[w].content \in Sound
        /\ MergeBelow(run[w].sid) /\ GoTo(w, "log")
     \/ /\ run[w].content \in Throwing
        /\ Leave(w) /\ UNCHANGED script
  /\ UNCHANGED <<up, sched, job>>

(* onSuccess and onFail clear the flag; execHandle lets a RuntimeException by. *)
Exec(w) ==
  /\ At(w, "exec") /\ Scheduled(w)
  /\ \/ /\ run[w].content \in Sound
        /\ MergeRunning(run[w].sid, FALSE) /\ GoTo(w, "log")
     \/ /\ run[w].content \in Throwing
        /\ Leave(w) /\ UNCHANGED script
  /\ UNCHANGED <<up, sched, job>>

(* ScriptWeb.end: a log entry below the script. *)
End(w) ==
  /\ At(w, "log")
  /\ MergeBelow(run[w].sid) /\ Leave(w)
  /\ UNCHANGED <<up, sched, job>>
------------------------------------------------------------------------------
(* A run by request: the script as stored, or as the page holds it.  One that *)
(* does not compile is answered with the error and leaves nothing behind.    *)
StartRun(w, s, kind, c) ==
  /\ up /\ run[w] = Idle /\ c \in Sound \cup Throwing
  /\ run' = [run EXCEPT ![w] = [sid |-> s, kind |-> kind, at |-> "exec", content |-> c]]
  /\ UNCHANGED <<up, script, sched, job>>

RunScript(w, s) == StartRun(w, s, "run", Stored(s).content)
InstantRun(w, s, c) == StartRun(w, s, "instant", c)

(* Both log; the instant run also when a RuntimeException escapes, because   *)
(* runAsyncHandle catches it.                                                *)
FinishRun(w) ==
  /\ At(w, "exec") /\ ~ Scheduled(w)
  /\ IF run[w].kind = "run" /\ run[w].content \in Throwing THEN UNCHANGED script
     ELSE MergeBelow(run[w].sid)
  /\ Leave(w)
  /\ UNCHANGED <<up, sched, job>>
------------------------------------------------------------------------------
(* Variant: the start does not write the schedules again. *)
StartWithoutSchedules ==
  /\ ~ up /\ up' = TRUE
  /\ job' = NoJobs
  /\ UNCHANGED <<script, sched, run>>

(* The end of initCDDListener: every enabled schedule is merged as it is, for *)
(* its handler to add the job.  Running is set to false on nodes that are    *)
(* never merged, so it stays as it was.                                      *)
Start ==
  /\ ~ up /\ up' = TRUE
  /\ \A s \in Sids : Enabled(s) => sched[s].time # Malformed   \* CommittedTimesParse
  /\ job' = [s \in Sids |-> IF Enabled(s) THEN [time |-> sched[s].time, fired |-> 0] ELSE NoJob]
  /\ UNCHANGED <<script, sched, run>>

Crash ==
  /\ up /\ up' = FALSE
  /\ job' = NoJobs /\ run' = NoRuns
  /\ IF Transactional THEN UNCHANGED <<script, sched>> ELSE script' = Nothing /\ sched' = Nothing

Step(w) == Check(w) \/ Mark(w) \/ Compile(w) \/ Exec(w) \/ End(w) \/ FinishRun(w)

Next ==
  \/ \E s \in Sids : \E c \in Contents : DefineScript(s, c)
  \/ \E S \in SUBSET Sids : RemoveScripts(S)
  \/ \E s \in Sids : \E v \in Schedule : EditSchedule(s, v)
  \/ \E s \in Sids : EditScheduleRefused(s) \/ Expire(s)
  \/ \E s \in Sids, w \in Workers : Fire(s, w) \/ RunScript(w, s)
  \/ \E s \in Sids, w \in Workers : \E c \in Contents : InstantRun(w, s, c)
  \/ \E w \in Workers : Step(w)
  \/ Start \/ Crash

Spec == Init /\ [][Next]_vars

(* A run that was submitted goes on: the pool has a thread for it, the write *)
(* lock is fair, and a script that is run is taken to return.                *)
FairSpec == Spec /\ \A w \in Workers : WF_vars(Step(w))
------------------------------------------------------------------------------
(* Nothing is fired for a script whose schedule was cancelled, changed or    *)
(* removed with it: a job has the time of the stored, enabled schedule       *)
(* (deleted and modified of niss.scripts against editSchedule, removeScript  *)
(* and the rollback of a refused time).                                      *)
JobFollowsSchedule ==
  \A s \in Sids : HasJob(s) => Enabled(s) /\ sched[s].time = job[s].time

(* A stored schedule that is enabled has its job, unless it matched as often *)
(* as it may or the last edit of it was refused, also after a restart.       *)
EnabledHasJob ==
  up => \A s \in Sids : Enabled(s) => HasJob(s) \/ job[s] \in {Spent, Rejected}

(* What a store with rollback keeps can be started with: the merge of an     *)
(* enabled schedule never throws at the start (initCDDListener, line 472),   *)
(* which would lose the jobs of all scripts.                                 *)
CommittedTimesParse ==
  Transactional => \A s \in Sids : Enabled(s) => sched[s].time \in Times

Running(s) == script[s] # Absent /\ script[s].running

(* A scheduled run past its check and before it cleared the flag. *)
InFlight(w, s) ==
  Scheduled(w) /\ run[w].sid = s /\ run[w].at \in {"mark", "compile", "exec"}

Stuck(s) == Running(s) /\ \A w \in Workers : ~ InFlight(w, s)

(* A flag no run will clear is final: no schedule, new definition or restart *)
(* gets the script going again, only its removal does (the check of a run,   *)
(* the merges that keep running, and the start that does not clear it).      *)
StuckForGood == [][\A s \in Sids : Stuck(s) => Stuck(s)' \/ script'[s] = Absent]_vars

(* A run of a sound script clears the flag, whatever is edited, removed or   *)
(* run meanwhile, unless the process dies (onSuccess and onFail).            *)
SoundRunClearsFlag ==
  \A w \in Workers, s \in Sids :
    (InFlight(w, s) /\ run[w].content \in Sound) ~> (~ Running(s) \/ ~ up)

(* The flag keeps the scheduled runs of one script apart (line 384).         *)
OneRunAtATime ==
  \A s \in Sids, v, w \in Workers :
    v # w => ~ (InFlight(v, s) /\ InFlight(w, s) /\ {run[v].at, run[w].at} \subseteq {"compile", "exec"})
==============================================================================
