------------------------ MODULE ScriptScheduleProofs ------------------------
(* What ScriptSchedule promises for any scripts, times and workers.          *)
EXTENDS ScriptSchedule, TLAPS

LEMMA StoredType == TypeOK => \A s \in Sids : Stored(s) \in Script
  BY DEF TypeOK, Stored, Bare, Script

LEMMA TypeInit == Init => TypeOK
  BY DEF Init, TypeOK, Nothing, NoJobs, NoRuns

(* The three merges leave a map of scripts. *)
LEMMA MergeType ==
  ASSUME TypeOK, NEW s \in Sids
  PROVE  /\ \A c \in Contents : MergeContent(s, c) => script' \in [Sids -> Script \cup {Absent}]
         /\ \A b \in BOOLEAN : MergeRunning(s, b) => script' \in [Sids -> Script \cup {Absent}]
         /\ MergeBelow(s) => script' \in [Sids -> Script \cup {Absent}]
<1>1. Stored(s) \in Script  BY StoredType
<1> QED  BY <1>1 DEF TypeOK, MergeContent, MergeRunning, MergeBelow, Script

LEMMA RequestsType ==
  ASSUME TypeOK
  PROVE  /\ \A s \in Sids : \A c \in Contents : DefineScript(s, c) => TypeOK'
         /\ \A S \in SUBSET Sids : RemoveScripts(S) => TypeOK'
         /\ \A s \in Sids : \A v \in Schedule : EditSchedule(s, v) => TypeOK'
         /\ \A s \in Sids : EditScheduleRefused(s) => TypeOK'
<1>1. \A s \in Sids : \A c \in Contents : DefineScript(s, c) => TypeOK'
  BY MergeType DEF DefineScript, TypeOK
<1>2. \A S \in SUBSET Sids : RemoveScripts(S) => TypeOK'
  BY DEF RemoveScripts, TypeOK
<1>3. ASSUME NEW s \in Sids, NEW v \in Schedule, EditSchedule(s, v)  PROVE TypeOK'
  <2>1. job' \in [Sids -> Job \cup {NoJob, Spent, Rejected}]
    BY <1>3 DEF EditSchedule, Reschedule, TypeOK, Job, Schedule
  <2>2. script' \in [Sids -> Script \cup {Absent}] /\ sched' \in [Sids -> Schedule \cup {Absent}]
    BY <1>3, MergeType DEF EditSchedule, SetSchedule, TypeOK
  <2> QED  BY <1>3, <2>1, <2>2 DEF EditSchedule, TypeOK
<1>4. ASSUME NEW s \in Sids, EditScheduleRefused(s)  PROVE TypeOK'
  <2> DEFINE refused == [enable |-> TRUE, time |-> Malformed]
  <2>1. refused \in Schedule
    BY DEF Schedule
  <2>2. CASE Transactional
    BY <1>4, <2>2 DEF EditScheduleRefused, TypeOK
  <2>3. CASE ~ Transactional
    BY <1>4, <2>1, <2>3, MergeType DEF EditScheduleRefused, SetSchedule, TypeOK
  <2> QED  BY <2>2, <2>3
<1> QED  BY <1>1, <1>2, <1>3, <1>4

LEMMA SchedulerType ==
  ASSUME TypeOK, NEW s \in Sids
  PROVE  /\ \A w \in Workers : Fire(s, w) => TypeOK'
         /\ Expire(s) => TypeOK'
<1>1. HasJob(s) => Matched(job[s]) \in Job
  BY LimitOfTimes DEF HasJob, Matched, Job
<1>2. ASSUME NEW w \in Workers, Fire(s, w)  PROVE TypeOK'
  <2>1. run' \in [Workers -> Run \cup {Idle}]
    BY <1>2 DEF Fire, TypeOK, Run
  <2>2. job' \in [Sids -> Job \cup {NoJob, Spent, Rejected}]
    BY <1>1, <1>2 DEF Fire, TypeOK
  <2> QED  BY <1>2, <2>1, <2>2 DEF Fire, TypeOK
<1>3. Expire(s) => TypeOK'
  BY DEF Expire, TypeOK
<1> QED  BY <1>2, <1>3

(* A run that goes on stays a run of the same script and kind. *)
LEMMA RunStays ==
  ASSUME TypeOK, NEW w \in Workers, run[w] # Idle
  PROVE  /\ run[w] \in Run /\ run[w].sid \in Sids
         /\ \A at \in {"check", "mark", "compile", "exec", "log"} :
              GoTo(w, at) => run' \in [Workers -> Run \cup {Idle}]
         /\ Leave(w) => run' \in [Workers -> Run \cup {Idle}]
<1>1. run[w] \in Run  BY DEF TypeOK
<1> QED  BY <1>1 DEF TypeOK, Run, GoTo, Leave

LEMMA RunsType ==
  ASSUME TypeOK, NEW w \in Workers
  PROVE  /\ Step(w) => TypeOK'
         /\ \A s \in Sids : RunScript(w, s) => TypeOK'
         /\ \A s \in Sids : \A c \in Contents : InstantRun(w, s, c) => TypeOK'
<1>1. ASSUME Check(w)  PROVE TypeOK'
  <2>1. run[w] \in Run /\ Stored(run[w].sid) \in Script
    BY <1>1, RunStays, StoredType DEF Check, At
  <2>2. run' \in [Workers -> Run \cup {Idle}]
    BY <1>1, <2>1, RunStays DEF Check, At, TypeOK, Run, Script
  <2> QED  BY <1>1, <2>2 DEF Check, TypeOK
<1>2. ASSUME Mark(w)  PROVE TypeOK'
  BY <1>2, RunStays, MergeType DEF Mark, At, TypeOK
<1>3. ASSUME Compile(w)  PROVE TypeOK'
  <2>1. run' \in [Workers -> Run \cup {Idle}]
    BY <1>3, RunStays DEF Compile, At
  <2> QED  BY <1>3, <2>1 DEF Compile, TypeOK
<1>4. ASSUME Exec(w)  PROVE TypeOK'
  <2>1. run' \in [Workers -> Run \cup {Idle}]
    BY <1>4, RunStays DEF Exec, At
  <2>2. script' \in [Sids -> Script \cup {Absent}]
    BY <1>4, RunStays, MergeType DEF Exec, At, TypeOK
  <2> QED  BY <1>4, <2>1, <2>2 DEF Exec, TypeOK
<1>5. ASSUME End(w)  PROVE TypeOK'
  BY <1>5, RunStays, MergeType DEF End, At, TypeOK
<1>6. ASSUME FinishRun(w)  PROVE TypeOK'
  <2>1. script' \in [Sids -> Script \cup {Absent}]
    BY <1>6, RunStays, MergeType DEF FinishRun, At, TypeOK
  <2> QED  BY <1>6, <2>1, RunStays DEF FinishRun, At, TypeOK
<1>7. \A s \in Sids : \A c \in Contents \cup {NoContent} : \A k \in {"run", "instant"} :
        StartRun(w, s, k, c) => TypeOK'
  BY DEF StartRun, TypeOK, Run
<1>8. \A s \in Sids : RunScript(w, s) => TypeOK'
  BY <1>7, StoredType DEF RunScript, Script
<1>9. \A s \in Sids : \A c \in Contents : InstantRun(w, s, c) => TypeOK'
  BY <1>7 DEF InstantRun
<1> QED  BY <1>1, <1>2, <1>3, <1>4, <1>5, <1>6, <1>8, <1>9 DEF Step

LEMMA ProcessType ==
  ASSUME TypeOK
  PROVE  /\ Start => TypeOK'
         /\ Crash => TypeOK'
<1>1. ASSUME Start  PROVE TypeOK'
  <2>1. \A s \in Sids : Enabled(s) => sched[s].time \in Times
    BY <1>1 DEF Start, Enabled, TypeOK, Schedule
  <2>2. job' \in [Sids -> Job \cup {NoJob, Spent, Rejected}]
    BY <1>1, <2>1 DEF Start, Job
  <2> QED  BY <1>1, <2>2 DEF Start, TypeOK
<1>2. Crash => TypeOK'
  BY DEF Crash, TypeOK, Nothing, NoJobs, NoRuns
<1> QED  BY <1>1, <1>2

LEMMA TypeStep == TypeOK /\ [Next]_vars => TypeOK'
<1> SUFFICES ASSUME TypeOK, [Next]_vars  PROVE TypeOK'
  OBVIOUS
<1>1. CASE UNCHANGED vars  BY <1>1 DEF vars, TypeOK
<1> QED  BY <1>1, RequestsType, SchedulerType, RunsType, ProcessType DEF Next

(* Only values of the expected kind are ever in a variable.                  *)
THEOREM TypeCorrect == Spec => []TypeOK
  BY TypeInit, TypeStep, PTL DEF Spec
------------------------------------------------------------------------------
(* The jobs against the stored schedules.  No step touches one of the two    *)
(* without the other, but for the refused edit and the scheduler itself,     *)
(* which only take jobs away.                                                *)
JobInv == JobFollowsSchedule /\ EnabledHasJob

LEMMA JobRequests ==
  ASSUME TypeOK, JobInv
  PROVE  /\ \A s \in Sids : \A c \in Contents : DefineScript(s, c) => JobInv'
         /\ \A S \in SUBSET Sids : RemoveScripts(S) => JobInv'
         /\ \A s \in Sids : \A v \in Schedule : EditSchedule(s, v) => JobInv'
         /\ \A s \in Sids : EditScheduleRefused(s) => JobInv'
<1> USE NoJobIsNone DEF JobInv, JobFollowsSchedule, EnabledHasJob, HasJob, Enabled
<1>1. \A s \in Sids : \A c \in Contents : DefineScript(s, c) => JobInv'
  BY DEF DefineScript
<1>2. \A S \in SUBSET Sids : RemoveScripts(S) => JobInv'
  BY DEF RemoveScripts
<1>3. ASSUME NEW s \in Sids, NEW v \in Schedule, EditSchedule(s, v)  PROVE JobInv'
  <2>1. \A t \in Sids \ {s} : job'[t] = job[t] /\ sched'[t] = sched[t]
    BY <1>3 DEF EditSchedule, Reschedule, SetSchedule, TypeOK
  <2>2. sched'[s] = v
    BY <1>3 DEF EditSchedule, SetSchedule, TypeOK
  <2>3. CASE v.enable
    <3>1. job'[s] = [time |-> v.time, fired |-> 0] /\ v.time \in Times
      BY <1>3, <2>3 DEF EditSchedule, Reschedule, TypeOK, Schedule
    <3>2. job'[s] \in Job /\ job'[s].time = v.time
      BY <3>1 DEF Job
    <3>3. v # Absent
      BY NoNodeIsAbsent
    <3> QED  BY <1>3, <2>1, <2>2, <2>3, <3>2, <3>3 DEF EditSchedule
  <2>4. CASE ~ v.enable
    <3>1. job'[s] = NoJob
      BY <1>3, <2>4 DEF EditSchedule, Reschedule, TypeOK
    <3> QED  BY <1>3, <2>1, <2>2, <2>4, <3>1 DEF EditSchedule
  <2> QED  BY <2>3, <2>4
<1>4. ASSUME NEW s \in Sids, EditScheduleRefused(s)  PROVE JobInv'
  <2>1. \A t \in Sids \ {s} : job'[t] = job[t] /\ sched'[t] = sched[t]
    BY <1>4 DEF EditScheduleRefused, SetSchedule, TypeOK
  <2>2. job'[s] = Rejected
    BY <1>4 DEF EditScheduleRefused, TypeOK
  <2> QED  BY <1>4, <2>1, <2>2 DEF EditScheduleRefused
<1> QED  BY <1>1, <1>2, <1>3, <1>4

LEMMA JobScheduler ==
  ASSUME TypeOK, JobInv, NEW s \in Sids
  PROVE  /\ \A w \in Workers : Fire(s, w) => JobInv'
         /\ Expire(s) => JobInv'
<1> USE NoJobIsNone DEF JobInv, JobFollowsSchedule, EnabledHasJob, HasJob, Enabled
<1>1. HasJob(s) => Matched(job[s]) \in Job /\ Matched(job[s]).time = job[s].time
  BY LimitOfTimes DEF Matched, Job
<1>2. ASSUME NEW w \in Workers, Fire(s, w)  PROVE JobInv'
  <2>1. \A t \in Sids \ {s} : job'[t] = job[t]
    BY <1>2 DEF Fire, TypeOK
  <2>2. job'[s] = Spent \/ job'[s] = Matched(job[s])
    BY <1>2 DEF Fire, TypeOK
  <2>3. sched' = sched /\ up' = up
    BY <1>2 DEF Fire
  <2> QED  BY <1>1, <1>2, <2>1, <2>2, <2>3 DEF Fire
<1>3. Expire(s) => JobInv'
  BY DEF Expire, TypeOK
<1> QED  BY <1>2, <1>3

LEMMA JobProcess ==
  ASSUME TypeOK, JobInv
  PROVE  /\ Start => JobInv'
         /\ Crash => JobInv'
<1> USE NoJobIsNone DEF JobInv, JobFollowsSchedule, EnabledHasJob, HasJob, Enabled
<1>1. ASSUME Start  PROVE JobInv'
  <2>1. \A s \in Sids : Enabled(s) => [time |-> sched[s].time, fired |-> 0] \in Job
    BY <1>1 DEF Start, TypeOK, Schedule, Job
  <2> QED  BY <1>1, <2>1 DEF Start
<1>2. Crash => JobInv'
  BY DEF Crash, NoJobs
<1> QED  BY <1>1, <1>2

LEMMA JobInit == Init => JobInv
  BY NoJobIsNone DEF Init, JobInv, JobFollowsSchedule, EnabledHasJob, HasJob, NoJobs

LEMMA JobStep == TypeOK /\ JobInv /\ [Next]_vars => JobInv'
<1> SUFFICES ASSUME TypeOK, JobInv, [Next]_vars  PROVE JobInv'
  OBVIOUS
<1>1. UNCHANGED <<up, sched, job>> => JobInv'
  BY DEF JobInv, JobFollowsSchedule, EnabledHasJob, HasJob, Enabled
<1>2. CASE UNCHANGED vars
  BY <1>1, <1>2 DEF vars
<1>3. \A w \in Workers : Step(w) => UNCHANGED <<up, sched, job>>
  BY DEF Step, Check, Mark, Compile, Exec, End, FinishRun
<1>4. \A w \in Workers, s \in Sids : RunScript(w, s) => UNCHANGED <<up, sched, job>>
  BY DEF RunScript, StartRun
<1>5. \A w \in Workers, s \in Sids, c \in Contents : InstantRun(w, s, c) => UNCHANGED <<up, sched, job>>
  BY DEF InstantRun, StartRun
<1> QED  BY <1>1, <1>2, <1>3, <1>4, <1>5, JobRequests, JobScheduler, JobProcess DEF Next

(* A job always has the time of the stored and enabled schedule of its       *)
(* script: nothing cancelled, changed or removed is fired again.             *)
THEOREM NothingCancelledFires == Spec => []JobFollowsSchedule
<1>1. Init => TypeOK /\ JobInv
  BY TypeInit, JobInit
<1>2. TypeOK /\ JobInv /\ [Next]_vars => (TypeOK /\ JobInv)'
  BY TypeStep, JobStep
<1>3. JobInv => JobFollowsSchedule
  BY DEF JobInv
<1> QED  BY <1>1, <1>2, <1>3, PTL DEF Spec

(* An enabled schedule has its job in a running server, unless it is spent   *)
(* or its last edit was refused.                                             *)
THEOREM EnabledIsScheduled == Spec => []EnabledHasJob
<1>1. Init => TypeOK /\ JobInv
  BY TypeInit, JobInit
<1>2. TypeOK /\ JobInv /\ [Next]_vars => (TypeOK /\ JobInv)'
  BY TypeStep, JobStep
<1>3. JobInv => EnabledHasJob
  BY DEF JobInv
<1> QED  BY <1>1, <1>2, <1>3, PTL DEF Spec
------------------------------------------------------------------------------
(* The flag nobody clears.                                                   *)

LEMMA StuckRuns ==
  ASSUME TypeOK, NEW s \in Sids, Stuck(s), NEW w \in Workers, Step(w)
  PROVE  Stuck(s)'
<1> USE NoNodeIsAbsent DEF At, Scheduled, InFlight
<1>1. run[w] \in Run /\ run[w].sid \in Sids /\ run[w] # Idle
  BY RunStays DEF Step, Check, Mark, Compile, Exec, End, FinishRun
<1>2. script[s] \in Script /\ script[s].running /\ Stored(s) = script[s]
  BY DEF Stuck, Running, TypeOK, Stored
<1>3. ~ InFlight(w, s)
  BY DEF Stuck
<1>4. \A v \in Workers \ {w} : run'[v] = run[v]
  BY DEF Step, Check, Mark, Compile, Exec, End, FinishRun, GoTo, Leave, TypeOK
<1>5. Running(s)'
  <2>1. CASE run[w].sid # s
    BY <1>1, <1>2, <2>1 DEF Step, Check, Mark, Compile, Exec, End, FinishRun,
       MergeRunning, MergeBelow, Running, TypeOK
  <2>2. CASE run[w].sid = s
    <3>1. ~ Exec(w)
      BY <1>3, <2>2 DEF Exec
    <3>2. script' = script \/ MergeBelow(s) \/ MergeRunning(s, TRUE)
      BY <2>2, <3>1 DEF Step, Check, Mark, Compile, End, FinishRun
    <3>3. script'[s] = script[s] \/ script'[s] = [script[s] EXCEPT !.running = TRUE]
      BY <1>2, <3>2 DEF MergeBelow, MergeRunning, TypeOK
    <3> QED  BY <1>2, <3>3 DEF Running, Script
  <2> QED  BY <2>1, <2>2
<1>6. ~ InFlight(w, s)'
  <2>1. run'[w] = Idle \/ (run'[w].sid = run[w].sid /\ run'[w].kind = run[w].kind)
    <3>1. ASSUME Check(w), ~ Leave(w)
          PROVE  run'[w].sid = run[w].sid /\ run'[w].kind = run[w].kind
      <4>1. PICK c : run'[w] = [run[w] EXCEPT !.at = "mark", !.content = c]
        BY <3>1 DEF Check, TypeOK
      <4> QED  BY <1>1, <4>1 DEF Run
    <3>2. \A at \in {"mark", "compile", "exec", "log"} :
            GoTo(w, at) => run'[w].sid = run[w].sid /\ run'[w].kind = run[w].kind
      BY <1>1 DEF GoTo, TypeOK, Run
    <3>3. Leave(w) => run'[w] = Idle
      BY DEF Leave, TypeOK
    <3>4. Check(w) \/ Leave(w) \/ (\E at \in {"mark", "compile", "exec", "log"} : GoTo(w, at))
      BY DEF Step, Mark, Compile, Exec, End, FinishRun
    <3> QED  BY <3>1, <3>2, <3>3, <3>4
  <2>2. CASE run[w].sid # s
    BY <2>1, <2>2
  <2>3. CASE run[w].kind # "schedule"
    BY <2>1, <2>3
  <2>4. CASE run[w].sid = s /\ run[w].kind = "schedule"
    <3>1. ~ Mark(w) /\ ~ Exec(w) /\ ~ Compile(w) /\ ~ FinishRun(w)
      BY <1>3, <2>4 DEF Mark, Exec, Compile, FinishRun
    <3>2. Leave(w)
      BY <1>2, <2>4, <3>1 DEF Step, Check, End
    <3> QED  BY <3>2 DEF Leave, TypeOK
  <2> QED  BY <2>2, <2>3, <2>4
<1> QED  BY <1>4, <1>5, <1>6 DEF Stuck

LEMMA StuckRequests ==
  ASSUME TypeOK, NEW s \in Sids, Stuck(s), Next, \A w \in Workers : ~ Step(w)
  PROVE  Stuck(s)' \/ script'[s] = Absent
<1> USE NoNodeIsAbsent
<1>1. script[s] \in Script /\ script[s].running /\ Stored(s) = script[s]
  BY DEF Stuck, Running, TypeOK, Stored
<1>2. Running(s)' \/ script'[s] = Absent
  <2>1. \A t \in Sids : MergeBelow(t) => Running(s)'
    BY <1>1 DEF MergeBelow, Running, TypeOK
  <2>2. \A t \in Sids : \A c \in Contents : DefineScript(t, c) => Running(s)'
    <3> SUFFICES ASSUME NEW t \in Sids, NEW c \in Contents, DefineScript(t, c)
                 PROVE  Running(s)'
      OBVIOUS
    <3>1. script'[s] = script[s] \/ script'[s] = [script[s] EXCEPT !.content = c]
      BY <1>1 DEF DefineScript, MergeContent, TypeOK
    <3>2. script'[s] \in Script /\ script'[s].running
      BY <1>1, <3>1 DEF Script
    <3> QED  BY <3>2 DEF Running
  <2>3. \A S \in SUBSET Sids : RemoveScripts(S) => Running(s)' \/ script'[s] = Absent
    BY <1>1 DEF RemoveScripts, Running
  <2>4. \A t \in Sids : \A v \in Schedule : EditSchedule(t, v) => MergeBelow(t)
    BY DEF EditSchedule, SetSchedule
  <2>5. \A t \in Sids : EditScheduleRefused(t) => MergeBelow(t) \/ script' = script
    BY DEF EditScheduleRefused, SetSchedule
  <2>6. \A t \in Sids : Expire(t) => script' = script
    BY DEF Expire
  <2>7. \A t \in Sids, w \in Workers : Fire(t, w) \/ RunScript(w, t) => script' = script
    BY DEF Fire, RunScript, StartRun
  <2>8. \A t \in Sids, w \in Workers, c \in Contents : InstantRun(w, t, c) => script' = script
    BY DEF InstantRun, StartRun
  <2>9. Start \/ Crash => script' = script \/ script'[s] = Absent
    BY DEF Start, Crash, Nothing
  <2>10. script' = script => Running(s)'
    BY <1>1 DEF Running
  <2> QED  BY <2>1, <2>2, <2>3, <2>4, <2>5, <2>6, <2>7, <2>8, <2>9, <2>10 DEF Next
<1>3. \A w \in Workers : ~ InFlight(w, s)'
  <2>1. \A w \in Workers : ~ InFlight(w, s)
    BY DEF Stuck
  <2>2. run' = run => \A w \in Workers : ~ InFlight(w, s)'
    BY <2>1 DEF InFlight, Scheduled
  <2>3. ASSUME NEW w \in Workers, NEW r,
               run' = [run EXCEPT ![w] = r], r.kind # "schedule" \/ r.at = "check"
        PROVE  \A v \in Workers : ~ InFlight(v, s)'
    BY <2>1, <2>3 DEF InFlight, Scheduled, TypeOK
  <2>4. \A t \in Sids, w \in Workers : Fire(t, w) \/ RunScript(w, t)
          => \A v \in Workers : ~ InFlight(v, s)'
    BY <2>3 DEF Fire, RunScript, StartRun
  <2>5. \A t \in Sids, w \in Workers, c \in Contents : InstantRun(w, t, c)
          => \A v \in Workers : ~ InFlight(v, s)'
    BY <2>3 DEF InstantRun, StartRun
  <2>6. Crash => \A v \in Workers : ~ InFlight(v, s)'
    BY DEF Crash, NoRuns, InFlight, Scheduled
  <2>7. \A t \in Sids : \A c \in Contents : DefineScript(t, c) => run' = run
    BY DEF DefineScript
  <2>8. \A S \in SUBSET Sids : RemoveScripts(S) => run' = run
    BY DEF RemoveScripts
  <2>9. \A t \in Sids : (\E v \in Schedule : EditSchedule(t, v)) \/ EditScheduleRefused(t) \/ Expire(t)
          => run' = run
    BY DEF EditSchedule, EditScheduleRefused, Expire
  <2>10. Start => run' = run
    BY DEF Start
  <2> QED  BY <2>2, <2>4, <2>5, <2>6, <2>7, <2>8, <2>9, <2>10 DEF Next
<1> QED  BY <1>2, <1>3 DEF Stuck

(* Once a script is flagged as running and no run of it will clear the flag, *)
(* it stays so through every run, edit, crash and start, until it is removed. *)
THEOREM FlagIsFinal == Spec => StuckForGood
<1>1. TypeOK /\ [Next]_vars
      => [\A s \in Sids : Stuck(s) => Stuck(s)' \/ script'[s] = Absent]_vars
  <2> SUFFICES ASSUME TypeOK, Next, NEW s \in Sids, Stuck(s)
               PROVE  Stuck(s)' \/ script'[s] = Absent
    OBVIOUS
  <2>1. CASE \E w \in Workers : Step(w)
    BY <2>1, StuckRuns
  <2>2. CASE \A w \in Workers : ~ Step(w)
    BY <2>2, StuckRequests
  <2> QED  BY <2>1, <2>2
<1> QED  BY <1>1, TypeCorrect, PTL DEF Spec, StuckForGood
------------------------------------------------------------------------------
(* What is committed parses. *)

LEMMA ParseInit == Init => CommittedTimesParse
  BY DEF Init, CommittedTimesParse, Enabled, Nothing

LEMMA ParseStep == TypeOK /\ CommittedTimesParse /\ [Next]_vars => CommittedTimesParse'
<1> SUFFICES ASSUME TypeOK, CommittedTimesParse, [Next]_vars, Transactional
             PROVE  \A s \in Sids : Enabled(s)' => sched'[s].time \in Times
  BY DEF CommittedTimesParse
<1>1. sched' = sched => \A s \in Sids : Enabled(s)' => sched'[s].time \in Times
  BY DEF CommittedTimesParse, Enabled
<1>2. \A S \in SUBSET Sids : RemoveScripts(S)
        => \A s \in Sids : Enabled(s)' => sched'[s].time \in Times
  BY DEF RemoveScripts, CommittedTimesParse, Enabled
<1>3. \A t \in Sids : \A v \in Schedule : EditSchedule(t, v)
        => \A s \in Sids : Enabled(s)' => sched'[s].time \in Times
  BY DEF EditSchedule, SetSchedule, CommittedTimesParse, Enabled, TypeOK, Schedule
<1>4. \A t \in Sids : EditScheduleRefused(t) \/ Expire(t) => sched' = sched
  BY DEF EditScheduleRefused, Expire
<1>5. \A t \in Sids : \A c \in Contents : DefineScript(t, c) => sched' = sched
  BY DEF DefineScript
<1>6. \A t \in Sids, w \in Workers : Fire(t, w) \/ RunScript(w, t) => sched' = sched
  BY DEF Fire, RunScript, StartRun
<1>7. \A t \in Sids, w \in Workers : \A c \in Contents : InstantRun(w, t, c) => sched' = sched
  BY DEF InstantRun, StartRun
<1>8. \A w \in Workers : Step(w) => sched' = sched
  BY DEF Step, Check, Mark, Compile, Exec, End, FinishRun
<1>9. Start \/ Crash => sched' = sched
  BY DEF Start, Crash
<1>10. UNCHANGED vars => sched' = sched
  BY DEF vars
<1> QED  BY <1>1, <1>2, <1>3, <1>4, <1>5, <1>6, <1>7, <1>8, <1>9, <1>10 DEF Next

(* On the store that rolls back, no malformed time is ever committed as      *)
(* enabled, so the start never throws while it registers the jobs.           *)
THEOREM StartRegistersAll == Spec => []CommittedTimesParse
<1>1. Init => TypeOK /\ CommittedTimesParse
  BY TypeInit, ParseInit
<1>2. TypeOK /\ CommittedTimesParse /\ [Next]_vars => (TypeOK /\ CommittedTimesParse)'
  BY TypeStep, ParseStep
<1> QED  BY <1>1, <1>2, PTL DEF Spec
==============================================================================
