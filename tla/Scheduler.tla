----------------------------- MODULE Scheduler -----------------------------
(***************************************************************************)
(* conformance/harness/scheduler.go: scheduleJobs, the bounded worker pool *)
(* Execute runs its jobs through.  A launched job is a goroutine that      *)
(* sends one result on a channel; the loop launches while it may, then     *)
(* receives.  With FailFast the first failure received stops launching and *)
(* cancels the context every job shares.                                   *)
(*                                                                         *)
(* Jobs are the indexes 1..NJobs of the job list.  What a job does is left *)
(* open here: it ends some time, failed or not (Harness details one job).  *)
(***************************************************************************)
EXTENDS Integers, Sequences, FiniteSets

CONSTANTS
  NJobs,       \* length of the job list
  Settings     \* configurations: [max, failFast]

ASSUME SchedulerAssumption ==
  /\ NJobs \in Nat
  /\ Settings \subseteq [max : Int, failFast : BOOLEAN]

VARIABLES
  cfg,
  next,           \* the job launched next
  running,        \* launched jobs whose result has not been received
  stopLaunching,
  cancelled,      \* workCtx is done: FailFast, or the caller's deadline
  active,         \* jobs whose goroutine still executes
  resultsCh,      \* results sent and not received
  results,        \* results received, in the order of arrival
  phase,          \* "loop", then "returned"
  report          \* what Execute returns

schedVars ==
  <<cfg, next, running, stopLaunching, cancelled, active, resultsCh, results,
    report, phase>>

Jobs == 1..NJobs
Result == [index : Jobs, failed : BOOLEAN]

\* MaxParallelRuns as scheduleJobs uses it.
MaxParallelRuns == IF cfg.max <= 0 THEN 1 ELSE cfg.max

SchedInit ==
  /\ cfg \in Settings
  /\ next = 1
  /\ running = 0
  /\ stopLaunching = FALSE
  /\ cancelled = FALSE
  /\ active = {}
  /\ resultsCh = <<>>
  /\ results = <<>>
  /\ report = <<>>
  /\ phase = "loop"

-----------------------------------------------------------------------------

\* The condition of the inner loop.
CanLaunch ==
  /\ ~stopLaunching
  /\ next <= NJobs
  /\ running < MaxParallelRuns

\* startJob(next); next++
StartJob ==
  /\ phase = "loop"
  /\ CanLaunch
  /\ active' = active \cup {next}
  /\ running' = running + 1
  /\ next' = next + 1
  /\ UNCHANGED <<cfg, stopLaunching, cancelled, resultsCh, results, report, phase>>

\* exec returned in the goroutine of job j; the channel has room for all jobs.
JobDone(j, failed) ==
  /\ j \in active
  /\ active' = active \ {j}
  /\ resultsCh' = Append(resultsCh, [index |-> j, failed |-> failed])
  /\ UNCHANGED <<cfg, next, running, stopLaunching, cancelled, results, report, phase>>

\* Mutant: a failure under FailFast leaves the loop without its result.
Receive_DropsFailure ==
  /\ phase = "loop"
  /\ ~CanLaunch
  /\ running # 0
  /\ resultsCh # <<>>
  /\ LET stop == cfg.failFast /\ Head(resultsCh).failed
     IN /\ results' = IF stop THEN results ELSE Append(results, Head(resultsCh))
        /\ stopLaunching' = (stopLaunching \/ stop)
        /\ cancelled' = (cancelled \/ stop)
  /\ resultsCh' = Tail(resultsCh)
  /\ running' = running - 1
  /\ UNCHANGED <<cfg, next, active, report, phase>>

\* result := <-resultsCh and what follows it in the loop.
Receive ==
  /\ phase = "loop"
  /\ ~CanLaunch
  /\ running # 0
  /\ resultsCh # <<>>
  /\ LET stop == cfg.failFast /\ Head(resultsCh).failed
     IN /\ stopLaunching' = (stopLaunching \/ stop)
        /\ cancelled' = (cancelled \/ stop)
  /\ results' = Append(results, Head(resultsCh))
  /\ resultsCh' = Tail(resultsCh)
  /\ running' = running - 1
  /\ UNCHANGED <<cfg, next, active, report, phase>>

\* sort.Slice by index: the results rearranged so that their indexes ascend.
Ordered(rs) ==
  LET place == CHOOSE p \in [DOMAIN rs -> DOMAIN rs] :
        /\ \A i \in DOMAIN rs : \E k \in DOMAIN rs : p[k] = i
        /\ \A i, k \in DOMAIN rs : i < k => rs[p[i]].index <= rs[p[k]].index
  IN [i \in DOMAIN rs |-> rs[place[i]]]

\* The loop ends; what the channel still holds is drained, the results are
\* sorted, the deferred cancel runs and Execute builds the report.
Return ==
  /\ phase = "loop"
  /\ ~CanLaunch
  /\ running = 0
  /\ phase' = "returned"
  /\ cancelled' = TRUE
  /\ report' = Ordered(results \o resultsCh)
  /\ UNCHANGED <<cfg, next, running, stopLaunching, active, resultsCh, results>>

\* The deadline of the context Execute was called with passes.
Expire ==
  /\ phase = "loop"
  /\ ~cancelled
  /\ cancelled' = TRUE
  /\ UNCHANGED <<cfg, next, running, stopLaunching, active, resultsCh, results, report, phase>>

SchedNext ==
  \/ StartJob
  \/ Receive
  \/ Return
  \/ Expire
  \/ \E j \in Jobs, failed \in BOOLEAN : JobDone(j, failed)

SchedSpec == SchedInit /\ [][SchedNext]_schedVars

-----------------------------------------------------------------------------

SchedTypeOK ==
  /\ cfg \in Settings
  /\ next \in 1..(NJobs + 1)
  /\ running \in Nat
  /\ stopLaunching \in BOOLEAN
  /\ cancelled \in BOOLEAN
  /\ active \in SUBSET Jobs
  /\ resultsCh \in Seq(Result)
  /\ results \in Seq(Result)
  /\ phase \in {"loop", "returned"}

Indexes(rs) == {rs[i].index : i \in DOMAIN rs}
Distinct(rs) == \A a, b \in DOMAIN rs : rs[a].index = rs[b].index => a = b

\* scheduleJobs neither loses nor repeats a job, whatever order the goroutines
\* end in: every launched job is either executing, or has exactly one result,
\* on its way or received.
JobsAccounted ==
  /\ active \cup Indexes(resultsCh) \cup Indexes(results) = 1..(next - 1)
  /\ active \cap (Indexes(resultsCh) \cup Indexes(results)) = {}
  /\ Indexes(resultsCh) \cap Indexes(results) = {}
  /\ Distinct(resultsCh)
  /\ Distinct(results)

\* At most MaxParallelRuns jobs execute at a time, and `running` counts the
\* goroutines and their unreceived results.
ParallelBound ==
  /\ Cardinality(active) <= MaxParallelRuns
  /\ running = Cardinality(active) + Len(resultsCh)

\* The pool is sound: no job is lost, none counted twice, and none executes
\* beyond the limit.
PoolSound == JobsAccounted /\ ParallelBound

\* The report has the result of job i at place i, and a job is missing from it
\* only because FailFast met a failure, which the report then shows.
ReportComplete ==
  phase = "returned" =>
    /\ \A i \in DOMAIN report : report[i].index = i
    /\ Len(report) = NJobs \/
         (cfg.failFast /\ \E i \in DOMAIN report : report[i].failed)
=============================================================================
