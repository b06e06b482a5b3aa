------------------------------ MODULE Harness ------------------------------
(***************************************************************************)
(* conformance/harness: one job of the pool in detail.  execute.go and     *)
(* job_runner.go drive the job `Focus` through its plan: register the      *)
(* runtime at the example RP, create the plan, and for every module create *)
(* a test, wait until it is ready, register its alias, poll it to its end  *)
(* and visit the front channel while it waits.  The other jobs end as      *)
(* Scheduler lets them; they share only the context with this one.         *)
(*                                                                         *)
(* The conformance suite and the RP are external: their tests move on      *)
(* their own, and each call may be answered, fail, or take effect with its *)
(* answer lost.  A status poll that learns nothing is a stutter.           *)
(***************************************************************************)
EXTENDS Scheduler

CONSTANTS
  Focus,               \* the job that is modelled in detail
  Plans,               \* [modules : Seq(kind), suiteAlias : alias]
  Outcomes,            \* the results the tests of the suite publish
  WaitingMaxRetries,
  MaxRedirects,        \* 10 in executeBrowserVisit
  MaxPeriods           \* bound: how often a test may leave RUNNING unended

ASSUME HarnessAssumption ==
  /\ Focus \in Jobs
  /\ \A p \in Plans :
       /\ p.suiteAlias \in {"job", "suite"}
       /\ p.modules \in Seq({"full_flow", "negative", "discovery"})
  /\ "" \notin Outcomes
  /\ {WaitingMaxRetries, MaxRedirects, MaxPeriods} \subseteq Nat

VARIABLES
  plan,
  runner,      \* the jobRunner of Focus
  timers,      \* deadlines that have passed: "plan", "test", "cleanup"
  tests,       \* the suite: the test instance of module m
  watch,       \* the suite: the waiting period of the test now being polled
  registered,  \* the RP: aliases with a runtime registration
  lost,        \* aliases a failed or unanswered call may have left there
  loose,       \* modules whose test a failed call left to itself
  early        \* modules whose result was read from a test that had not ended

suite == <<tests, watch>>
jobVars == <<plan, runner, timers, tests, watch, registered, lost, loose, early>>
vars == <<schedVars, jobVars>>

Modules == DOMAIN plan.modules
Unwatched == [visited |-> FALSE, period |-> 0, visits |-> 0]

Init ==
  /\ SchedInit
  /\ plan \in Plans
  /\ runner = [pc |-> "idle", module |-> 0, attempts |-> 0, triggerErr |-> FALSE,
               started |-> FALSE, hop |-> 0, aliases |-> {}, failed |-> FALSE]
  /\ timers = {}
  /\ tests = [m \in Modules |-> [status |-> "ABSENT", result |-> ""]]
  /\ watch = Unwatched
  /\ registered = {}
  /\ lost = {}
  /\ loose = {}
  /\ early = {}

-----------------------------------------------------------------------------
(* Contexts, calls and what a test information says *)

\* planCtx, which inherits workCtx; pollCtx, which inherits planCtx.
PlanCtxDone == cancelled \/ "plan" \in timers
PollCtxDone == PlanCtxDone \/ "test" \in timers

\* A call under a context: answered, failed, or carried out with its answer
\* lost.  With a context that is done nothing is sent.
Answers(ctxDone) == IF ctxDone THEN {"error"} ELSE {"ok", "error", "lost"}

TerminalStatuses == {"FINISHED", "INTERRUPTED"}
isTerminalStatus(info) == info.status \in TerminalStatuses
isTestDone(info) == isTerminalStatus(info) \/ info.result # ""

\* Mutant: a test that ended without a result does not fail the plan.
moduleFailed_OnlyFailed(result) == result = "FAILED"
moduleFailed(result) == result \notin {"PASSED", "SUCCESS", "SKIPPED", "WARNING"}

Test == tests[runner.module]
FullFlow == plan.modules[runner.module] # "discovery"
Negative == plan.modules[runner.module] = "negative"

\* effectiveSuiteAlias: the alias the suite reports, or the job's own.
RuntimeAlias == plan.suiteAlias

Goto(pc) == runner' = [runner EXCEPT !.pc = pc]

\* The test result of the module is recorded and the next module begins; the
\* plan has failed when a module has.
EndModule(result) ==
  /\ runner' = [runner EXCEPT
       !.failed = @ \/ moduleFailed(result),
       !.attempts = 0, !.triggerErr = FALSE, !.started = FALSE, !.hop = 0,
       !.pc = IF runner.module = Len(plan.modules) THEN "cleanup" ELSE "create_test",
       !.module = IF runner.module = Len(plan.modules) THEN @ ELSE @ + 1]
  /\ timers' = timers \ {"test", "cleanup"}

\* The poll returns what it read.  The result of a test that is still running
\* is taken all the same, and the test is left to itself.
TakeResult ==
  /\ EndModule(Test.result)
  /\ early' = IF isTerminalStatus(Test) THEN early ELSE early \cup {runner.module}

-----------------------------------------------------------------------------
(* execute: the plan *)

\* newJobRunner; the goroutine of the job starts.
Begin ==
  /\ Focus \in active
  /\ runner.pc = "idle"
  /\ Goto("register")
  /\ UNCHANGED <<schedVars, plan, timers, suite, registered, lost, loose, early>>

\* registerRuntime: when it fails the job ends without a cleanup.
registerRuntime ==
  /\ runner.pc = "register"
  /\ \E answer \in Answers(PlanCtxDone) :
       /\ registered' = IF answer = "error" THEN registered ELSE registered \cup {"job"}
       /\ lost' = IF answer = "lost" THEN lost \cup {"job"} ELSE lost
       /\ runner' = IF answer = "ok"
                    THEN [runner EXCEPT !.pc = "create_plan", !.aliases = {"job"}]
                    ELSE [runner EXCEPT !.pc = "done", !.failed = TRUE]
  /\ UNCHANGED <<schedVars, plan, timers, suite, loose, early>>

\* CreatePlan; a plan without modules after filtering fails.
createPlan ==
  /\ runner.pc = "create_plan"
  /\ \E answer \in Answers(PlanCtxDone) :
       runner' = IF answer = "ok" /\ Modules # {}
                 THEN [runner EXCEPT !.pc = "create_test", !.module = 1]
                 ELSE [runner EXCEPT !.pc = "cleanup", !.failed = TRUE]
  /\ UNCHANGED <<schedVars, plan, timers, suite, registered, lost, loose, early>>

\* The deferred cleanup deletes each alias under a context of its own.
deleteRuntime(a) ==
  /\ runner.pc = "cleanup"
  /\ a \in runner.aliases
  /\ runner' = [runner EXCEPT !.aliases = @ \ {a}]
  /\ \/ registered' = registered \ {a} /\ UNCHANGED lost
     \/ lost' = lost \cup {a} /\ UNCHANGED registered
  /\ UNCHANGED <<schedVars, plan, timers, suite, loose, early>>

\* execute returns its planResult.
EndJob ==
  /\ \/ runner.pc = "done"
     \/ runner.pc = "cleanup" /\ runner.aliases = {}
  /\ JobDone(Focus, runner.failed)
  /\ Goto("ended")
  /\ UNCHANGED <<plan, timers, suite, registered, lost, loose, early>>

-----------------------------------------------------------------------------
(* executeModule: until the test is polled *)

\* CreateTestInstance
createTest ==
  /\ runner.pc = "create_test"
  /\ \E answer \in Answers(PlanCtxDone) :
       /\ tests' = IF answer = "error" THEN tests
                   ELSE [tests EXCEPT ![runner.module].status = "CREATED"]
       /\ IF answer = "ok" THEN Goto("ready") /\ UNCHANGED timers
          ELSE EndModule("FAILED")
       /\ loose' = IF answer = "lost" THEN loose \cup {runner.module} ELSE loose
  /\ watch' = Unwatched
  /\ UNCHANGED <<schedVars, plan, registered, lost, early>>

\* waitForTestReady, one status read.
waitForTestReady ==
  /\ runner.pc = "ready"
  /\ ~PlanCtxDone
  /\ \/ /\ Test.status \in {"WAITING", "RUNNING"} \cup TerminalStatuses
        /\ Goto("register_alias")
     \/ /\ Test.status = "CONFIGURED"
        /\ Goto("ready_start")
  /\ UNCHANGED <<schedVars, plan, timers, suite, registered, lost, loose, early>>

\* waitForTestReady fails: a status read that is not answered, or the context.
\* The test is left to itself.
waitForTestReadyFails ==
  /\ runner.pc \in {"ready", "ready_start"}
  /\ EndModule("FAILED")
  /\ loose' = loose \cup {runner.module}
  /\ UNCHANGED <<schedVars, plan, suite, registered, lost, early>>

\* StartTest: the suite runs a configured test.
StartTest == tests' = IF Test.status = "CONFIGURED"
                      THEN [tests EXCEPT ![runner.module].status = "RUNNING"]
                      ELSE tests

\* waitForTestReady starts a configured test and reads on.
readyStart ==
  /\ runner.pc = "ready_start"
  /\ ~PlanCtxDone
  /\ StartTest
  /\ Goto("ready")
  /\ UNCHANGED <<schedVars, plan, timers, watch, registered, lost, loose, early>>

\* registerRuntimeAlias; on failure the test is left to itself.
registerRuntimeAlias ==
  /\ runner.pc = "register_alias"
  /\ \E answer \in Answers(PollCtxDone) :
       /\ registered' = IF answer = "error" THEN registered
                        ELSE registered \cup {RuntimeAlias}
       /\ IF answer = "ok"
          THEN /\ runner' = [runner EXCEPT !.pc = "poll",
                                           !.aliases = @ \cup {RuntimeAlias}]
               /\ UNCHANGED <<timers, lost, loose>>
          ELSE /\ EndModule("FAILED")
               /\ loose' = loose \cup {runner.module}
               /\ lost' = IF answer = "lost" THEN lost \cup {RuntimeAlias} ELSE lost
  /\ UNCHANGED <<schedVars, plan, suite, early>>

-----------------------------------------------------------------------------
(* pollTestResultWithConfig *)

\* The poll ends with an error; executeModule cancels the test.
PollFailed == runner' = [runner EXCEPT !.pc = "cancel"]

\* Mutant: the loop does not look at its context.
pollCtxDone_Ignored ==
  /\ runner.pc = "poll"
  /\ PollCtxDone
  /\ UNCHANGED vars

\* The loop finds its context done.
pollCtxDone ==
  /\ runner.pc = "poll"
  /\ PollCtxDone
  /\ PollFailed
  /\ UNCHANGED <<schedVars, plan, timers, suite, registered, lost, loose, early>>

\* A status read that is not WAITING clears what is known of earlier visits.
pollOther ==
  /\ runner.pc = "poll"
  /\ ~PollCtxDone
  /\ Test.status # "WAITING"
  /\ IF Test.status = "CONFIGURED" /\ ~runner.started
     THEN Goto("poll_start") /\ UNCHANGED <<timers, early>>
     ELSE IF isTestDone(Test) THEN TakeResult
     ELSE /\ runner' = [runner EXCEPT !.attempts = 0, !.triggerErr = FALSE]
          /\ UNCHANGED <<timers, early>>
  /\ UNCHANGED <<schedVars, plan, suite, registered, lost, loose>>

\* StartTest for a test found configured, once.
pollStart ==
  /\ runner.pc = "poll_start"
  /\ \/ /\ ~PollCtxDone
        /\ StartTest
        /\ runner' = [runner EXCEPT !.pc = "poll", !.started = TRUE,
                                    !.attempts = 0, !.triggerErr = FALSE]
     \/ PollFailed /\ UNCHANGED tests
  /\ UNCHANGED <<schedVars, plan, timers, watch, registered, lost, loose, early>>

\* Mutant: the retry count is compared one too late.
shouldTrigger_OneMore == runner.attempts <= WaitingMaxRetries + 1

\* The first visit of a waiting test, or a retry: the retry interval may have
\* passed by any later poll.
shouldTrigger == runner.attempts <= WaitingMaxRetries

\* A status read that is WAITING and due for a visit; otherwise the visits are
\* used up, and one that failed ends the poll.
pollWaiting ==
  /\ runner.pc = "poll"
  /\ ~PollCtxDone
  /\ Test.status = "WAITING"
  /\ \/ FullFlow /\ shouldTrigger /\ Goto("recheck")
     \/ /\ runner.triggerErr
        /\ runner.attempts >= WaitingMaxRetries + 1
        /\ PollFailed
  /\ UNCHANGED <<schedVars, plan, timers, suite, registered, lost, loose, early>>

\* The second status read: a test that is done is not visited.
recheckDone ==
  /\ runner.pc = "recheck"
  /\ ~PollCtxDone
  /\ isTestDone(Test)
  /\ TakeResult
  /\ UNCHANGED <<schedVars, plan, suite, registered, lost, loose>>

\* Otherwise, or when that read fails, the visit begins.
recheckVisit ==
  /\ runner.pc = "recheck"
  /\ runner' = [runner EXCEPT !.pc = "visit", !.attempts = @ + 1, !.hop = 0]
  /\ watch' = IF Test.status = "WAITING" THEN [watch EXCEPT !.visits = @ + 1] ELSE watch
  /\ UNCHANGED <<schedVars, plan, timers, tests, registered, lost, loose, early>>

\* executeBrowserVisit, one hop that the suite or the RP redirects.
visitRedirect ==
  /\ runner.pc = "visit"
  /\ ~PollCtxDone
  /\ ~isTerminalStatus(Test)
  /\ runner.hop < MaxRedirects - 1
  /\ runner' = [runner EXCEPT !.hop = @ + 1]
  /\ watch' = [watch EXCEPT !.visited = TRUE]
  /\ UNCHANGED <<schedVars, plan, timers, tests, registered, lost, loose, early>>

\* What follows onWaiting: failed tells whether it returned an error.  An
\* error is remembered until a status read that is not WAITING.
AfterVisit(failed) ==
  LET err == runner.triggerErr \/ failed
  IN runner' = [runner EXCEPT
       !.triggerErr = err,
       !.pc = IF err /\ runner.attempts >= WaitingMaxRetries + 1 THEN "cancel" ELSE "poll"]

\* The last response of the visit, a form post and the redirect after it
\* included: a success, or for a negative module an error page of the RP.
visitEnds ==
  /\ runner.pc = "visit"
  /\ ~PollCtxDone
  /\ ~isTerminalStatus(Test)
  /\ AfterVisit(FALSE)
  /\ watch' = [watch EXCEPT !.visited = TRUE]
  /\ UNCHANGED <<schedVars, plan, timers, tests, registered, lost, loose, early>>

\* The visit fails: a request, a browser-visit mark, the redirect limit, the
\* deadline of the visit, an error page in a module that expects none.
visitFails ==
  /\ runner.pc = "visit"
  /\ AfterVisit(TRUE)
  /\ watch' \in {watch, [watch EXCEPT !.visited = TRUE]}
  /\ UNCHANGED <<schedVars, plan, timers, tests, registered, lost, loose, early>>

\* The test ended after the second status read.  The suite answers "Illegal
\* test state change" and may fail the test for it; the poll reads the status
\* again.  A negative module takes the error page for its answer.
visitTooLate ==
  /\ runner.pc = "visit"
  /\ ~PollCtxDone
  /\ isTerminalStatus(Test)
  /\ IF Negative THEN AfterVisit(FALSE) ELSE Goto("poll")
  /\ tests' \in {tests, [tests EXCEPT ![runner.module].result = "FAILED"]}
  /\ UNCHANGED <<schedVars, plan, timers, watch, registered, lost, loose, early>>

-----------------------------------------------------------------------------
(* cancelTestAndWaitTerminal, under a context of its own *)

\* Mutant: the cancellation is sent under the context that ended the poll.
cancelTest_PollCtx ==
  /\ runner.pc = "cancel"
  /\ \E answer \in Answers(PollCtxDone) :
       /\ tests' = IF answer = "error" \/ isTerminalStatus(Test) THEN tests
                   ELSE [tests EXCEPT ![runner.module].status = "INTERRUPTED"]
       /\ EndModule("FAILED")
  /\ UNCHANGED <<schedVars, plan, watch, registered, lost, loose, early>>

cancelTest ==
  /\ runner.pc = "cancel"
  /\ \E answer \in Answers("cleanup" \in timers) :
       /\ tests' = IF answer = "error" \/ isTerminalStatus(Test) THEN tests
                   ELSE [tests EXCEPT ![runner.module].status = "INTERRUPTED"]
       /\ runner' = [runner EXCEPT !.pc = "wait_terminal"]
  /\ UNCHANGED <<schedVars, plan, timers, watch, registered, lost, loose, early>>

\* waitForTerminalTestState; the test result notes a cleanup that failed.
waitForTerminalTestState ==
  /\ runner.pc = "wait_terminal"
  /\ \/ isTerminalStatus(Test)
     \/ "cleanup" \in timers
  /\ EndModule("FAILED")
  /\ loose' = IF "cleanup" \in timers THEN loose \cup {runner.module} ELSE loose
  /\ UNCHANGED <<schedVars, plan, suite, registered, lost, early>>

\* A deadline passes while its context is in use.
Timeout(t) ==
  /\ t \notin timers
  /\ runner.pc \in
       CASE t = "plan" -> {"register", "create_plan", "create_test", "ready", "ready_start"}
         [] t = "test" -> {"register_alias", "poll", "poll_start", "recheck", "visit"}
         [] t = "cleanup" -> {"cancel", "wait_terminal"}
  /\ timers' = timers \cup {t}
  /\ UNCHANGED <<schedVars, plan, runner, suite, registered, lost, loose, early>>

-----------------------------------------------------------------------------
(* The conformance suite *)

\* A test moves on its own: it is configured, runs, waits for the browser, or
\* is configured again, which the poll reckons with.
TestMoves(m) ==
  /\ m = runner.module
  /\ \/ /\ tests[m].status = "CREATED"
        /\ tests' \in {[tests EXCEPT ![m].status = s] : s \in {"CONFIGURED", "RUNNING"}}
        /\ UNCHANGED watch
     \/ /\ tests[m].status = "RUNNING" /\ tests[m].result = ""
        /\ watch.period < MaxPeriods
        /\ tests' \in {[tests EXCEPT ![m].status = s] : s \in {"WAITING", "CONFIGURED"}}
        /\ watch' = [visited |-> FALSE, period |-> watch.period + 1, visits |-> 0]
     \/ /\ tests[m].status = "WAITING"
        /\ watch.visited \/ plan.modules[m] = "discovery"
        /\ tests' = [tests EXCEPT ![m].status = "RUNNING"]
        /\ UNCHANGED watch

\* A running test publishes a result, and another one as long as it has not
\* ended, also when the runner has gone on to the next module.
TestPublishes(m) ==
  /\ tests[m].status = "RUNNING"
  /\ tests' \in {[tests EXCEPT ![m].result = r] : r \in Outcomes}
  /\ UNCHANGED watch

\* It finishes with its result, or is interrupted with or without one.
TestEnds(m) ==
  /\ \/ /\ tests[m].status = "RUNNING" /\ tests[m].result # ""
        /\ tests' = [tests EXCEPT ![m].status = "FINISHED"]
     \/ /\ tests[m].status \notin {"ABSENT"} \cup TerminalStatuses
        /\ tests' = [tests EXCEPT ![m].status = "INTERRUPTED"]
  /\ UNCHANGED watch

SuiteStep(m) ==
  /\ TestMoves(m) \/ TestPublishes(m) \/ TestEnds(m)
  /\ UNCHANGED <<schedVars, plan, runner, timers, registered, lost, loose, early>>

RunnerStep ==
  \/ Begin
  \/ registerRuntime
  \/ createPlan
  \/ \E a \in runner.aliases : deleteRuntime(a)
  \/ EndJob
  \/ createTest
  \/ waitForTestReady
  \/ waitForTestReadyFails
  \/ readyStart
  \/ registerRuntimeAlias
  \/ pollCtxDone
  \/ pollOther
  \/ pollStart
  \/ pollWaiting
  \/ recheckDone
  \/ recheckVisit
  \/ visitRedirect
  \/ visitEnds
  \/ visitFails
  \/ visitTooLate
  \/ cancelTest
  \/ waitForTerminalTestState

PoolStep == (StartJob \/ Receive \/ Return) /\ UNCHANGED jobVars

OtherJobDone(j) ==
  /\ j # Focus
  /\ \E failed \in BOOLEAN : JobDone(j, failed)
  /\ UNCHANGED jobVars

Next ==
  \/ PoolStep
  \/ Expire /\ UNCHANGED jobVars
  \/ \E j \in Jobs : OtherJobDone(j)
  \/ RunnerStep
  \/ \E t \in {"plan", "test", "cleanup"} : Timeout(t)
  \/ \E m \in Modules : SuiteStep(m)
  \/ phase = "returned" /\ UNCHANGED vars

\* The pool and the runner are goroutines that keep running, every job ends,
\* and every deadline passes.  Nothing is assumed of the suite.
Spec ==
  /\ Init /\ [][Next]_vars
  /\ WF_vars(PoolStep)
  /\ \A j \in Jobs : WF_vars(OtherJobDone(j))
  /\ WF_vars(RunnerStep)
  /\ \A t \in {"plan", "test", "cleanup"} : WF_vars(Timeout(t))

-----------------------------------------------------------------------------

Pcs ==
  {"idle", "register", "create_plan", "create_test", "ready", "ready_start",
   "register_alias", "poll", "poll_start", "recheck", "visit", "cancel",
   "wait_terminal", "cleanup", "done", "ended"}

\* Every variable has its type; a waiting test is visited at most
\* WaitingMaxRetries + 1 times (shouldTrigger of pollTest).
TypeOK ==
  /\ SchedTypeOK
  /\ plan \in Plans
  /\ runner \in
       [pc : Pcs, module : 0..Len(plan.modules), attempts : Nat,
        triggerErr : BOOLEAN, started : BOOLEAN, hop : 0..MaxRedirects,
        aliases : SUBSET {"job", "suite"}, failed : BOOLEAN]
  /\ timers \subseteq {"plan", "test", "cleanup"}
  /\ watch \in [visited : BOOLEAN, period : 0..MaxPeriods,
               visits : 0..(WaitingMaxRetries + 1)]
  /\ registered \subseteq {"job", "suite"}
  /\ lost \subseteq {"job", "suite"}
  /\ loose \subseteq Modules
  /\ early \subseteq Modules

\* The results that summary.go does not count as failed or errored.
Passing == {"PASSED", "SUCCESS", "SKIPPED", "WARNING"}

\* No false green: a job is reported as passed only if it ran at least one
\* module, and every module's test has ended in the suite with a passing
\* result, whatever happened between a status read and the visit
\* that followed it.  A skipped module counts as passed, and so does one that
\* was interrupted after its result.  The exception is a result read before
\* its test had ended (isTestDone): that test may still fail.
NoFalseGreen ==
  \A i \in DOMAIN results :
    results[i].index = Focus /\ ~results[i].failed =>
      /\ Modules # {}
      /\ \A m \in Modules \ early :
           isTerminalStatus(tests[m]) /\ tests[m].result \in Passing

\* When a job has ended, cancelled or not, the RP has none of its runtime
\* registrations left, except one whose own call failed or was not answered.
NoRuntimeLeft == runner.pc = "ended" => registered \subseteq lost

\* When a job has ended, every test it created has ended in the suite, also
\* where the poll was given up: one that goes on would take the callbacks of
\* its successor.  The exceptions: a test that a failed call, its cancellation
\* or an earlier one, left to itself, and one whose result was read before it
\* had ended, which nobody cancels.
NoTestLeft ==
  runner.pc = "ended" =>
    \A m \in Modules \ (loose \cup early) :
      tests[m].status \in {"ABSENT"} \cup TerminalStatuses

\* The report of Execute can be relied on.
ReportTruthful == ReportComplete /\ NoFalseGreen

\* What a job leaves at the RP and in the suite, where its successor would meet
\* it: nothing but what a failed call or an early result left there.
NothingLeft == NoRuntimeLeft /\ NoTestLeft

\* Execute returns, whatever the suite does.
ExecuteReturns == <>(phase = "returned")
=============================================================================
