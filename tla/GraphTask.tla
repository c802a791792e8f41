------------------------------- MODULE GraphTask -------------------------------
(***************************************************************************)
(* One agent task of executor version 2: a persisted graph of steps, run   *)
(* by a coordinator that holds a lease on the task and starts one worker   *)
(* per claimed step.  Every store method is one transaction on the locked  *)
(* task row, hence one step; between two of them coordinators and workers  *)
(* of several daemons, the person and crashes interleave.  A daemon has at *)
(* most one coordinator of the task (its busy lease), so its name stands   *)
(* for the run_id it got; a stalled daemon keeps working after its lease   *)
(* is gone and finds out at its next write.                                *)
(***************************************************************************)
EXTENDS Naturals, FiniteSets

CONSTANTS
    Proc,            \* daemon processes
    Step,            \* the planned steps
    Kind,            \* read, action, report (finalize), deliver (with tools)
    Deps,            \* dependencies of each step
    MaxPlans,        \* planning attempts, 3 in executeGraphTask
    MaxAttempts,     \* max_attempts of every step
    ParallelReads,   \* workers of one coordinator
    StoredDeadline,  \* an older host stored a deadline for the task
    MaxCalls,        \* bound: external calls of one step
    MaxChecks,       \* bound: yields of the final validation
    MaxFaults,       \* bound: crashes, missed heartbeats, an overdue deadline
    None

Kinds == {"read", "action", "report", "deliver"}

ASSUME KindAssumption == Kind \in [Step -> Kinds]
ASSUME DepsAssumption == Deps \in [Step -> SUBSET Step]
ASSUME MaxPlansAssumption == MaxPlans \in Nat \ {0}
ASSUME MaxAttemptsAssumption == MaxAttempts \in Nat \ {0}
ASSUME ParallelReadsAssumption == ParallelReads \in Nat \ {0}
ASSUME StoredDeadlineAssumption == StoredDeadline \in BOOLEAN
ASSUME BoundsAssumption == MaxCalls \in Nat /\ MaxChecks \in Nat /\ MaxFaults \in Nat
ASSUME NoneAssumption == None \notin Proc

VARIABLES
    status, outcome, overdue,       \* agent_tasks and its artifact
    holder, lease, due,             \* agent_task_runs: run_id, lease, next_attempt_at
    planned, planTries, checks,     \* progress: the plan is saved, attempts
    st, tries, stepRun, stepLease, stepDue,   \* agent_task_steps
    cp, receipts, result,           \* their checkpoint and result
    co,                             \* per process: place of its coordinator
    wk,                             \* per process and step: place of the worker
    loops, calls,                   \* tool loops started, external calls made
    restarted, faults

taskRow  == <<status, outcome>>
runRow   == <<holder, lease, due>>
progress == <<planned, planTries, checks>>
stepRow  == <<st, tries, stepRun, stepLease, stepDue, result>>
saved    == <<cp, receipts>>
effect   == <<loops, calls>>
rest     == <<restarted, faults, overdue>>
vars     == <<taskRow, runRow, progress, stepRow, saved, co, wk, effect, rest>>

Live     == {"pending", "running"}
Terminal == {"done", "failed", "canceled"}
Outcomes == {"none", "completed", "partial", "blocked", "cancelled"}
States   == {"pending", "running", "done", "blocked", "reconciliation"}
Phases   == {"none", "executing", "calling", "called", "failed", "candidate",
             "verified", "marked", "rejected"}
Places   == {"none", "begin", "loop", "call", "answer", "review", "complete", "refused"}
Stages   == {"idle", "start", "plan", "exec", "drain", "lost", "after", "validate"}

Read(s)      == Kind[s] = "read"
Finalizer(s) == Kind[s] \in {"report", "deliver"}

\* kind <> 'read' AND NOT (kind = 'finalize' AND cardinality(tools) = 0).
Effectful(s) == Kind[s] \in {"action", "deliver"}

TypeOK ==
    /\ status \in Live \cup Terminal
    /\ outcome \in Outcomes
    /\ overdue \in BOOLEAN /\ lease \in BOOLEAN /\ due \in BOOLEAN
    /\ planned \in BOOLEAN /\ restarted \in BOOLEAN
    /\ holder \in Proc \cup {None}
    /\ planTries \in 0 .. MaxPlans
    /\ checks \in 0 .. MaxChecks
    /\ faults \in 0 .. MaxFaults
    /\ st \in [Step -> States]
    /\ tries \in [Step -> 0 .. MaxAttempts]
    /\ stepRun \in [Step -> Proc \cup {None}]
    /\ stepLease \in [Step -> BOOLEAN]
    /\ stepDue \in [Step -> BOOLEAN]
    /\ result \in [Step -> {"none", "accepted", "unverified"}]
    /\ cp \in [Step -> Phases]
    /\ receipts \in SUBSET Step
    /\ co \in [Proc -> Stages]
    /\ wk \in [Proc -> [Step -> Places]]
    /\ loops \in [Step -> Nat]
    /\ calls \in [Step -> Nat]

\* A row as Create leaves it; start_at may lie in the future.
Init ==
    /\ status = "pending" /\ outcome = "none" /\ overdue = FALSE
    /\ holder = None /\ lease = FALSE /\ due \in BOOLEAN
    /\ planned = FALSE /\ planTries = 0 /\ checks = 0
    /\ st = [s \in Step |-> "pending"]
    /\ tries = [s \in Step |-> 0]
    /\ stepRun = [s \in Step |-> None]
    /\ stepLease = [s \in Step |-> FALSE]
    /\ stepDue = [s \in Step |-> TRUE]
    /\ result = [s \in Step |-> "none"]
    /\ cp = [s \in Step |-> "none"]
    /\ receipts = {}
    /\ co = [p \in Proc |-> "idle"]
    /\ wk = [p \in Proc |-> [s \in Step |-> "none"]]
    /\ loops = [s \in Step |-> 0]
    /\ calls = [s \in Step |-> 0]
    /\ restarted = FALSE /\ faults = 0

-----------------------------------------------------------------------------
(* Fences. *)

\* requireTaskRun: the run is the current one and its lease is live.
Current(p) == holder = p /\ lease

\* Mutant: the status of the locked task row is not looked at.
CurrentOnly(p) == Current(p)

\* lockTaskExecution, without and with its deadline check.
Locked(p)       == status = "running" /\ Current(p)
LockedInTime(p) == Locked(p) /\ ~overdue

\* The step row still belongs to the worker.
StepClaim(p, s) == st[s] = "running" /\ stepRun[s] = p /\ stepLease[s]

\* Mutant: only the step claim is checked, not the coordinator's run.
StepClaimOnly(p, s) == status = "running" /\ StepClaim(p, s)

\* Mutant: the row is found by its run_id alone.
RunIdOnly(p, s) == status = "running" /\ stepRun[s] = p

Held(p, s)     == Locked(p) /\ StepClaim(p, s)
Writable(p, s) == Held(p, s) /\ ~overdue

\* Mutant: only a call without an answer needs reconciliation.
CallUnanswered(s) == Effectful(s) /\ cp[s] \in {"calling", "failed"}

\* stepNeedsReconciliationSQL.
NeedsReconciliation(s) == Effectful(s) /\ cp[s] \notin {"candidate", "verified", "marked"}

\* Mutant: a step keeps waiting although its attempts are spent.
AlwaysRetry(s, retry) ==
    IF NeedsReconciliation(s) THEN "reconciliation" ELSE IF retry THEN "pending" ELSE "blocked"

\* The status of a step whose worker failed or was lost.
Unfinished(s, retry) ==
    IF NeedsReconciliation(s) THEN "reconciliation"
    ELSE IF retry /\ tries[s] < MaxAttempts THEN "pending" ELSE "blocked"

Workers(p) == {s \in Step : wk[p][s] # "none"}

Go(p, to)    == co' = [co EXCEPT ![p] = to]
Put(p, s, to) == wk' = [wk EXCEPT ![p][s] = to]

-----------------------------------------------------------------------------
(* The coordinator: claim, plan. *)

\* A new run replaces an expired one and fences its unfinished steps.  A lost
\* response, or a failed read of the task, leaves a lease without coordinator.
ClaimGraphTask(p, responded) ==
    /\ co[p] = "idle"
    /\ responded \/ faults < MaxFaults
    /\ faults' = IF responded THEN faults ELSE faults + 1
    /\ status \in Live
    /\ ~overdue
    /\ ~lease
    /\ due
    /\ holder' = p
    /\ lease' = TRUE
    /\ status' = "running"
    /\ st' = [s \in Step |-> IF st[s] = "running" THEN Unfinished(s, TRUE) ELSE st[s]]
    /\ stepLease' = [s \in Step |-> IF st[s] = "running" THEN FALSE ELSE stepLease[s]]
    /\ Go(p, IF responded THEN "start" ELSE "idle")
    /\ UNCHANGED <<outcome, due, progress, tries, stepRun, stepDue, result, saved,
                   wk, effect, restarted, overdue>>

\* The task has its plan: execute it.
LoadPlan(p) ==
    /\ co[p] = "start"
    /\ planned
    /\ Go(p, "exec")
    /\ UNCHANGED <<taskRow, runRow, progress, stepRow, saved, wk, effect, rest>>

\* SaveGraphProgress counts the attempt before the planner is asked.
StartPlan(p) ==
    /\ co[p] = "start"
    /\ ~planned
    /\ LockedInTime(p)
    /\ planTries' = IF planTries < MaxPlans THEN planTries + 1 ELSE planTries
    /\ Go(p, "plan")
    /\ UNCHANGED <<taskRow, runRow, planned, checks, stepRow, saved, wk, effect, rest>>

\* The planner's graph, or the fallback graph, is stored.
SaveTaskSteps(p) ==
    /\ co[p] = "plan"
    /\ Locked(p)
    /\ planned' = TRUE
    /\ Go(p, "exec")
    /\ UNCHANGED <<taskRow, runRow, planTries, checks, stepRow, saved, wk, effect, rest>>

\* YieldGraphTask: the lease ends, the task waits for next_attempt_at.
Yield(p) ==
    /\ Locked(p)
    /\ \A s \in Step : st[s] # "running"
    /\ lease' = FALSE
    /\ due' = FALSE
    /\ status' = "pending"
    /\ Go(p, "idle")
    /\ UNCHANGED <<outcome, holder, stepRow, saved, wk, effect, rest>>

\* A transient planner failure below the last attempt.
DeferPlan(p) ==
    /\ co[p] = "plan"
    /\ planTries < MaxPlans
    /\ Yield(p)
    /\ UNCHANGED progress

-----------------------------------------------------------------------------
(* GraphExecutor.Run: claiming steps. *)

\* Mutant: a step may start while a dependency is only claimed.
StartedDeps(s) == \A d \in Deps[s] : st[d] # "pending"

ConfirmedDeps(s) == \A d \in Deps[s] : st[d] = "done"

\* Effects and the report run alone, reads beside reads.
ConflictingPeers(s) ==
    \E t \in Step : st[t] \in {"running", "reconciliation"} /\ (~Read(s) \/ ~Read(t))

\* The row of s satisfies ClaimTaskStep.
StepReady(s) ==
    /\ st[s] = "pending"
    /\ stepDue[s]
    /\ tries[s] < MaxAttempts
    /\ ~ConflictingPeers(s)
    /\ ConfirmedDeps(s)

\* What the executor allows itself beside the workers it has.
Room(p, s) ==
    /\ Cardinality(Workers(p)) < ParallelReads
    /\ ~Read(s) => Workers(p) = {}
    /\ \A t \in Workers(p) : Read(t)

ClaimTaskStep(p, s) ==
    /\ co[p] = "exec"
    /\ LockedInTime(p)
    /\ wk[p][s] = "none"
    /\ Room(p, s)
    /\ StepReady(s)
    /\ st' = [st EXCEPT ![s] = "running"]
    /\ tries' = [tries EXCEPT ![s] = @ + 1]
    /\ stepRun' = [stepRun EXCEPT ![s] = p]
    /\ stepLease' = [stepLease EXCEPT ![s] = TRUE]
    /\ Put(p, s, "begin")
    /\ UNCHANGED <<taskRow, runRow, progress, stepDue, result, saved, co, effect, rest>>

\* Nothing to claim and nothing running: ErrGraphWaiting, or all done.
LeaveExecutor(p) ==
    /\ \/ co[p] = "exec" /\ ~\E s \in Step : StepReady(s)
       \/ co[p] = "drain"
    /\ Workers(p) = {}
    /\ Go(p, "after")
    /\ UNCHANGED <<taskRow, runRow, progress, stepRow, saved, wk, effect, rest>>

-----------------------------------------------------------------------------
(* A step worker: runStep and ExecuteGraphStep. *)

\* The row after FailTaskStepAfter, if the worker still holds it.  Its
\* next_attempt_at matters only while it is pending.
FailRow(p, s, retry) ==
    IF Held(p, s)
    THEN /\ st' = [st EXCEPT ![s] = Unfinished(s, retry)]
         /\ stepLease' = [stepLease EXCEPT ![s] = FALSE]
         /\ stepDue' = [stepDue EXCEPT ![s] = Unfinished(s, retry) # "pending"]
         /\ UNCHANGED <<tries, stepRun, result>>
    ELSE UNCHANGED stepRow

\* A write was refused: the worker ends and the coordinator gives up.
ClaimLost(p, s) ==
    /\ FailRow(p, s, FALSE)
    /\ Put(p, s, "none")
    /\ Go(p, "lost")
    /\ UNCHANGED saved

\* CheckpointTaskStep with a new phase, then the worker goes on.
Checkpoint(p, s, phase, to) ==
    IF Writable(p, s)
    THEN /\ cp' = [cp EXCEPT ![s] = phase]
         /\ Put(p, s, to)
         /\ UNCHANGED <<stepRow, co, receipts>>
    ELSE ClaimLost(p, s)

\* Repair of a rejected read or report starts a new loop.
Reloop(s) == cp[s] = "rejected" /\ ~Effectful(s)

\* A saved candidate goes directly to its review.
ResumeCandidate(p, s) ==
    /\ wk[p][s] = "begin"
    /\ cp[s] \in {"candidate", "verified", "marked"} \/ (cp[s] = "rejected" /\ Effectful(s))
    /\ Put(p, s, IF cp[s] \in {"verified", "marked"} THEN "complete" ELSE "review")
    /\ UNCHANGED <<taskRow, runRow, progress, stepRow, saved, co, effect, rest>>

\* Otherwise the tool loop runs.
StartLoop(p, s) ==
    /\ wk[p][s] = "begin"
    /\ cp[s] \in {"none", "executing", "called"} \/ Reloop(s)
    /\ Checkpoint(p, s, "executing", "loop")
    /\ loops' = IF Writable(p, s) THEN [loops EXCEPT ![s] = @ + 1] ELSE loops
    /\ UNCHANGED <<taskRow, runRow, progress, calls, rest>>

\* Mutant: the tool is called without recording it first.
CallUnrecorded(p, s) ==
    /\ wk[p][s] = "loop"
    /\ Effectful(s)
    /\ calls[s] < MaxCalls
    /\ Put(p, s, "call")
    /\ UNCHANGED <<taskRow, runRow, progress, stepRow, saved, co, effect, rest>>

\* The pending tool is recorded before it is called.  (Calls of a read step have
\* no effect and are left out.)
ToolStarted(p, s) ==
    /\ wk[p][s] = "loop"
    /\ Effectful(s)
    /\ calls[s] < MaxCalls
    /\ Checkpoint(p, s, "calling", "call")
    /\ UNCHANGED <<taskRow, runRow, progress, effect, rest>>

\* The external effect.  Nothing fences it any more.
CallTool(p, s) ==
    /\ wk[p][s] = "call"
    /\ calls' = [calls EXCEPT ![s] = @ + 1]
    /\ Put(p, s, "answer")
    /\ UNCHANGED <<taskRow, runRow, progress, stepRow, saved, co, loops, rest>>

\* A successful call leaves its receipt.
ToolCompleted(p, s) ==
    /\ wk[p][s] = "answer"
    /\ IF Writable(p, s)
       THEN /\ cp' = [cp EXCEPT ![s] = "called"]
            /\ receipts' = receipts \cup {s}
            /\ Put(p, s, "loop")
            /\ UNCHANGED <<stepRow, co>>
       ELSE ClaimLost(p, s)
    /\ UNCHANGED <<taskRow, runRow, progress, effect, rest>>

\* A tool error proves nothing: the pending call is kept and the step stops
\* (ErrGraphActionUncertain).
ToolErred(p, s) ==
    /\ wk[p][s] = "answer"
    /\ Checkpoint(p, s, "failed", "refused")
    /\ UNCHANGED <<taskRow, runRow, progress, effect, rest>>

SaveCandidate(p, s) ==
    /\ wk[p][s] = "loop"
    /\ Checkpoint(p, s, "candidate", "review")
    /\ UNCHANGED <<taskRow, runRow, progress, effect, rest>>

\* Mutant: an action without a receipt may be accepted.
Acceptable(s) == TRUE

\* Only a receipt makes an action's success credible.
Credible(s) == Kind[s] = "action" => s \in receipts

ReviewAccepted(p, s) ==
    /\ wk[p][s] = "review"
    /\ Credible(s)
    /\ Checkpoint(p, s, "verified", "complete")
    /\ UNCHANGED <<taskRow, runRow, progress, effect, rest>>

\* No receipt, or a rejected action or last read: handed on with its gaps.
ReviewMarked(p, s) ==
    /\ wk[p][s] = "review"
    /\ Kind[s] = "action" \/ (Read(s) /\ tries[s] >= MaxAttempts)
    /\ Checkpoint(p, s, "marked", "complete")
    /\ UNCHANGED <<taskRow, runRow, progress, effect, rest>>

\* Rejected: the next attempt repairs it, unless it is a delivery.  A report
\* whose markers cannot be rendered is rejected without a review.
ReviewRejected(p, s) ==
    /\ \/ /\ wk[p][s] = "review"
          /\ Finalizer(s) \/ (Read(s) /\ tries[s] < MaxAttempts)
       \/ wk[p][s] = "loop" /\ ~Effectful(s)
    /\ Checkpoint(p, s, "rejected", "refused")
    /\ UNCHANGED <<taskRow, runRow, progress, effect, rest>>

\* runStep returns what CompleteTaskStep returns: a refusal stores nothing.
CompleteTaskStep(p, s) ==
    /\ wk[p][s] = "complete"
    /\ Put(p, s, "none")
    /\ IF Writable(p, s)
       THEN /\ st' = [st EXCEPT ![s] = "done"]
            /\ result' = [result EXCEPT ![s] =
                            IF cp[s] = "marked" THEN "unverified" ELSE "accepted"]
            /\ stepLease' = [stepLease EXCEPT ![s] = FALSE]
            /\ UNCHANGED <<tries, stepRun, stepDue, co>>
       ELSE Go(p, "lost") /\ UNCHANGED stepRow
    /\ UNCHANGED <<taskRow, runRow, progress, saved, effect, rest>>

\* Where a worker that fails sends its coordinator: a deferred retry leaves
\* the other workers alone, any other error stops the executor.
AfterFailure(p, s, deferred) ==
    IF ~Held(p, s) THEN "lost"
    ELSE IF co[p] = "exec" /\ ~(deferred /\ tries[s] < MaxAttempts) THEN "drain" ELSE co[p]

\* The step ends with an error of a model, a tool or a reviewer, or refused: a
\* rejected candidate is retried, an uncertain action is not.
FailTaskStepAfter(p, s, retry) ==
    /\ wk[p][s] # "none"
    /\ wk[p][s] = "refused" => retry = ~Effectful(s)
    /\ FailRow(p, s, retry)
    /\ Put(p, s, "none")
    /\ Go(p, AfterFailure(p, s, retry))
    /\ UNCHANGED <<taskRow, runRow, progress, saved, effect, rest>>

\* The heartbeat could not write: the step is failed for a retry and the
\* executor stops.
HeartbeatError(p, s) ==
    /\ wk[p][s] # "none"
    /\ FailRow(p, s, TRUE)
    /\ Put(p, s, "none")
    /\ Go(p, AfterFailure(p, s, FALSE))
    /\ UNCHANGED <<taskRow, runRow, progress, saved, effect, rest>>

\* The failure could not be stored: the row stays running.
FailNotStored(p, s) ==
    /\ wk[p][s] # "none"
    /\ faults < MaxFaults
    /\ faults' = faults + 1
    /\ Put(p, s, "none")
    /\ Go(p, IF co[p] = "exec" THEN "drain" ELSE co[p])
    /\ UNCHANGED <<taskRow, runRow, progress, stepRow, saved, effect, restarted, overdue>>

\* The executor cannot read the steps: it cancels its workers and drains.
StepsUnreadable(p) ==
    /\ co[p] = "exec"
    /\ faults < MaxFaults
    /\ faults' = faults + 1
    /\ Go(p, "drain")
    /\ UNCHANGED <<taskRow, runRow, progress, stepRow, saved, wk, effect, restarted, overdue>>

-----------------------------------------------------------------------------
(* executeGraphTask after the executor returned. *)

Stuck(s) == st[s] \in {"blocked", "reconciliation"}

\* ResolveStuckTaskSteps: a stuck step is done, with its gap in its result.
ResolveStuckTaskSteps(p) ==
    /\ co[p] = "after"
    /\ \E s \in Step : Stuck(s)
    /\ ~\E s \in Step : Stuck(s) /\ Finalizer(s)
    /\ Locked(p)
    /\ st' = [s \in Step |-> IF Stuck(s) THEN "done" ELSE st[s]]
    /\ result' = [s \in Step |-> IF Stuck(s) THEN "unverified" ELSE result[s]]
    /\ stepLease' = [s \in Step |-> IF Stuck(s) THEN FALSE ELSE stepLease[s]]
    /\ Go(p, "start")
    /\ UNCHANGED <<taskRow, runRow, progress, tries, stepRun, stepDue, saved, wk, effect, rest>>

AllDone == \A s \in Step : st[s] = "done"

Waiting(s) == st[s] = "pending" /\ ConfirmedDeps(s)

\* A ready step waits for its retry.  (The yield fails while a row is running,
\* and the coordinator just stops: GiveUp.)
YieldForRetry(p) ==
    /\ co[p] = "after"
    /\ ~\E s \in Step : Stuck(s)
    /\ \E s \in Step : Waiting(s)
    /\ Yield(p)
    /\ UNCHANGED progress

StartValidation(p) ==
    /\ co[p] = "after"
    /\ AllDone
    /\ Go(p, "validate")
    /\ UNCHANGED <<taskRow, runRow, progress, stepRow, saved, wk, effect, rest>>

\* validateGraphResult waits for a reviewer; its rounds are GraphValidation.
DeferValidation(p) ==
    /\ co[p] = "validate"
    /\ checks < MaxChecks
    /\ checks' = checks + 1
    /\ Yield(p)
    /\ UNCHANGED <<planned, planTries>>

\* Mutant: the outcome's own word, "cancelled", is stored as the status.
OutcomeWord(o) == IF o \in {"completed", "partial"} THEN "done" ELSE o

\* TaskTerminalStatus for a graph task.
TaskTerminalStatus(o) ==
    CASE o \in {"completed", "partial"} -> "done"
      [] o = "cancelled" -> "canceled"
      [] o = "blocked" -> "failed"

\* finalizeTaskTx; a coordinator needs its run, and completes only in time.
FinalizeTask(o) ==
    /\ status \in Live
    /\ status' = TaskTerminalStatus(o)
    /\ outcome' = o

\* Something a partial report can be made of.
Draft ==
    \E s \in Step :
        \/ st[s] = "done"
        \/ Kind[s] # "action" /\ cp[s] \in {"candidate", "verified", "marked", "rejected"}

FinishGraph(p, o) ==
    /\ Current(p)
    /\ o = "blocked" => ~Draft
    /\ FinalizeTask(o)
    /\ Go(p, "idle")
    /\ UNCHANGED <<runRow, progress, stepRow, saved, wk, effect, rest>>

\* No permitted tool, a stuck finalizer, or no step that can still run.
FinishPartial(p, o) ==
    /\ \/ co[p] = "start"
       \/ co[p] = "after" /\ \E s \in Step : Stuck(s) /\ Finalizer(s)
       \/ co[p] = "after" /\ ~AllDone /\ ~\E s \in Step : Stuck(s) \/ Waiting(s)
    /\ FinishGraph(p, o)

FinishValidated(p, o) ==
    /\ co[p] = "validate"
    /\ o = "completed" => ~overdue
    /\ FinishGraph(p, o)

\* The heartbeat or a write finds the run gone: cancel and drain.
NoticeLost(p) ==
    /\ co[p] \notin {"idle", "lost"}
    /\ ~LockedInTime(p)
    /\ Go(p, "lost")
    /\ UNCHANGED <<taskRow, runRow, progress, stepRow, saved, wk, effect, rest>>

\* The coordinator returns without a transition; its lease runs out.
GiveUp(p) ==
    /\ \/ co[p] = "lost"
       \/ /\ co[p] = "after"
          /\ \E s \in Step : st[s] = "running"
          /\ \E s \in Step : Waiting(s)
          /\ ~\E s \in Step : Stuck(s)
    /\ Workers(p) = {}
    /\ Go(p, "idle")
    /\ UNCHANGED <<taskRow, runRow, progress, stepRow, saved, wk, effect, rest>>

-----------------------------------------------------------------------------
(* The person, time and faults. *)

Cancel ==
    /\ FinalizeTask("cancelled")
    /\ UNCHANGED <<runRow, progress, stepRow, saved, co, wk, effect, rest>>

\* Restart refuses while an effect step was started and is not done.
Restart ==
    /\ status \in Terminal
    /\ ~restarted
    /\ ~\E s \in Step : Effectful(s) /\ tries[s] > 0 /\ st[s] # "done"
    /\ restarted' = TRUE
    /\ UNCHANGED <<taskRow, runRow, progress, stepRow, saved, co, wk, effect, faults, overdue>>

\* Clocks are followed only while the task lives; later nothing reads them.
RetryTimeComes ==
    /\ status \in Live
    /\ ~due
    /\ due' = TRUE
    /\ UNCHANGED <<taskRow, holder, lease, progress, stepRow, saved, co, wk, effect, rest>>

StepTimeComes(s) ==
    /\ status \in Live
    /\ ~stepDue[s]
    /\ stepDue' = [stepDue EXCEPT ![s] = TRUE]
    /\ UNCHANGED <<taskRow, runRow, progress, st, tries, stepRun, stepLease, result,
                   saved, co, wk, effect, rest>>

\* A lease nobody renews runs out.
LeaseRunsOut ==
    /\ status \in Live
    /\ lease
    /\ co[holder] = "idle"
    /\ lease' = FALSE
    /\ UNCHANGED <<taskRow, holder, due, progress, stepRow, saved, co, wk, effect, rest>>

\* A stalled process misses its heartbeats.
MissHeartbeat ==
    /\ status \in Live
    /\ lease
    /\ co[holder] # "idle"
    /\ faults < MaxFaults
    /\ faults' = faults + 1
    /\ lease' = FALSE
    /\ UNCHANGED <<taskRow, holder, due, progress, stepRow, saved, co, wk, effect,
                   restarted, overdue>>

MissStepHeartbeat(s) ==
    /\ status \in Live
    /\ st[s] = "running" /\ stepLease[s]
    /\ faults < MaxFaults
    /\ faults' = faults + 1
    /\ stepLease' = [stepLease EXCEPT ![s] = FALSE]
    /\ UNCHANGED <<taskRow, runRow, progress, st, tries, stepRun, stepDue, result,
                   saved, co, wk, effect, restarted, overdue>>

\* The stored deadline passes; one of the disturbances MaxFaults bounds.
DeadlinePasses ==
    /\ StoredDeadline /\ status \in Live
    /\ ~overdue
    /\ faults < MaxFaults
    /\ faults' = faults + 1
    /\ overdue' = TRUE
    /\ UNCHANGED <<taskRow, runRow, progress, stepRow, saved, co, wk, effect, restarted>>

Crash(p) ==
    /\ co[p] # "idle"
    /\ faults < MaxFaults
    /\ faults' = faults + 1
    /\ Go(p, "idle")
    /\ wk' = [wk EXCEPT ![p] = [s \in Step |-> "none"]]
    /\ UNCHANGED <<taskRow, runRow, progress, stepRow, saved, effect, restarted, overdue>>

-----------------------------------------------------------------------------

CoordinatorStep(p) ==
    \/ LoadPlan(p)
    \/ StartPlan(p)
    \/ SaveTaskSteps(p)
    \/ DeferPlan(p)
    \/ \E s \in Step : ClaimTaskStep(p, s)
    \/ LeaveExecutor(p)
    \/ ResolveStuckTaskSteps(p)
    \/ YieldForRetry(p)
    \/ StartValidation(p)
    \/ DeferValidation(p)
    \/ \E o \in {"partial", "blocked"} : FinishPartial(p, o)
    \/ \E o \in {"completed", "partial"} : FinishValidated(p, o)
    \/ NoticeLost(p)
    \/ GiveUp(p)

WorkerStep(p, s) ==
    \/ ResumeCandidate(p, s)
    \/ StartLoop(p, s)
    \/ ToolStarted(p, s)
    \/ CallTool(p, s)
    \/ ToolCompleted(p, s)
    \/ ToolErred(p, s)
    \/ SaveCandidate(p, s)
    \/ ReviewAccepted(p, s)
    \/ ReviewMarked(p, s)
    \/ ReviewRejected(p, s)
    \/ CompleteTaskStep(p, s)
    \/ \E retry \in BOOLEAN : FailTaskStepAfter(p, s, retry)
    \/ HeartbeatError(p, s)

Claim == \E p \in Proc, ok \in BOOLEAN : ClaimGraphTask(p, ok)

Fault ==
    \/ MissHeartbeat
    \/ \E s \in Step : MissStepHeartbeat(s)
    \/ \E p \in Proc, s \in Step : FailNotStored(p, s)
    \/ \E p \in Proc : Crash(p) \/ StepsUnreadable(p)

Next ==
    \/ Claim
    \/ \E p \in Proc : CoordinatorStep(p)
    \/ \E p \in Proc, s \in Step : WorkerStep(p, s)
    \/ Cancel
    \/ Restart
    \/ RetryTimeComes
    \/ \E s \in Step : StepTimeComes(s)
    \/ LeaseRunsOut
    \/ DeadlinePasses
    \/ Fault

Spec == Init /\ [][Next]_vars

\* The scheduler polls runnable tasks, goroutines run on, and the clock advances.
FairSpec ==
    /\ Spec
    /\ WF_vars(Claim)
    /\ \A p \in Proc : WF_vars(CoordinatorStep(p))
    /\ \A p \in Proc, s \in Step : WF_vars(WorkerStep(p, s))
    /\ WF_vars(LeaseRunsOut)
    /\ WF_vars(RetryTimeComes)
    /\ \A s \in Step : WF_vars(StepTimeComes(s))

-----------------------------------------------------------------------------
(* Properties. *)

\* An external effect is never replayed: the tool loop of an action or a
\* delivery starts at most once, whatever leases end and coordinators crash
\* ("missing or incomplete checkpoints must never grant permission to replay
\* external effects", stepNeedsReconciliationSQL).
EffectLoopOnce == \A s \in Step : Effectful(s) => loops[s] <= 1

\* An action reported as performed was really called and answered: its accepted
\* result rests on a receipt of an external call (ExecuteGraphStep).
AcceptedWasPerformed ==
    \A s \in Step :
        Kind[s] = "action" /\ result[s] = "accepted" => s \in receipts /\ calls[s] > 0

\* No call is made that the store has not been told of: after a call the saved
\* checkpoint never looks like one from before the call (tool_started is
\* persisted first, and a claim that was lost writes nothing).
EffectsAnnounced ==
    \A s \in Step : calls[s] > 0 => cp[s] \notin {"none", "executing"}

\* A step starts only on confirmed inputs: all dependencies of a step that ever
\* ran are done, with a result (ClaimTaskStep).
DependenciesConfirmed ==
    \A s \in Step : tries[s] > 0 =>
        \A d \in Deps[s] : st[d] = "done" /\ result[d] # "none"

\* Rows of an effect or of the report never run beside another row, also when a
\* failure could not be stored and the row of a dead worker still says running.
EffectsExclusive ==
    \A s, t \in Step : s # t /\ st[s] = "running" /\ st[t] = "running" => Read(s) /\ Read(t)

\* What every state of a graph task shows: the types, effects that are never
\* replayed, calls the store was told of, and steps that run on confirmed inputs.
GraphSound ==
    /\ TypeOK
    /\ EffectLoopOnce
    /\ EffectsAnnounced
    /\ DependenciesConfirmed

\* What a report may rely on: an action it calls performed was performed, and
\* nothing else ran beside it (ExecuteGraphStep, ClaimTaskStep).
EffectsHonest == AcceptedWasPerformed /\ EffectsExclusive

\* A confirmed step is never reopened and its result never replaced, not by a
\* worker of an older run either.
StepDoneIsFinal ==
    [][\A s \in Step : st[s] = "done" => st'[s] = "done" /\ result'[s] = result[s]]_vars

\* After the terminal report no worker changes the task, a step or a checkpoint
\* (every write locks the task row and requires status running).
FrozenAfterEnd ==
    [][(status \in Terminal) => UNCHANGED <<taskRow, st, tries, result, saved, progress>>]_vars

\* A coordinator whose lease is gone, and its workers, change nothing any more:
\* "Every v2 worker mutation must carry the current coordinator ID, not merely a
\* still-live step ID" (requireTaskRun).
StaleRunSilent ==
    [][\A p \in Proc :
         ~Current(p) /\ ~Current(p)' /\ <<co[p], wk[p]>>' # <<co[p], wk[p]>>
           => UNCHANGED <<taskRow, st, tries, result, saved, progress>>]_vars

\* The task runs to completion: "One-shot graph tasks run to completion even if
\* an older host stored a deadline for them" (ExpiredGraphTasks).
TaskEnds == <>(status \in Terminal)

\* "external operation requires reconciliation before restart": a task whose
\* effect was called without a confirmed answer is not repeated (Restart).
UncertainNotRepeated ==
    restarted => \A s \in Step : ~(Effectful(s) /\ cp[s] \in {"calling", "failed"})
=============================================================================
