----------------------------- MODULE TaskLifecycle -----------------------------
(***************************************************************************)
(* One agent task of executor version 1: its row in agent_tasks, its saved *)
(* submission, and the schedulers that run it.  A scheduler is one daemon  *)
(* process; its in-process busy lease admits one goroutine per task, so a  *)
(* process has at most one worker here.  Every store method is one         *)
(* statement or one transaction on the row, hence one step; everything a   *)
(* worker does between two of them interleaves with the other actors: the  *)
(* maintenance tick, the person's commands, peer callbacks, crashes.       *)
(*                                                                         *)
(* A claim is the last_run_at that TrySetRunning stamps.  The model keeps  *)
(* only what the code asks about it: which workers remember the value the  *)
(* row has now (fence), and whether the row has one at all (stamped).      *)
(***************************************************************************)
EXTENDS Naturals, FiniteSets

CONSTANTS
    Proc,            \* daemon processes that may overlap
    Kinds,           \* the kinds of task to explore
    Defects,         \* what may be wrong with the task: see defect
    MaxIterations,   \* agent_tasks.max_iterations
    MaxCrashes       \* bound: process crashes

AllKinds == {"oneshot", "cadence", "recurring"}

ASSUME ProcAssumption == IsFiniteSet(Proc)
ASSUME KindsAssumption == Kinds \subseteq AllKinds
ASSUME DefectsAssumption == Defects \subseteq {"none", "dispatcher", "tools"}
ASSUME MaxIterationsAssumption == MaxIterations \in Nat \ {0}
ASSUME MaxCrashesAssumption == MaxCrashes \in Nat

VARIABLES
    kind,        \* oneshot: no schedule, no cadence; recurring: has a schedule
    defect,      \* "dispatcher": no handler; "tools": allow-list is empty
    status, stamped, age, iteration, report,   \* the row and its artifact
    due,         \* the cadence or schedule interval has elapsed
    overdue,     \* the deadline has passed
    saved, reviews, reviewDue,   \* agent_task_submissions
    snap,        \* per process: its dispatch loop still holds the pending row
    booted,      \* per process: the scheduler runs (boot reap done)
    crashes,
    pc, held,    \* per worker: position, review attempts it read
    fence,       \* workers whose claim is the row's last_run_at
    sent,        \* per worker: this iteration has written to the person
    wrote        \* iterations that wrote since a claim found the interval elapsed

task   == <<kind, defect>>
row    == <<status, stamped, age, iteration, report>>
clock  == <<due, overdue>>
sub    == <<saved, reviews, reviewDue>>
loop   == <<snap, booted, crashes>>
worker == <<pc, held, fence, sent>>
vars   == <<task, row, clock, sub, loop, worker, wrote>>

Live     == {"pending", "running", "paused"}
Terminal == {"done", "failed", "canceled"}
Reports  == {"none", "completed", "partial", "cancelled"}
Places   == {"idle", "dispatched", "claimed", "start", "run", "judge",
             "finish", "reset", "refetch"}

MaxReviews == 2   \* the attempts >= 2 branch of executeTaskOnce

OneShot == kind = "oneshot"

TypeOK ==
    /\ kind \in AllKinds
    /\ defect \in {"none", "dispatcher", "tools"}
    /\ status \in Live \cup Terminal
    /\ stamped \in BOOLEAN
    /\ age \in 0 .. 2
    /\ iteration \in Nat
    /\ report \in Reports
    /\ due \in BOOLEAN /\ overdue \in BOOLEAN
    /\ saved \in BOOLEAN /\ reviewDue \in BOOLEAN
    /\ reviews \in Nat
    /\ snap \in [Proc -> BOOLEAN]
    /\ booted \in [Proc -> BOOLEAN]
    /\ crashes \in 0 .. MaxCrashes
    /\ pc \in [Proc -> Places]
    /\ held \in [Proc -> Nat]
    /\ fence \in SUBSET Proc
    /\ sent \in [Proc -> BOOLEAN]
    /\ wrote \in Nat

\* A row as Create leaves it.
Init ==
    /\ kind \in Kinds
    /\ defect \in Defects
    /\ status = "pending"
    /\ stamped = FALSE
    /\ age = 0
    /\ iteration = 0
    /\ report = "none"
    /\ due = TRUE
    /\ overdue = FALSE
    /\ saved = FALSE
    /\ reviews = 0
    /\ reviewDue = FALSE
    /\ snap = [p \in Proc |-> FALSE]
    /\ booted = [p \in Proc |-> FALSE]
    /\ crashes = 0
    /\ pc = [p \in Proc |-> "idle"]
    /\ held = [p \in Proc |-> 0]
    /\ fence = {}
    /\ sent = [p \in Proc |-> FALSE]
    /\ wrote = 0

-----------------------------------------------------------------------------
(* Guards and row updates that several operations share. *)

\* Mutant: any worker of a running row passes the fence.
RunningOnly(p) == status = "running"

\* The claim fence: the row is running and has the worker's own stamp.
Owns(p) == status = "running" /\ p \in fence

\* Mutant: the status guard of UpdateProgress and SetPending is missing.
Unconditional(to) == status' = to

\* UPDATE ... SET status = to WHERE status = 'running': zero rows otherwise.
FromRunning(to) == status' = IF status = "running" THEN to ELSE status

\* ... and iteration + 1 in the same statement.
FromRunningCounted(to) ==
    /\ FromRunning(to)
    /\ iteration' = IF status = "running" THEN iteration + 1 ELSE iteration

\* Mutant: the artifact's spelling of cancelled is stored in the row.
OutcomeAsStatus(outcome) ==
    CASE outcome = "completed" -> "done"
      [] outcome = "cancelled" -> "cancelled"
      [] outcome = "partial"   -> "failed"

\* Mutant: a partial report counts as success, as it does for graph tasks.
PartialIsDone(outcome) == IF outcome = "cancelled" THEN "canceled" ELSE "done"

\* TaskTerminalStatus for executor version 1.
TaskTerminalStatus(outcome) ==
    CASE outcome = "completed" -> "done"
      [] outcome = "cancelled" -> "canceled"
      [] outcome = "partial"   -> "failed"

\* finalizeTaskTx on a live row: artifact, terminal status and the queued
\* notification commit together; on a terminal row nothing changes.
FinalizeTask(outcome) ==
    /\ status \in Live
    /\ status' = TaskTerminalStatus(outcome)
    /\ report' = outcome
    /\ UNCHANGED <<stamped, age, iteration>>

\* Same, called by a worker with its claim: a lost claim changes nothing.
FinalizeClaimed(p, outcome) == IF Owns(p) THEN FinalizeTask(outcome) ELSE UNCHANGED row

\* The goroutine returns and its busy lease is released.
Leave(p) ==
    /\ pc' = [pc EXCEPT ![p] = "idle"]
    /\ fence' = fence \ {p}
    /\ UNCHANGED <<held, sent>>

Goto(p, to) == pc' = [pc EXCEPT ![p] = to]

-----------------------------------------------------------------------------
(* The scheduler tick. *)

\* Once per process: every running row is an orphan of the previous process.
\* A failed reap is logged and not repeated.
ReapOrphansAtBoot(p, ok) ==
    /\ ~booted[p]
    /\ booted' = [booted EXCEPT ![p] = TRUE]
    /\ status' = IF ok /\ status = "running" /\ stamped THEN "pending" ELSE status
    /\ UNCHANGED <<task, stamped, age, iteration, report, clock, sub, snap,
                   crashes, worker, wrote>>

Ticking == \E p \in Proc : booted[p]

\* Mutant: tasks that wait in the queue are forgotten.
OverdueBusy == overdue /\ status \in {"running", "paused"}

\* DeadlineTasks, and a deadline that is not after now.
DeadlineTasks == overdue /\ status \in Live

\* maintainTaskDeadlines on such a row: expireTask.
MaintainTaskDeadlines ==
    /\ Ticking
    /\ DeadlineTasks
    /\ FinalizeTask("partial")
    /\ UNCHANGED <<task, clock, sub, loop, worker, wrote>>

CompleteExhausted ==
    /\ Ticking
    /\ status = "pending"
    /\ kind # "recurring"
    /\ iteration >= MaxIterations
    /\ status' = "failed"
    /\ UNCHANGED <<task, stamped, age, iteration, report, clock, sub, loop, worker, wrote>>

\* Mutant: a threshold the row never reaches.
NeverStale == stamped /\ age > 2

\* The row has been running for more than 10 minutes.
Stale == stamped /\ age >= 1

ResetStale ==
    /\ Ticking
    /\ status = "running"
    /\ Stale
    /\ status' = "pending"
    /\ UNCHANGED <<task, stamped, age, iteration, report, clock, sub, loop, worker, wrote>>

\* Mutant: a threshold the row never reaches.
NeverLost == stamped /\ age > 2

\* The last run was 30 minutes ago.
CallbackLost == stamped /\ age = 2

\* The watchdog for lost callbacks.
WakeStalePaused ==
    /\ Ticking
    /\ status = "paused"
    /\ CallbackLost
    /\ status' = "pending"
    /\ UNCHANGED <<task, stamped, age, iteration, report, clock, sub, loop, worker, wrote>>

\* cadenceElapsed and shouldRunNow; a NULL last_run_at is always due.
IntervalElapsed == OneShot \/ due \/ ~stamped

\* Mutant: off by one.
WithinBudgetOrEqual == iteration <= MaxIterations

WithinBudget == iteration < MaxIterations

\* PendingTasks returns the row and its interval gate is open.
PendingTasks(p) ==
    /\ booted[p]
    /\ ~snap[p]
    /\ status = "pending"
    /\ WithinBudget
    /\ ~overdue
    /\ IntervalElapsed
    /\ snap' = [snap EXCEPT ![p] = TRUE]
    /\ UNCHANGED <<task, row, clock, sub, booted, crashes, worker, wrote>>

\* The loop reaches the row it read: trySetBusy, then the goroutine.
Dispatch(p) ==
    /\ snap[p]
    /\ defect # "dispatcher"
    /\ pc[p] = "idle"
    /\ snap' = [snap EXCEPT ![p] = FALSE]
    /\ Goto(p, "dispatched")
    /\ UNCHANGED <<task, row, clock, sub, booted, crashes, held, fence, sent, wrote>>

\* Busy here, quiet hours, start_at, daily_at or the host's policy: not now.
SkipTask(p) ==
    /\ snap[p]
    /\ snap' = [snap EXCEPT ![p] = FALSE]
    /\ UNCHANGED <<task, row, clock, sub, booted, crashes, worker, wrote>>

\* No handler and no strategy for the row: Fail.
FailUndispatchable(p) ==
    /\ snap[p]
    /\ defect = "dispatcher"
    /\ snap' = [snap EXCEPT ![p] = FALSE]
    /\ status' = "failed"
    /\ UNCHANGED <<task, stamped, age, iteration, report, clock, sub, booted,
                   crashes, worker, wrote>>

-----------------------------------------------------------------------------
(* runTask and executeTaskOnce: claim and load. *)

\* No free slot, policy changed, or the claim was not given.
GiveUp(p) ==
    /\ pc[p] = "dispatched"
    /\ Leave(p)
    /\ UNCHANGED <<task, row, clock, sub, loop, wrote>>

\* A worker that finds its deadline passed expires the task itself: before
\* the claim, after the handler, after the review, and between iterations.
ExpireByWorker(p) ==
    /\ pc[p] \in {"dispatched", "run", "judge", "refetch"}
    /\ overdue
    /\ IF status \in Live THEN FinalizeTask("partial") ELSE UNCHANGED row
    /\ Leave(p)
    /\ UNCHANGED <<task, clock, sub, loop, wrote>>

Claimable == status = "pending" /\ ~overdue

\* A lost response leaves the row running without a worker.
TrySetRunning(p, responded) ==
    /\ pc[p] = "dispatched"
    /\ Claimable
    /\ status' = "running"
    /\ stamped' = TRUE
    /\ age' = 0
    /\ due' = FALSE
    /\ fence' = {}
    /\ wrote' = IF IntervalElapsed THEN 0 ELSE wrote
    /\ Goto(p, IF responded THEN "claimed" ELSE "idle")
    /\ UNCHANGED <<task, iteration, report, overdue, sub, loop, held, sent>>

\* The second read, for the stamp; an error abandons the claimed row.
ReadClaim(p, ok) ==
    /\ pc[p] = "claimed"
    /\ IF ok /\ status = "running" /\ stamped
       THEN /\ Goto(p, "start")
            /\ fence' = fence \cup {p}
            /\ UNCHANGED <<held, sent>>
       ELSE Leave(p)
    /\ UNCHANGED <<task, row, clock, sub, loop, wrote>>

\* The allow-list leaves no tool: Fail.
FailWithoutTools(p) ==
    /\ pc[p] = "start"
    /\ defect = "tools"
    /\ status' = "failed"
    /\ Leave(p)
    /\ UNCHANGED <<task, stamped, age, iteration, report, clock, sub, loop, wrote>>

\* Mutant: the saved report is ignored and the research runs again.
NeverSubmitted == FALSE

HasSubmission == OneShot /\ saved

RunHandler(p) ==
    /\ pc[p] = "start"
    /\ defect # "tools"
    /\ ~HasSubmission
    /\ Goto(p, "run")
    /\ held' = [held EXCEPT ![p] = 0]
    /\ sent' = [sent EXCEPT ![p] = FALSE]
    /\ UNCHANGED <<task, row, clock, sub, loop, fence, wrote>>

\* The saved report is reviewed again, the handler does not run.
ReuseSubmission(p) ==
    /\ pc[p] = "start"
    /\ defect # "tools"
    /\ HasSubmission
    /\ reviewDue
    /\ Goto(p, "judge")
    /\ held' = [held EXCEPT ![p] = reviews]
    /\ UNCHANGED <<task, row, clock, sub, loop, fence, sent, wrote>>

\* next_review_at is in the future: back to pending.
ReviewNotDue(p) ==
    /\ pc[p] = "start"
    /\ defect # "tools"
    /\ HasSubmission
    /\ ~reviewDue
    /\ FromRunning("pending")
    /\ Leave(p)
    /\ UNCHANGED <<task, stamped, age, iteration, report, clock, sub, loop, wrote>>

\* The submission cannot be read: the row stays running.
LoadFailed(p) ==
    /\ pc[p] = "start"
    /\ OneShot
    /\ Leave(p)
    /\ UNCHANGED <<task, row, clock, sub, loop, wrote>>

-----------------------------------------------------------------------------
(* The handler and what its result does to the row. *)

\* message_send inside the handler.
MessageSend(p) ==
    /\ pc[p] = "run"
    /\ kind = "cadence"
    /\ ~sent[p]
    /\ sent' = [sent EXCEPT ![p] = TRUE]
    /\ wrote' = wrote + 1
    /\ UNCHANGED <<task, row, clock, sub, loop, pc, held, fence>>

\* Mutant: a cadence task goes on back-to-back like any one-off.
NeverEnded(p, finished) == FALSE

CadenceRunEnded(p, finished) == kind = "cadence" /\ (finished \/ sent[p])

\* The caller runs the next iteration at once, or the goroutine ends.
Again(p, finished) ==
    IF kind # "recurring" /\ ~CadenceRunEnded(p, finished)
    THEN Goto(p, "refetch") /\ UNCHANGED <<held, fence, sent>>
    ELSE Leave(p)

HandlerFailed(p) ==
    /\ pc[p] = "run"
    /\ FromRunning("pending")
    /\ Leave(p)
    /\ UNCHANGED <<task, stamped, age, iteration, report, clock, sub, loop, wrote>>

PauseTask(p) ==
    /\ pc[p] = "run"
    /\ FromRunningCounted("paused")
    /\ Leave(p)
    /\ UNCHANGED <<task, stamped, age, report, clock, sub, loop, wrote>>

UpdateProgress(p) ==
    /\ pc[p] = "run"
    /\ FromRunningCounted("pending")
    /\ Again(p, FALSE)
    /\ UNCHANGED <<task, stamped, age, report, clock, sub, loop, wrote>>

\* Done with an empty output.
FinalizeEmpty(p) ==
    /\ pc[p] = "run"
    /\ OneShot
    /\ FinalizeClaimed(p, "partial")
    /\ Leave(p)
    /\ UNCHANGED <<task, clock, sub, loop, wrote>>

\* Done with a report.  One-shot work is saved before anyone judges it.
SaveTaskSubmission(p) ==
    /\ pc[p] = "run"
    /\ OneShot
    /\ IF Owns(p)
       THEN /\ saved' = TRUE /\ reviews' = 0 /\ reviewDue' = TRUE
            /\ Goto(p, "judge")
            /\ UNCHANGED <<held, fence, sent>>
       ELSE Leave(p) /\ UNCHANGED sub
    /\ UNCHANGED <<task, row, clock, loop, wrote>>

SubmitPeriodic(p) ==
    /\ pc[p] = "run"
    /\ ~OneShot
    /\ Goto(p, IF kind = "cadence" THEN "judge" ELSE "finish")
    /\ UNCHANGED <<task, row, clock, sub, loop, held, fence, sent, wrote>>

\* The statement that would end the iteration fails and the row stays as it
\* is.  After a failed UpdateProgress the goroutine still reads the row again.
WriteFailed(p) ==
    /\ pc[p] \in {"run", "judge", "finish"}
    /\ \/ Leave(p)
       \/ pc[p] = "run" /\ Again(p, FALSE)
    /\ UNCHANGED <<task, row, clock, sub, loop, wrote>>

-----------------------------------------------------------------------------
(* The acceptance gate. *)

\* Mutant: one review too many.
ReviewsExceeded(p) == held[p] > MaxReviews

ReviewsSpent(p) == held[p] >= MaxReviews

\* The reviewer was unavailable too often: the report goes out unverified.
VerificationUnavailable(p) ==
    /\ pc[p] = "judge"
    /\ OneShot
    /\ ReviewsSpent(p)
    /\ FinalizeClaimed(p, "partial")
    /\ Leave(p)
    /\ UNCHANGED <<task, clock, sub, loop, wrote>>

DeferTaskVerification(p) ==
    /\ pc[p] = "judge"
    /\ OneShot
    /\ ~ReviewsSpent(p)
    /\ IF Owns(p) /\ saved
       THEN status' = "pending" /\ reviews' = reviews + 1 /\ reviewDue' = FALSE
       ELSE UNCHANGED <<status, reviews, reviewDue>>
    /\ Leave(p)
    /\ UNCHANGED <<task, stamped, age, iteration, report, clock, saved, loop, wrote>>

\* Criteria not met: the candidate is dropped and its repair starts at once.
RejectTaskSubmission(p) ==
    /\ pc[p] = "judge"
    /\ OneShot
    /\ IF Owns(p)
       THEN /\ status' = "pending"
            /\ iteration' = iteration + 1
            /\ saved' = FALSE
            /\ Goto(p, "refetch")
            /\ UNCHANGED <<held, fence, sent>>
       ELSE Leave(p) /\ UNCHANGED <<status, iteration, saved>>
    /\ UNCHANGED <<task, stamped, age, report, clock, reviews, reviewDue, loop, wrote>>

\* The same verdict, or no verdict, on a cadence task's result.
RejectPeriodic(p) ==
    /\ pc[p] = "judge"
    /\ kind = "cadence"
    /\ FromRunningCounted("pending")
    /\ Again(p, TRUE)
    /\ UNCHANGED <<task, stamped, age, report, clock, sub, loop, wrote>>

\* Accepted, or no criteria.  An overdue task is never completed.
FinalizeCompleted(p) ==
    /\ pc[p] = "judge"
    /\ OneShot
    /\ IF overdue THEN UNCHANGED row ELSE FinalizeClaimed(p, "completed")
    /\ Leave(p)
    /\ UNCHANGED <<task, clock, sub, loop, wrote>>

AcceptPeriodic(p) ==
    /\ pc[p] = "judge"
    /\ kind = "cadence"
    /\ Goto(p, "finish")
    /\ UNCHANGED <<task, row, clock, sub, loop, held, fence, sent, wrote>>

-----------------------------------------------------------------------------
(* The end of a cadence or recurring run. *)

\* A recurring task whose unkeyed message was not delivered runs again at the
\* next tick: last_run_at becomes NULL.
SetPendingForNotificationRetry(p) ==
    /\ pc[p] = "finish"
    /\ kind = "recurring"
    /\ FromRunning("pending")
    /\ stamped' = IF status = "running" THEN FALSE ELSE stamped
    /\ pc' = [pc EXCEPT ![p] = "idle"]
    /\ fence' = IF status = "running" THEN {} ELSE fence \ {p}
    /\ UNCHANGED <<task, age, iteration, report, clock, sub, loop, held, sent, wrote>>

Complete(p) ==
    /\ pc[p] = "finish"
    /\ IF status = "running" /\ ~overdue
       THEN /\ status' = "done"
            /\ iteration' = iteration + 1
            /\ IF kind = "recurring"
               THEN Goto(p, "reset") /\ UNCHANGED <<held, fence, sent>>
               ELSE Leave(p)
       ELSE UNCHANGED <<status, iteration>> /\ Leave(p)
    /\ UNCHANGED <<task, stamped, age, report, clock, sub, loop, wrote>>

\* The row is made pending whatever it is by now; an error is only logged.
ResetForNextRun(p, ok) ==
    /\ pc[p] = "reset"
    /\ IF ok THEN status' = "pending" /\ iteration' = 0 ELSE UNCHANGED <<status, iteration>>
    /\ Leave(p)
    /\ UNCHANGED <<task, stamped, age, report, clock, sub, loop, wrote>>

\* Between two iterations of one goroutine the row is read again.
Refetch(p, ok) ==
    /\ pc[p] = "refetch"
    /\ IF ok /\ status = "pending" /\ WithinBudget /\ ~overdue
       THEN Goto(p, "dispatched") /\ UNCHANGED <<held, fence, sent>>
       ELSE Leave(p)
    /\ UNCHANGED <<task, row, clock, sub, loop, wrote>>

-----------------------------------------------------------------------------
(* The person, the peers, time and crashes. *)

\* A one-shot task is finalized as cancelled; a periodic one is switched off
\* whatever its status.
Cancel ==
    /\ IF OneShot THEN FinalizeTask("cancelled")
       ELSE /\ status # "canceled"
            /\ status' = "canceled"
            /\ UNCHANGED <<stamped, age, iteration, report>>
    /\ UNCHANGED <<task, clock, sub, loop, worker, wrote>>

\* Mutant: one-shot work can be resumed too.
AnyResumable == status \in {"canceled", "paused"}

Resumable == ~OneShot /\ status \in {"canceled", "paused"}

Resume ==
    /\ Resumable
    /\ status' = "pending"
    /\ UNCHANGED <<task, stamped, age, iteration, report, clock, sub, loop, worker, wrote>>

\* Approve, and WakePausedByPeerTask for the peer the task waits for.  A
\* callback that finds the task not paused yet is dropped.
WakePaused ==
    /\ status = "paused"
    /\ status' = "pending"
    /\ UNCHANGED <<task, stamped, age, iteration, report, clock, sub, loop, worker, wrote>>

\* last_run_at gets older: 10 minutes, then 30.
GrowOld ==
    /\ status \in {"running", "paused"}
    /\ stamped
    /\ age < 2
    /\ age' = age + 1
    /\ UNCHANGED <<task, status, stamped, iteration, report, clock, sub, loop, worker, wrote>>

IntervalElapses ==
    /\ ~OneShot
    /\ ~due
    /\ due' = TRUE
    /\ UNCHANGED <<task, row, overdue, sub, loop, worker, wrote>>

DeadlinePasses ==
    /\ ~overdue
    /\ overdue' = TRUE
    /\ UNCHANGED <<task, row, due, sub, loop, worker, wrote>>

ReviewTimeComes ==
    /\ saved
    /\ ~reviewDue
    /\ reviewDue' = TRUE
    /\ UNCHANGED <<task, row, clock, saved, reviews, loop, worker, wrote>>

Crash(p) ==
    /\ booted[p]
    /\ crashes < MaxCrashes
    /\ crashes' = crashes + 1
    /\ booted' = [booted EXCEPT ![p] = FALSE]
    /\ snap' = [snap EXCEPT ![p] = FALSE]
    /\ Leave(p)
    /\ UNCHANGED <<task, row, clock, sub, wrote>>

-----------------------------------------------------------------------------

LoopStep(p) ==
    \/ \E ok \in BOOLEAN : ReapOrphansAtBoot(p, ok)
    \/ PendingTasks(p)
    \/ Dispatch(p)
    \/ SkipTask(p)
    \/ FailUndispatchable(p)

ClaimStep(p) ==
    \/ GiveUp(p)
    \/ ExpireByWorker(p)
    \/ \E ok \in BOOLEAN : TrySetRunning(p, ok)
    \/ \E ok \in BOOLEAN : ReadClaim(p, ok)
    \/ FailWithoutTools(p)
    \/ RunHandler(p)
    \/ ReuseSubmission(p)
    \/ ReviewNotDue(p)
    \/ LoadFailed(p)

HandlerStep(p) ==
    \/ MessageSend(p)
    \/ HandlerFailed(p)
    \/ PauseTask(p)
    \/ UpdateProgress(p)
    \/ FinalizeEmpty(p)
    \/ SaveTaskSubmission(p)
    \/ SubmitPeriodic(p)
    \/ WriteFailed(p)

FinishStep(p) ==
    \/ VerificationUnavailable(p)
    \/ DeferTaskVerification(p)
    \/ RejectTaskSubmission(p)
    \/ RejectPeriodic(p)
    \/ FinalizeCompleted(p)
    \/ AcceptPeriodic(p)
    \/ SetPendingForNotificationRetry(p)
    \/ Complete(p)
    \/ \E ok \in BOOLEAN : ResetForNextRun(p, ok)
    \/ \E ok \in BOOLEAN : Refetch(p, ok)

Maintenance ==
    \/ MaintainTaskDeadlines
    \/ CompleteExhausted
    \/ ResetStale
    \/ WakeStalePaused

Person == Cancel \/ Resume \/ WakePaused

Time == GrowOld \/ IntervalElapses \/ DeadlinePasses \/ ReviewTimeComes

Next ==
    \/ \E p \in Proc : LoopStep(p) \/ ClaimStep(p) \/ HandlerStep(p) \/ FinishStep(p) \/ Crash(p)
    \/ Maintenance
    \/ Person
    \/ Time

Spec == Init /\ [][Next]_vars

\* The tick runs every minute in a live process, a dead process is started
\* again, and time passes; only one-shot tasks are sure to have a deadline
\* (TaskWallDeadline).  Nothing is assumed of handlers, reviewers, people
\* and peers.
Fairness ==
    /\ \A p \in Proc : WF_vars(\E ok \in BOOLEAN : ReapOrphansAtBoot(p, ok))
    /\ WF_vars(MaintainTaskDeadlines)
    /\ WF_vars(ResetStale)
    /\ WF_vars(WakeStalePaused)
    /\ WF_vars(GrowOld)
    /\ WF_vars(OneShot /\ DeadlinePasses)

FairSpec == Spec /\ Fairness

-----------------------------------------------------------------------------
(* Properties. *)

\* A finalized one-shot task keeps its report and never becomes live again,
\* whichever worker, tick, command or retry comes late (ExpireTask: "late
\* worker completion must never resurrect it").
ReportIsFinal ==
    [][(OneShot /\ report # "none") => (report' = report /\ status' \in Terminal)]_vars

\* A cancelled or otherwise ended one-shot task stays ended even without a
\* report: no write of a worker in flight puts it back in the queue.
EndedStaysEnded ==
    [][(OneShot /\ status \in Terminal) => status' \in Terminal]_vars

\* done means an accepted report, canceled a cancellation report: whoever
\* ends a one-shot task, its status and its artifact tell the same story.
StatusMatchesReport ==
    OneShot => /\ status = "done" => report = "completed"
               /\ status = "canceled" => report = "cancelled"

\* A saved report is stored, put off or removed only by a worker whose claim
\* is still the row's, however many daemons overlap (SaveTaskSubmission,
\* DeferTaskVerification, RejectTaskSubmission).
SubmissionFenced ==
    [][(<<saved, reviews>>' # <<saved, reviews>>) =>
          \E p \in fence : pc[p] \in {"run", "judge"} /\ pc'[p] # pc[p]]_vars

\* With one daemon, research whose report is saved is not repeated: a handler
\* of a one-shot task holds the claim only while no report waits for review.
\* (Two daemons may both read one claim's stamp: ReadClaim.)
NoRepeatedResearch ==
    Cardinality(Proc) = 1 =>
        \A p \in Proc : (OneShot /\ saved /\ pc[p] = "run") => ~Owns(p)

\* Verification is put off at most MaxReviews times for one report.
ReviewsBounded == reviews <= MaxReviews

\* max_iterations is exceeded only by runs selected before the budget ran out:
\* a process has at most one in its worker and one in its dispatch loop, and one
\* of them all was within the budget.
IterationsBounded == iteration + 1 <= MaxIterations + 2 * Cardinality(Proc)

\* A cadence task that keeps producing rejected results does not write to the
\* person again before its cadence has elapsed, but for the runs that a worker or
\* a dispatch loop had already selected when it last elapsed.
CadenceSpaced == kind = "cadence" => wrote <= 2 * Cardinality(Proc)

\* Every one-shot task ends: nothing a handler, reviewer, peer or crash does
\* keeps it open past its deadline (maintainTaskDeadlines).
OneShotEnds == OneShot ~> (status \in Terminal)

\* A row never stays running for ever: an abandoned claim is released by the
\* boot reap or by ResetStale.
NoOrphan == (status = "running") ~> (status # "running")

\* A lost callback does not strand a paused task (WakeStalePaused).
PausedWakes == (status = "paused") ~> (status # "paused")

\* What every state of a task shows: the types, a status that tells the same
\* story as the report, and a bounded number of reviews.
TaskSound == TypeOK /\ StatusMatchesReport /\ ReviewsBounded

\* What a task may spend, whatever snapshots, retries and reviews do: runs,
\* messages to the person, and research on a report that is already there.
BudgetsHold == IterationsBounded /\ CadenceSpaced /\ NoRepeatedResearch

\* No task is stranded: neither an abandoned claim nor a lost callback keeps a
\* row running or paused for ever (boot reap, ResetStale, WakeStalePaused).
NothingStranded == NoOrphan /\ PausedWakes

-----------------------------------------------------------------------------
(* What comments of the code promise and the code does not keep. *)

\* A cancelled recurring task stays off until the person resumes it (Cancel:
\* "Recurring schedules are disabled"); Resume is no step of a worker.
CancelSticks ==
    [][(kind = "recurring" /\ status = "canceled" /\ status' # "canceled") => UNCHANGED pc]_vars
=============================================================================
