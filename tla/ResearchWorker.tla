--------------------------- MODULE ResearchWorker ---------------------------
(* The background handler on its default pipeline (runtime/handler/           *)
(* background.go, plan.go, evidence.go): one unscheduled task that plans,     *)
(* works its plan one step an iteration, and submits a synthesis, with a      *)
(* reviewer behind it.  The progress blob is the only thing that survives     *)
(* from one iteration to the next; a checkpoint merges it into the row while  *)
(* the iteration runs, so that a crash or a failed model call keeps it.       *)
(* The scheduler around the handler (claims, submissions, verdicts) is        *)
(* TaskLifecycle; here it is reduced to what it does to the progress.         *)
EXTENDS Naturals, Sequences, FiniteSets, SequencesExt

CONSTANTS
    WorkerConfigs,    \* tasks: [max, gate, hooks, deadline]
    PlannerPlans,     \* what a planner may answer: plans, with ids and statuses of its own
    PatchOps,         \* operations an executor may propose
    Claims,           \* facts an iteration may record
    EvidenceCap,      \* evidenceMaxEntries
    MaxFaults         \* crashes and failed model calls

RoleStep == [id : Nat, done : BOOLEAN]
RolePlan == [steps : Seq(RoleStep), cur : Nat]

ASSUME WorkerConstants ==
    /\ \A c \in WorkerConfigs : c.max \in Nat \ {0} /\ {c.gate, c.hooks, c.deadline} \subseteq BOOLEAN
    /\ EvidenceCap \in Nat \ {0} /\ MaxFaults \in Nat
    /\ PlannerPlans \subseteq RolePlan
    /\ \A o \in PatchOps : o.op = "add" => o.id \in Nat

VARIABLES
    rwCfg,       \* the task
    rwIter,      \* completed iterations
    rwStatus,    \* pending, running, paused, ended
    rwProg,      \* the progress column
    rwRun,       \* the handler call in flight
    rwLate,      \* the research deadline has passed
    rwFaults,    \* crashes and errors so far
    rwLast,      \* how the last completed iteration ended
    rwSubs,      \* iterations that reached the submission branch
    rwFinal,     \* an iteration has run inside the finalization window
    rwSessions,  \* sessions created
    rwReflex     \* runs of the reflex pipeline

workerVars == <<rwCfg, rwIter, rwStatus, rwProg, rwRun, rwLate, rwFaults, rwLast,
                rwSubs, rwFinal, rwSessions, rwReflex>>

NoPlan == [steps |-> <<>>, cur |-> 0]
NoRun == [on |-> FALSE]
MaxRevisions == 3

-----------------------------------------------------------------------------
(* The role plan. A step is its id and whether it is done; id 0 is the empty  *)
(* string.                                                                    *)

PendingCount(p) == Cardinality({i \in DOMAIN p.steps : ~ p.steps[i].done})

StepAt(p, id) == SelectInSeq(p.steps, LAMBDA s : s.id = id)

\* The pending step that CurrentStepID names, or else the first pending one.
CurrentStep(p) ==
    LET named == SelectInSeq(p.steps, LAMBDA s : s.id = p.cur /\ ~ s.done)
        first == SelectInSeq(p.steps, LAMBDA s : ~ s.done)
    IN  IF p.cur # 0 /\ named # 0 THEN p.steps[named].id
        ELSE IF first # 0 THEN p.steps[first].id ELSE 0

Advance(p) == [p EXCEPT !.cur = CurrentStep(p)]

\* The first step that carries the id is the one marked done.
CompleteStep(p, id) ==
    LET i == StepAt(p, id)
    IN  Advance(IF i = 0 THEN p ELSE [p EXCEPT !.steps[i].done = TRUE])

\* A step without an id gets its position for one, which another step may carry
\* too; the planner's own statuses and current step are kept.
ParsePlan(answer) ==
    LET numbered(i) == [answer.steps[i] EXCEPT !.id = IF @ = 0 THEN i ELSE @]
        p == [answer EXCEPT !.steps = [i \in DOMAIN answer.steps |-> numbered(i)]]
    IN  IF CurrentStep(p) = 0 THEN p ELSE Advance(p)

NextStepId(p) ==
    LET ids == {p.steps[i].id : i \in DOMAIN p.steps} \cup {0}
    IN  1 + CHOOSE n \in ids : \A m \in ids : m <= n

InsertAfter(p, after, s) ==
    LET i == StepAt(p, after)
    IN  [p EXCEPT !.steps = IF after = 0 \/ i = 0 THEN Append(@, s)
                            ELSE InsertAt(@, i + 1, s)]

RemoveStep(p, id) == [p EXCEPT !.steps = RemoveAt(@, StepAt(p, id))]

IsPendingStep(p, id) == StepAt(p, id) # 0 /\ ~ p.steps[StepAt(p, id)].done

ApplyOpAnyStep(acc, op, remaining) ==          \* mutant: drops a finished step
    LET p == acc.plan
    IN  IF op.op = "remove" /\ StepAt(p, op.id) # 0
        THEN [plan |-> RemoveStep(p, op.id), applied |-> TRUE]
        ELSE acc

\* One operation of a patch, and whether it was applied: no step past the
\* iteration budget, no unknown skill, no change to a step that is done.
ApplyOp(acc, op, remaining) ==
    LET p == acc.plan
        fresh == [id |-> IF op.id = 0 \/ StepAt(p, op.id) # 0 THEN NextStepId(p) ELSE op.id,
                  done |-> FALSE]
        took(q) == [plan |-> q, applied |-> TRUE]
    IN  CASE op.op = "add" /\ PendingCount(p) < remaining /\ op.known ->
                 took(InsertAfter(p, op.after, fresh))
          [] op.op = "remove" /\ IsPendingStep(p, op.id) -> took(RemoveStep(p, op.id))
          [] op.op = "update" /\ IsPendingStep(p, op.id) -> took(p)
          [] OTHER -> acc

ApplyPatch(p, ops, remaining) ==
    LET out == FoldLeft(LAMBDA acc, op : ApplyOp(acc, op, remaining),
                        [plan |-> p, applied |-> FALSE], ops)
    IN  IF out.applied THEN Advance(out.plan) ELSE out.plan

-----------------------------------------------------------------------------
(* The evidence ledger: a claim already carried is not recorded again, one    *)
(* without a source never, and the oldest entries fall off at the cap.        *)

EvidenceKey(e) == e.claim

LastEntries(s) == IF Len(s) > EvidenceCap THEN SubSeq(s, Len(s) - EvidenceCap + 1, Len(s)) ELSE s

Recorded(out, c, iteration) ==
    IF \E i \in DOMAIN out : EvidenceKey(out[i]) = c THEN out
    ELSE Append(out, [claim |-> c, iteration |-> iteration])

MergeEvidence(carried, claims, iteration) ==
    LastEntries(FoldLeft(LAMBDA out, c : Recorded(out, c, iteration), carried, claims))

-----------------------------------------------------------------------------
(* What kind of iteration this is.                                            *)

IsLast == rwIter + 1 >= rwCfg.max

\* Acceptance-gated tasks of four iterations or more keep one for a repair.
ReserveRepair == rwCfg.gate /\ rwCfg.max >= 4

\* Planning that yielded no plan falls back to the flat flow.
PlanActive ==
    /\ rwCfg.max >= 4 /\ rwCfg.hooks
    /\ ~ (rwProg.plan = NoPlan /\ rwIter > 0)

PlanExhausted == rwProg.plan # NoPlan /\ PendingCount(rwProg.plan) = 0

SynthesisDeadline ==
    \/ IsLast
    \/ ReserveRepair /\ rwIter + 2 >= rwCfg.max
    \/ rwProg.phase = "finalizing" \/ PlanExhausted
    \/ rwLate

\* The prompt the iteration is given.
PhaseKey ==
    IF rwProg.peer # 0 /\ rwProg.phase = "waiting" THEN "resume"
    ELSE IF PlanActive
         THEN CASE rwProg.plan = NoPlan -> "plan"
                [] CurrentStep(rwProg.plan) # 0 /\ ~ SynthesisDeadline -> "step"
                [] OTHER -> "synthesis"
    ELSE IF rwIter = 0 THEN "planning"
    ELSE IF SynthesisDeadline THEN "synthesis" ELSE "execution"

\* Iterations left for steps once this one, a synthesis and, behind a
\* reviewer, a repair are set aside.
StepsLeft ==
    LET spent == rwIter + 1 + (IF ReserveRepair THEN 2 ELSE 1)
    IN  IF spent >= rwCfg.max THEN 0 ELSE rwCfg.max - spent

-----------------------------------------------------------------------------
WorkerInit ==
    /\ rwCfg \in WorkerConfigs
    /\ rwIter = 0 /\ rwStatus = "pending" /\ rwRun = NoRun
    /\ rwProg = [plan |-> NoPlan, phase |-> "", peer |-> 0, rev |-> 0, session |-> 0,
                 blanks |-> 0, feedback |-> "", evidence |-> <<>>, context |-> FALSE]
    /\ rwLate = FALSE /\ rwFaults = 0 /\ rwLast = "none" /\ rwSubs = 0
    /\ rwFinal = FALSE /\ rwSessions = 0 /\ rwReflex = 0

WorkingKeepsFeedback == rwProg             \* mutant: the key round-trips

\* The progress the handler works on: every key but the feedback, which it
\* reads from the row and never writes back.
Working == [rwProg EXCEPT !.feedback = ""]

\* Everything up to the model call: the session is found or created and the
\* first checkpoint written; the feedback, the prompt and the deadline are read.
StartIteration ==
    /\ rwStatus = "pending" /\ rwIter < rwCfg.max
    /\ LET s == IF rwProg.session = 0 THEN rwSessions + 1 ELSE rwProg.session
           prog == [Working EXCEPT !.session = s]
       IN  /\ rwSessions' = IF rwProg.session = 0 THEN rwSessions + 1 ELSE rwSessions
           /\ \/ /\ rwProg' = [rwProg EXCEPT !.session = s]
                 /\ rwStatus' = "running"
                 /\ rwRun' = [on |-> TRUE, prog |-> prog, key |-> PhaseKey,
                              final |-> SynthesisDeadline, fb |-> rwProg.feedback,
                              ready |-> FALSE]
                 /\ UNCHANGED rwFaults
              \/ /\ rwFaults < MaxFaults           \* the checkpoint failed
                 /\ rwFaults' = rwFaults + 1
                 /\ UNCHANGED <<rwProg, rwStatus, rwRun>>
    /\ UNCHANGED <<rwCfg, rwIter, rwLate, rwLast, rwSubs, rwFinal, rwReflex>>

\* The injected context is prepared once and carried in the progress.
PrepareContext ==
    /\ rwStatus = "running" /\ ~ rwRun.ready
    /\ rwRun' = [rwRun EXCEPT !.ready = TRUE, !.prog.context = TRUE]
    /\ rwReflex' = IF rwRun.prog.context THEN rwReflex ELSE rwReflex + 1
    /\ UNCHANGED <<rwCfg, rwIter, rwStatus, rwProg, rwLate, rwFaults, rwLast, rwSubs,
                   rwFinal, rwSessions>>

\* A checkpoint of the loop merges the working progress into the row; a key
\* the handler does not carry, the feedback, stays.
SaveCheckpoint ==
    /\ rwStatus = "running" /\ rwRun.ready
    /\ rwProg' = [rwRun.prog EXCEPT !.feedback = rwProg.feedback]
    /\ UNCHANGED <<rwCfg, rwIter, rwStatus, rwRun, rwLate, rwFaults, rwLast, rwSubs,
                   rwFinal, rwSessions, rwReflex>>

\* The process dies, or the model call fails: the row goes back to pending
\* with what the checkpoints wrote.
LoseIteration ==
    /\ rwStatus = "running" /\ rwFaults < MaxFaults
    /\ rwFaults' = rwFaults + 1 /\ rwStatus' = "pending" /\ rwRun' = NoRun
    /\ UNCHANGED <<rwCfg, rwIter, rwProg, rwLate, rwLast, rwSubs, rwFinal, rwSessions, rwReflex>>

-----------------------------------------------------------------------------
(* The end of an iteration.                                                   *)

Complete(status, prog, last) ==
    /\ rwStatus' = status /\ rwProg' = prog /\ rwLast' = last
    /\ rwIter' = rwIter + 1 /\ rwRun' = NoRun
    /\ rwFinal' = (rwFinal \/ rwRun.final)
    /\ UNCHANGED <<rwCfg, rwLate, rwFaults, rwSessions, rwReflex>>

\* The model call was cut off by the research deadline alone: the task goes on
\* to finalization instead of failing.
SoftDeadline ==
    /\ rwStatus = "running" /\ rwRun.ready /\ ~ rwRun.final /\ rwLate
    /\ Complete("pending", [rwRun.prog EXCEPT !.phase = "finalizing"], "cut")
    /\ UNCHANGED rwSubs

\* The plan after the reply: built by the planner, or its current step done
\* and the executor's patch applied.
Planned(prog, reply) ==
    IF ~ PlanActive THEN prog.plan
    ELSE IF prog.plan = NoPlan THEN IF reply.plan.steps = <<>> THEN NoPlan ELSE ParsePlan(reply.plan)
    ELSE IF CurrentStep(prog.plan) # 0 /\ ~ rwRun.final
         THEN ApplyPatch(CompleteStep(prog.plan, CurrentStep(prog.plan)), reply.ops, StepsLeft)
    ELSE prog.plan

\* A new peer task restarts the count of revisions; a revise call adds one.
Revisions(prog, reply) ==
    (IF reply.peer # 0 /\ reply.peer # prog.peer THEN 0 ELSE prog.rev)
    + (IF reply.revise THEN 1 ELSE 0)

Bookkept(reply) ==
    LET prog == rwRun.prog
    IN  [prog EXCEPT !.plan = Planned(prog, reply),
                     !.rev = Revisions(prog, reply),
                     !.phase = "iteration",
                     !.evidence = MergeEvidence(@, reply.claims, rwIter + 1),
                     !.peer = IF reply.peer # 0 THEN reply.peer ELSE @]

\* [DONE], or a reply inside the finalization window, is the submission. A
\* blank one is no submission while a reviewer waits and iterations remain:
\* the next iteration gets a note instead. Otherwise the task ends, unless
\* the reviewer rejects it and there is an iteration left.
Submit(reply) ==
    /\ reply.done \/ rwRun.final
    /\ LET prog == [Bookkept(reply) EXCEPT !.blanks = IF reply.blank THEN @ + 1 ELSE 0]
           noted(why) == [prog EXCEPT !.feedback = why]
       IN  IF reply.blank
           THEN IF rwCfg.gate /\ ~ IsLast
                THEN Complete("pending", noted("blank"), "blank")
                ELSE Complete("ended", prog, "empty")
           ELSE \/ Complete("ended", prog, "accepted")
                \/ /\ rwCfg.gate
                   /\ Complete(IF IsLast THEN "ended" ELSE "pending", noted("rejected"), "rejected")
    /\ rwSubs' = rwSubs + 1

\* Three revisions of one peer task pause the task for a person.
Escalate(reply) ==
    /\ ~ reply.done /\ ~ rwRun.final
    /\ Bookkept(reply).rev >= MaxRevisions
    /\ Complete("paused", [Bookkept(reply) EXCEPT !.phase = "error_loop"], "escalated")
    /\ UNCHANGED rwSubs

\* A peer task was started, or the reply asks for it: wait.
Pause(reply) ==
    /\ ~ reply.done /\ ~ rwRun.final
    /\ Bookkept(reply).rev < MaxRevisions
    /\ reply.peer # 0 \/ reply.pause
    /\ Complete("paused", [Bookkept(reply) EXCEPT !.phase = "waiting"], "paused")
    /\ UNCHANGED rwSubs

Continue(reply) ==
    /\ ~ reply.done /\ ~ rwRun.final
    /\ Bookkept(reply).rev < MaxRevisions
    /\ reply.peer = 0 /\ ~ reply.pause
    /\ Complete("pending", Bookkept(reply), "continued")
    /\ UNCHANGED rwSubs

\* What a reply may carry, limited to what this iteration will read: no tools
\* in the finalization window, a plan only from the planner, a patch only from
\* an executor.
Replies ==
    LET planner == PlanActive /\ rwRun.prog.plan = NoPlan
        executor == PlanActive /\ rwRun.prog.plan # NoPlan /\ ~ rwRun.final
        tools == ~ rwRun.final
    IN  [done : IF rwRun.final THEN {FALSE} ELSE BOOLEAN,
         blank : BOOLEAN,
         pause : IF tools THEN BOOLEAN ELSE {FALSE},
         plan : IF planner THEN PlannerPlans \cup {NoPlan} ELSE {NoPlan},
         ops : IF executor THEN {<<>>} \cup {<<o>> : o \in PatchOps} ELSE {<<>>},
         peer : IF tools THEN {0, 1} ELSE {0},
         revise : IF tools THEN BOOLEAN ELSE {FALSE},
         claims : {<<>>} \cup {<<c>> : c \in Claims}]

FinishIteration ==
    /\ rwStatus = "running" /\ rwRun.ready
    /\ \E reply \in Replies :
          \/ Submit(reply)
          \/ Escalate(reply)
          \/ Pause(reply)
          \/ Continue(reply)

\* The peer's callback, or the sweep of stale pauses, puts the task back.
Wake ==
    /\ rwStatus = "paused" /\ rwStatus' = "pending"
    /\ UNCHANGED <<rwCfg, rwIter, rwProg, rwRun, rwLate, rwFaults, rwLast, rwSubs, rwFinal,
                   rwSessions, rwReflex>>

\* An iteration budget that ran out without a submission ends the task.
Exhaust ==
    /\ rwStatus = "pending" /\ rwIter >= rwCfg.max
    /\ rwStatus' = "ended"
    /\ UNCHANGED <<rwCfg, rwIter, rwProg, rwRun, rwLate, rwFaults, rwLast, rwSubs, rwFinal,
                   rwSessions, rwReflex>>

\* The research deadline, the task's deadline less the finalization reserve.
ResearchDeadline ==
    /\ rwCfg.deadline /\ ~ rwLate /\ rwStatus # "ended"
    /\ rwLate' = TRUE
    /\ UNCHANGED <<rwCfg, rwIter, rwStatus, rwProg, rwRun, rwFaults, rwLast, rwSubs, rwFinal,
                   rwSessions, rwReflex>>

WorkerEnded == rwStatus = "ended" /\ UNCHANGED workerVars

WorkerNext ==
    \/ StartIteration \/ PrepareContext \/ SaveCheckpoint \/ LoseIteration
    \/ SoftDeadline \/ FinishIteration \/ Wake \/ Exhaust \/ ResearchDeadline
    \/ WorkerEnded

WorkerSpec == WorkerInit /\ [][WorkerNext]_workerVars

-----------------------------------------------------------------------------
(* Properties                                                                 *)

\* The feedback an iteration is shown belongs to the submission just before
\* it: whatever crashes, errors and retries came between, the row carries a
\* note exactly when the last completed iteration was a rejected or blank one.
FeedbackFresh ==
    rwStatus # "ended" =>
        rwProg.feedback = (IF rwLast \in {"blank", "rejected"} THEN rwLast ELSE "")

\* A gated task of four iterations or more reaches its last one with a
\* submission behind it, so that the last is a repair and not a first try.
RepairReserved ==
    rwCfg.gate /\ rwCfg.max >= 4 /\ IsLast /\ rwStatus # "ended" => rwSubs >= 1

\* Once an iteration has run inside the finalization window, every later one
\* does: a rejected or blank synthesis never goes back to research.
FinalizationSticks ==
    rwFinal /\ rwStatus \in {"pending", "running"} =>
        IF rwStatus = "running" THEN rwRun.final ELSE SynthesisDeadline

\* One session and one run of the reflex pipeline serve the whole task; only a
\* lost iteration can cost another one.
SessionAndContextKept ==
    /\ rwSessions <= 1 + rwFaults
    /\ rwReflex <= 1 + rwFaults

\* No claim is carried twice, entries keep the order they were settled in, and
\* the ledger stays under its cap.
EvidenceIsHistory ==
    LET ev == rwProg.evidence
    IN  /\ Len(ev) <= EvidenceCap
        /\ \A i, j \in DOMAIN ev : i < j => /\ ev[i].claim # ev[j].claim
                                           /\ ev[i].iteration <= ev[j].iteration

\* What an iteration finds and leaves: fresh feedback, a repair kept in reserve, a
\* finalization that sticks, one session, and a bounded evidence ledger, through
\* every crash, pause and rejection (Background.Run).
ResearchSound ==
    /\ FeedbackFresh /\ RepairReserved /\ FinalizationSticks
    /\ SessionAndContextKept /\ EvidenceIsHistory

\* A finished step stays in the plan, finished, whatever the executor patches,
\* and a plan is never dropped.
StepsStayDone ==
    /\ rwProg.plan # NoPlan => rwProg'.plan # NoPlan
    /\ \A i \in DOMAIN rwProg.plan.steps :
          rwProg.plan.steps[i].done =>
              \E j \in DOMAIN rwProg'.plan.steps : rwProg'.plan.steps[j] = rwProg.plan.steps[i]

\* No two steps carry one id, which the handler's own ids never break.
IdsDistinct(p) == \A i, j \in DOMAIN p.steps : p.steps[i].id = p.steps[j].id => i = j
IdsStayDistinct == rwProg.plan # NoPlan /\ IdsDistinct(rwProg.plan) => IdsDistinct(rwProg'.plan)

\* An execution iteration that completes finishes one more step, if the ids of
\* the plan are distinct: completeStep marks the first step that carries the id,
\* so that of two with one id the second is never finished.
PlanAdvances ==
    rwRun.on /\ rwIter' = rwIter + 1 /\ rwRun.key = "step" /\ rwLast' # "cut" /\ IdsDistinct(rwProg.plan) =>
        LET finished(p) == Cardinality({i \in DOMAIN p.steps : p.steps[i].done})
        IN  finished(rwProg'.plan) > finished(rwProg.plan)

\* The role plan only moves forward, through rejections, patches, pauses and
\* lost iterations (background.go, plan.go).
PlanMovesForward == [][StepsStayDone /\ IdsStayDistinct /\ PlanAdvances]_workerVars
=============================================================================
