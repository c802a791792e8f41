------------------------------ MODULE GoalPlan ------------------------------
(* The structured goal executor (runtime/handler/plan_executor.go,            *)
(* plan_steps.go, plan_parse.go): a model answers a plan once, then one step  *)
(* runs per iteration: a tool, a wait for a peer's callback, a decision that  *)
(* approves or sends the work back, a milestone, the end.  The progress is    *)
(* saved when the step is over, so a crash in between runs the step again.    *)
EXTENDS Naturals, Sequences, FiniteSets, SequencesExt

CONSTANTS
    GoalPlans,       \* plans a model may answer: sequences of steps
    MaxIterations,   \* the task's iteration cap
    MaxPeers,        \* peer tasks ever started
    MaxCrashes       \* steps whose progress is lost

\* A step calls a tool (which may start a peer's work), waits, decides (with or
\* without a precondition), reports, ends, or is of no known kind.
PlanStep == [action : {"tool", "wait", "decide", "milestone", "done", "other"}, async : BOOLEAN, guarded : BOOLEAN]

ASSUME GoalConstants ==
    /\ MaxIterations \in Nat \ {0} /\ MaxPeers \in Nat /\ MaxCrashes \in Nat
    /\ GoalPlans \subseteq Seq(PlanStep)

VARIABLES
    gpProg,       \* the progress column
    gpStatus,     \* pending, paused, ended
    gpIter,       \* completed iterations
    gpPeers,      \* peer tasks at work
    gpStarted,    \* peer tasks ever started
    gpApproved,   \* decisions that hold for the current pass over the plan
    gpSent,       \* REVISE decisions since the last approval
    gpCrashes

goalVars == <<gpProg, gpStatus, gpIter, gpPeers, gpStarted, gpApproved, gpSent, gpCrashes>>

MaxStepRetries == 3
MinPlanSteps == 4

Fresh == [plan |-> <<>>, cur |-> 1, peer |-> 0, retry |-> 0, revise |-> 0, async |-> 0, phase |-> ""]

IsStep(prog, i, action) == i <= Len(prog.plan) /\ prog.plan[i].action = action

\* The end of an iteration, or a crash before its progress is written.
SaveGoal(status, prog) ==
    \/ /\ gpStatus' = status /\ gpProg' = prog /\ gpIter' = gpIter + 1
       /\ UNCHANGED gpCrashes
    \/ /\ gpCrashes < MaxCrashes /\ gpCrashes' = gpCrashes + 1
       /\ UNCHANGED <<gpStatus, gpProg, gpIter>>

Running == gpStatus = "pending" /\ gpIter < MaxIterations
Planning == Running /\ gpProg.plan = <<>>
AtStep(action) == Running /\ gpProg.plan # <<>> /\ IsStep(gpProg, gpProg.cur, action)

PeersUntouched == UNCHANGED <<gpPeers, gpStarted>>
GateUntouched == UNCHANGED <<gpApproved, gpSent>>

-----------------------------------------------------------------------------
\* An answer that is no plan, or too short a one, counts towards the cap.
PlanInvalid ==
    /\ Planning
    /\ LET n == gpProg.retry + 1
       IN  SaveGoal(IF n >= MaxStepRetries THEN "ended" ELSE "pending",
                    [gpProg EXCEPT !.retry = n, !.phase = "plan_invalid"])
    /\ PeersUntouched /\ GateUntouched

\* A plan of four steps or more is accepted if one of them calls a tool; one
\* that does not is asked for again.
PlanAccepted ==
    /\ Planning
    /\ \E plan \in GoalPlans :
          /\ Len(plan) >= MinPlanSteps
          /\ LET base == [gpProg EXCEPT !.retry = 0]
                 useful == \E i \in DOMAIN plan : plan[i].action = "tool"
             IN  SaveGoal("pending", IF useful THEN [base EXCEPT !.plan = plan, !.cur = 1, !.phase = "executing"]
                                     ELSE [base EXCEPT !.phase = "plan_invalid"])
    /\ PeersUntouched /\ GateUntouched

\* The plan ran out without a done step.
PlanExhaustedGoal ==
    /\ Running /\ gpProg.plan # <<>> /\ gpProg.cur > Len(gpProg.plan)
    /\ SaveGoal("ended", gpProg) /\ PeersUntouched /\ GateUntouched

-----------------------------------------------------------------------------
(* A tool step. "already exists" is a success that names no peer.             *)

ToolError ==
    /\ AtStep("tool")
    /\ LET n == gpProg.retry + 1
       IN  SaveGoal(IF n >= MaxStepRetries THEN "ended" ELSE "pending",
                    [gpProg EXCEPT !.retry = n, !.phase = "tool_error"])
    /\ PeersUntouched /\ GateUntouched

AfterToolRewindsToWait(prog) ==               \* mutant: a revision repeats the wait
    LET next == prog.cur + 1
    IN  IF IsStep(prog, next, "wait")
        THEN [status |-> "paused", prog |-> [prog EXCEPT !.cur = next + 1, !.async = next]]
        ELSE [status |-> "pending", prog |-> [prog EXCEPT !.cur = next]]

\* The step after a tool: a wait is taken at once, as a pause when a peer is
\* known, and the tool becomes the point a revision rewinds to.
AfterTool(prog) ==
    LET next == prog.cur + 1
        moved == [prog EXCEPT !.cur = next, !.phase = "step"]
    IN  IF ~ IsStep(prog, next, "wait") THEN [status |-> "pending", prog |-> moved]
        ELSE IF prog.peer # 0
             THEN [status |-> "paused",
                   prog |-> [moved EXCEPT !.cur = next + 1, !.async = next - 1, !.phase = "waiting"]]
        ELSE [status |-> "pending", prog |-> [moved EXCEPT !.cur = next + 1]]

ToolSuccess ==
    /\ AtStep("tool")
    /\ LET async == gpProg.plan[gpProg.cur].async /\ gpStarted < MaxPeers
           peer == IF async THEN gpStarted + 1 ELSE gpProg.peer
           out == AfterTool([gpProg EXCEPT !.retry = 0, !.peer = peer])
       IN  /\ gpPeers' = IF async THEN gpPeers \cup {peer} ELSE gpPeers
           /\ gpStarted' = IF async THEN peer ELSE gpStarted
           /\ SaveGoal(out.status, out.prog)
    /\ GateUntouched

\* A wait reached on its own pauses only when a peer is being tracked.
WaitStep ==
    /\ AtStep("wait")
    /\ LET moved == [gpProg EXCEPT !.cur = @ + 1]
       IN  IF gpProg.peer = 0 THEN SaveGoal("pending", moved)
           ELSE SaveGoal("paused", [moved EXCEPT !.phase = "waiting"])
    /\ PeersUntouched /\ GateUntouched

MilestoneStep ==
    /\ AtStep("milestone")
    /\ SaveGoal("paused", [gpProg EXCEPT !.cur = @ + 1, !.phase = "milestone"])
    /\ PeersUntouched /\ GateUntouched

DoneStep ==
    /\ AtStep("done") /\ SaveGoal("ended", gpProg)
    /\ PeersUntouched /\ GateUntouched

UnknownStep ==
    /\ AtStep("other") /\ SaveGoal("pending", [gpProg EXCEPT !.cur = @ + 1])
    /\ PeersUntouched /\ GateUntouched

-----------------------------------------------------------------------------
(* A decision. A failed precondition revises without asking the model; an     *)
(* answer that is not an approval is a revision.                              *)

\* The reviewer is asked only when the precondition holds or cannot be read.
PreconditionMet(step, ready) == step.guarded => ready

Approve ==
    /\ AtStep("decide")
    /\ \E ready \in BOOLEAN : PreconditionMet(gpProg.plan[gpProg.cur], ready)
    /\ SaveGoal("pending", [gpProg EXCEPT !.cur = @ + 1, !.retry = 0, !.revise = 0, !.phase = "step"])
    /\ gpApproved' = IF gpIter' > gpIter THEN gpApproved \cup {gpProg.cur} ELSE gpApproved
    /\ gpSent' = IF gpIter' > gpIter THEN 0 ELSE gpSent
    /\ PeersUntouched

\* Back to the last step that paused on a peer, if there is one behind.
Rewound(prog) == IF prog.async > 0 /\ prog.async < prog.cur THEN prog.async ELSE prog.cur

\* The third revision ends the goal; an earlier one rewinds and pauses, after
\* telling the peer if the plan says so.
HandleRevise ==
    /\ AtStep("decide")
    /\ LET n == gpProg.revise + 1
           to == Rewound(gpProg)
       IN  /\ IF n >= MaxStepRetries THEN SaveGoal("ended", [gpProg EXCEPT !.revise = n])
              ELSE SaveGoal("paused", [gpProg EXCEPT !.revise = n, !.cur = to, !.phase = "waiting_for_revise"])
           /\ gpApproved' = IF gpIter' > gpIter THEN {d \in gpApproved : d < to} ELSE gpApproved
           /\ gpSent' = IF gpIter' > gpIter THEN gpSent + 1 ELSE gpSent
    /\ PeersUntouched

-----------------------------------------------------------------------------
\* A peer finishes and calls back: the task wakes if it is paused on that
\* peer, and the callback is lost otherwise.
PeerCallback ==
    \E p \in gpPeers :
        /\ gpPeers' = gpPeers \ {p}
        /\ IF gpStatus = "paused" /\ gpProg.peer = p
           THEN gpStatus' = "pending"
           ELSE UNCHANGED gpStatus
        /\ UNCHANGED <<gpProg, gpIter, gpStarted, gpApproved, gpSent, gpCrashes>>

\* A paused task is swept back after half an hour, or approved by a person.
WakeGoal ==
    /\ gpStatus = "paused" /\ gpStatus' = "pending"
    /\ UNCHANGED <<gpProg, gpIter, gpPeers, gpStarted, gpApproved, gpSent, gpCrashes>>

GoalOutOfIterations ==
    /\ gpStatus = "pending" /\ gpIter >= MaxIterations /\ gpStatus' = "ended"
    /\ UNCHANGED <<gpProg, gpIter, gpPeers, gpStarted, gpApproved, gpSent, gpCrashes>>

GoalInit ==
    /\ gpProg = Fresh /\ gpStatus = "pending" /\ gpIter = 0
    /\ gpPeers = {} /\ gpStarted = 0
    /\ gpApproved = {} /\ gpSent = 0 /\ gpCrashes = 0

GoalEnded == gpStatus = "ended" /\ UNCHANGED goalVars

GoalNext ==
    \/ PlanInvalid \/ PlanAccepted \/ PlanExhaustedGoal
    \/ ToolError \/ ToolSuccess \/ WaitStep \/ MilestoneStep \/ DoneStep \/ UnknownStep
    \/ Approve \/ HandleRevise
    \/ PeerCallback \/ WakeGoal \/ GoalOutOfIterations \/ GoalEnded

GoalSpec == GoalInit /\ [][GoalNext]_goalVars

-----------------------------------------------------------------------------
(* Properties                                                                 *)

\* No step beyond a decision runs unless that decision approved the work of
\* this pass: a revision that rewinds takes the later approvals with it.
GatesHold ==
    \A d \in 1 .. gpProg.cur - 1 : IsStep(gpProg, d, "decide") => d \in gpApproved

\* A revision rewinds to a tool that is followed by its wait, before the
\* decision: the async work is driven again and nothing earlier is.
RewindsToAsync ==
    gpProg.async # 0 => /\ IsStep(gpProg, gpProg.async, "tool")
                        /\ IsStep(gpProg, gpProg.async + 1, "wait")

\* Successful retries of the work do not hide a reviewer that keeps refusing:
\* the third refusal without an approval ends the goal, and no earlier one.
RefusalsCapped ==
    /\ gpSent <= MaxStepRetries
    /\ gpSent = MaxStepRetries => gpStatus = "ended"

\* What the goal executor promises of decisions: nothing runs past one that did not
\* approve, a revision returns to the async work, and refusals are capped
\* (execDecideStep).
GoalSound == GatesHold /\ RewindsToAsync /\ RefusalsCapped
=============================================================================
