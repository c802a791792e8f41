--------------------------- MODULE RuntimeProofs ---------------------------
(***************************************************************************)
(* Proofs about what runs inside one agent, for every value of the         *)
(* constants: what a task's handler runs (GoalPlan, TaskProgram,           *)
(* ResearchWorker), the bounded model/tool loop (AgentLoop), the session   *)
(* store the loop reads and writes (SessionHistory) and the prompt it is   *)
(* given (AgentPrompt).                                                    *)
(***************************************************************************)
EXTENDS GoalPlan, TaskProgram, ResearchWorker, AgentLoop, SessionHistory, AgentPrompt, TallyProofs, FiniteSetTheorems

-----------------------------------------------------------------------------
(* The component GoalPlan                                                     *)

GoalProgress == [plan : Seq(PlanStep), cur : Nat \ {0}, peer : Nat, retry : Nat, revise : Nat, async : Nat,
                 phase : {"", "plan_invalid", "executing", "tool_error", "step", "waiting", "milestone",
                          "waiting_for_revise"}]

GoalTypeOK ==
    /\ gpProg \in GoalProgress
    /\ gpStatus \in {"pending", "paused", "ended"}
    /\ gpIter \in Nat /\ gpPeers \subseteq Nat /\ gpStarted \in Nat /\ gpApproved \subseteq Nat
    /\ gpSent \in Nat /\ gpCrashes \in Nat

\* Before a plan is accepted there is nothing behind and nothing to return to.
NoPlanYet(prog) == prog.plan = <<>> => prog.async = 0 /\ prog.revise = 0

\* Between the point a revision returns to and the current step lies no decision
\* once the work was refused: passing one takes an approval, which forgives.
NothingDecidedBetween(prog) ==
    prog.revise > 0 /\ prog.async > 0 => \A d \in prog.async .. prog.cur - 1 : ~ IsStep(prog, d, "decide")

GatesHoldOf(prog, approved) == \A d \in 1 .. prog.cur - 1 : IsStep(prog, d, "decide") => d \in approved
RewindsOf(prog) == prog.async # 0 => IsStep(prog, prog.async, "tool") /\ IsStep(prog, prog.async + 1, "wait")
CappedOf(prog, status) ==
    prog.revise <= MaxStepRetries /\ (prog.revise = MaxStepRetries => status = "ended")

\* The same of a progress about to be saved.
ProgressSound(prog, approved, sent, status) ==
    /\ prog \in GoalProgress /\ NoPlanYet(prog) /\ NothingDecidedBetween(prog)
    /\ GatesHoldOf(prog, approved) /\ RewindsOf(prog) /\ CappedOf(prog, status) /\ sent = prog.revise

GoalIInv == GoalTypeOK /\ ProgressSound(gpProg, gpApproved, gpSent, gpStatus)

-----------------------------------------------------------------------------
(* What one iteration changes                                                 *)

\* What is known of a goal whose step runs.
LEMMA RunningGoal ==
  ASSUME GoalIInv, Running
  PROVE  /\ gpProg \in GoalProgress /\ gpSent = gpProg.revise /\ gpProg.revise < MaxStepRetries
         /\ gpProg.cur \in Nat \ {0} /\ gpProg.revise \in Nat /\ gpProg.async \in Nat /\ gpProg.peer \in Nat
         /\ gpProg.retry \in Nat /\ gpProg.plan \in Seq(PlanStep)
<1>1. gpProg \in GoalProgress /\ gpSent = gpProg.revise /\ CappedOf(gpProg, gpStatus)
  BY DEF GoalIInv, ProgressSound
<1>2. /\ gpProg.cur \in Nat \ {0} /\ gpProg.revise \in Nat /\ gpProg.async \in Nat /\ gpProg.peer \in Nat
      /\ gpProg.retry \in Nat /\ gpProg.plan \in Seq(PlanStep)
  BY <1>1 DEF GoalProgress
<1>3. gpProg.revise < MaxStepRetries BY <1>1, <1>2 DEF CappedOf, Running, MaxStepRetries
<1> QED BY <1>1, <1>2, <1>3

\* A step that saves a sound progress, or loses it in a crash.
LEMMA SaveKeeps ==
  ASSUME GoalIInv, NEW status \in {"pending", "paused", "ended"}, NEW prog, SaveGoal(status, prog),
         ProgressSound(prog, gpApproved, gpSent, status), gpPeers' \subseteq Nat, gpStarted' \in Nat, GateUntouched
  PROVE  GoalIInv'
<1>1. CASE gpStatus' = status /\ gpProg' = prog /\ gpIter' = gpIter + 1 /\ UNCHANGED gpCrashes
  <2>1. ProgressSound(gpProg', gpApproved', gpSent', gpStatus') BY <1>1 DEF GateUntouched
  <2>2. GoalTypeOK' BY <1>1, <2>1 DEF GoalTypeOK, GoalIInv, GateUntouched, ProgressSound
  <2> QED BY <2>1, <2>2 DEF GoalIInv
<1>2. CASE gpCrashes' = gpCrashes + 1 /\ UNCHANGED <<gpStatus, gpProg, gpIter>>
  <2>1. ProgressSound(gpProg', gpApproved', gpSent', gpStatus') BY <1>2 DEF GateUntouched, GoalIInv
  <2>2. GoalTypeOK' BY <1>2 DEF GoalTypeOK, GoalIInv, GateUntouched
  <2> QED BY <2>1, <2>2 DEF GoalIInv
<1> QED BY <1>1, <1>2 DEF SaveGoal

\* Moving over steps that are no decisions.
LEMMA MovesOn ==
  ASSUME GoalIInv, Running, NEW q \in GoalProgress, NEW status,
         q.plan = gpProg.plan, q.revise = gpProg.revise, q.async = gpProg.async, q.cur >= gpProg.cur,
         \A d \in gpProg.cur .. q.cur - 1 : ~ IsStep(gpProg, d, "decide")
  PROVE  ProgressSound(q, gpApproved, gpSent, status)
<1>1. /\ gpProg \in GoalProgress /\ gpSent = gpProg.revise /\ gpProg.revise < MaxStepRetries
      /\ gpProg.cur \in Nat \ {0} /\ gpProg.revise \in Nat /\ gpProg.async \in Nat
  BY RunningGoal
<1>2. q.cur \in Nat BY DEF GoalProgress
<1>3. \A d \in Nat, a \in {"tool", "wait", "decide"} : IsStep(q, d, a) = IsStep(gpProg, d, a) BY DEF IsStep
<1>4. /\ NoPlanYet(gpProg) /\ NothingDecidedBetween(gpProg) /\ GatesHoldOf(gpProg, gpApproved)
      /\ RewindsOf(gpProg)
  BY DEF GoalIInv, ProgressSound
<1>5. NoPlanYet(q) BY <1>4 DEF NoPlanYet
<1>6. NothingDecidedBetween(q)
  <2> SUFFICES ASSUME q.revise > 0, q.async > 0, NEW d \in q.async .. q.cur - 1 PROVE ~ IsStep(q, d, "decide")
    BY DEF NothingDecidedBetween
  <2>1. d \in Nat BY <1>1, <1>2
  <2>2. CASE d < gpProg.cur BY <1>1, <1>3, <1>4, <2>1, <2>2 DEF NothingDecidedBetween
  <2>3. CASE d >= gpProg.cur BY <1>1, <1>2, <1>3, <2>1, <2>3
  <2> QED BY <1>1, <2>1, <2>2, <2>3
<1>7. GatesHoldOf(q, gpApproved)
  <2> SUFFICES ASSUME NEW d \in 1 .. q.cur - 1, IsStep(q, d, "decide") PROVE d \in gpApproved
    BY DEF GatesHoldOf
  <2>1. d \in Nat BY <1>2
  <2>2. d < gpProg.cur BY <1>1, <1>2, <1>3, <2>1
  <2> QED BY <1>1, <1>3, <1>4, <2>1, <2>2 DEF GatesHoldOf
<1>8. RewindsOf(q)
  <2>1. gpProg.async + 1 \in Nat BY <1>1
  <2> QED BY <1>1, <1>3, <1>4, <2>1 DEF RewindsOf
<1>9. CappedOf(q, status) BY <1>1 DEF CappedOf, MaxStepRetries
<1> QED BY <1>1, <1>5, <1>6, <1>7, <1>8, <1>9 DEF ProgressSound

\* The current step is not of another kind.
LEMMA OneAction == ASSUME NEW a, NEW b, a # b, AtStep(a) PROVE ~ IsStep(gpProg, gpProg.cur, b)
BY DEF AtStep, IsStep

LEMMA PlanInvalidInv == GoalIInv /\ PlanInvalid => GoalIInv'
<1> SUFFICES ASSUME GoalIInv, PlanInvalid PROVE GoalIInv' OBVIOUS
<1> DEFINE n == gpProg.retry + 1
           q == [gpProg EXCEPT !.retry = n, !.phase = "plan_invalid"]
           status == IF n >= MaxStepRetries THEN "ended" ELSE "pending"
<1>1. Running /\ SaveGoal(status, q) /\ PeersUntouched /\ GateUntouched BY DEF PlanInvalid, Planning
<1>2. n \in Nat /\ gpProg \in GoalProgress /\ gpProg.cur \in Nat BY <1>1, RunningGoal
<1>3. /\ q \in GoalProgress /\ q.plan = gpProg.plan /\ q.revise = gpProg.revise /\ q.async = gpProg.async
      /\ q.cur = gpProg.cur
  BY <1>2 DEF GoalProgress
<1>4. status \in {"pending", "paused", "ended"} OBVIOUS
<1> HIDE DEF q, status, n
<1>5. q.cur >= gpProg.cur /\ gpProg.cur .. q.cur - 1 = {} BY <1>2, <1>3
<1>6. ProgressSound(q, gpApproved, gpSent, status) BY <1>1, <1>3, <1>5, MovesOn
<1>7. gpPeers' \subseteq Nat /\ gpStarted' \in Nat BY <1>1 DEF PeersUntouched, GoalIInv, GoalTypeOK
<1> QED BY <1>1, <1>4, <1>6, <1>7, SaveKeeps

LEMMA ToolErrorInv == GoalIInv /\ ToolError => GoalIInv'
<1> SUFFICES ASSUME GoalIInv, ToolError PROVE GoalIInv' OBVIOUS
<1> DEFINE n == gpProg.retry + 1
           q == [gpProg EXCEPT !.retry = n, !.phase = "tool_error"]
           status == IF n >= MaxStepRetries THEN "ended" ELSE "pending"
<1>1. Running /\ SaveGoal(status, q) /\ PeersUntouched /\ GateUntouched BY DEF ToolError, AtStep
<1>2. n \in Nat /\ gpProg \in GoalProgress /\ gpProg.cur \in Nat BY <1>1, RunningGoal
<1>3. /\ q \in GoalProgress /\ q.plan = gpProg.plan /\ q.revise = gpProg.revise /\ q.async = gpProg.async
      /\ q.cur = gpProg.cur
  BY <1>2 DEF GoalProgress
<1>4. status \in {"pending", "paused", "ended"} OBVIOUS
<1> HIDE DEF q, status, n
<1>5. q.cur >= gpProg.cur /\ gpProg.cur .. q.cur - 1 = {} BY <1>2, <1>3
<1>6. ProgressSound(q, gpApproved, gpSent, status) BY <1>1, <1>3, <1>5, MovesOn
<1>7. gpPeers' \subseteq Nat /\ gpStarted' \in Nat BY <1>1 DEF PeersUntouched, GoalIInv, GoalTypeOK
<1> QED BY <1>1, <1>4, <1>6, <1>7, SaveKeeps

\* The goal ends with the progress it has.
LEMMA EndsInv ==
  ASSUME GoalIInv, Running, SaveGoal("ended", gpProg), PeersUntouched, GateUntouched PROVE GoalIInv'
<1>1. gpProg \in GoalProgress /\ gpProg.cur \in Nat BY RunningGoal
<1>2. gpProg.cur >= gpProg.cur /\ gpProg.cur .. gpProg.cur - 1 = {} BY <1>1
<1>3. ProgressSound(gpProg, gpApproved, gpSent, "ended") BY <1>1, <1>2, MovesOn
<1>4. gpPeers' \subseteq Nat /\ gpStarted' \in Nat BY DEF PeersUntouched, GoalIInv, GoalTypeOK
<1> QED BY <1>3, <1>4, SaveKeeps

\* A step that is no decision is over, and the next one is current.
LEMMA NextStepInv ==
  ASSUME GoalIInv, NEW action, action # "decide", AtStep(action), NEW q \in GoalProgress,
         q.plan = gpProg.plan, q.revise = gpProg.revise, q.async = gpProg.async, q.cur = gpProg.cur + 1,
         NEW status \in {"pending", "paused"}, SaveGoal(status, q), PeersUntouched, GateUntouched
  PROVE  GoalIInv'
<1>1. Running /\ gpProg.cur \in Nat BY RunningGoal DEF AtStep
<1>2. q.cur >= gpProg.cur /\ gpProg.cur .. q.cur - 1 = {gpProg.cur} BY <1>1
<1>3. \A d \in gpProg.cur .. q.cur - 1 : ~ IsStep(gpProg, d, "decide") BY <1>2, OneAction
<1>4. ProgressSound(q, gpApproved, gpSent, status) BY <1>1, <1>2, <1>3, MovesOn
<1>5. gpPeers' \subseteq Nat /\ gpStarted' \in Nat BY DEF PeersUntouched, GoalIInv, GoalTypeOK
<1> QED BY <1>4, <1>5, SaveKeeps

LEMMA WaitStepInv == GoalIInv /\ WaitStep => GoalIInv'
<1> SUFFICES ASSUME GoalIInv, WaitStep PROVE GoalIInv' OBVIOUS
<1>1. AtStep("wait") /\ PeersUntouched /\ GateUntouched /\ gpProg \in GoalProgress /\ gpProg.cur + 1 \in Nat \ {0}
  BY RunningGoal DEF WaitStep, AtStep
<1> DEFINE moved == [gpProg EXCEPT !.cur = @ + 1]
           q == [moved EXCEPT !.phase = "waiting"]
<1>2. /\ moved \in GoalProgress /\ moved.plan = gpProg.plan /\ moved.revise = gpProg.revise
      /\ moved.async = gpProg.async /\ moved.cur = gpProg.cur + 1
  BY <1>1 DEF GoalProgress
<1>3. SaveGoal("pending", moved) \/ SaveGoal("paused", q) BY DEF WaitStep
<1> HIDE DEF moved
<1>4. /\ q \in GoalProgress /\ q.plan = moved.plan /\ q.revise = moved.revise /\ q.async = moved.async
      /\ q.cur = moved.cur
  BY <1>2 DEF GoalProgress
<1> HIDE DEF q
<1>5. CASE SaveGoal("pending", moved) BY <1>1, <1>2, <1>5, NextStepInv
<1>6. CASE SaveGoal("paused", q) BY <1>1, <1>2, <1>4, <1>6, NextStepInv
<1> QED BY <1>3, <1>5, <1>6

LEMMA MilestoneStepInv == GoalIInv /\ MilestoneStep => GoalIInv'
<1> SUFFICES ASSUME GoalIInv, MilestoneStep PROVE GoalIInv' OBVIOUS
<1>1. AtStep("milestone") /\ PeersUntouched /\ GateUntouched /\ gpProg \in GoalProgress /\ gpProg.cur + 1 \in Nat \ {0}
  BY RunningGoal DEF MilestoneStep, AtStep
<1> DEFINE q == [gpProg EXCEPT !.cur = @ + 1, !.phase = "milestone"]
<1>2. /\ q \in GoalProgress /\ q.plan = gpProg.plan /\ q.revise = gpProg.revise
      /\ q.async = gpProg.async /\ q.cur = gpProg.cur + 1
  BY <1>1 DEF GoalProgress
<1>3. SaveGoal("paused", q) BY DEF MilestoneStep
<1> HIDE DEF q
<1> QED BY <1>1, <1>2, <1>3, NextStepInv

LEMMA UnknownStepInv == GoalIInv /\ UnknownStep => GoalIInv'
<1> SUFFICES ASSUME GoalIInv, UnknownStep PROVE GoalIInv' OBVIOUS
<1>1. AtStep("other") /\ PeersUntouched /\ GateUntouched /\ gpProg \in GoalProgress /\ gpProg.cur + 1 \in Nat \ {0}
  BY RunningGoal DEF UnknownStep, AtStep
<1> DEFINE q == [gpProg EXCEPT !.cur = @ + 1]
<1>2. /\ q \in GoalProgress /\ q.plan = gpProg.plan /\ q.revise = gpProg.revise
      /\ q.async = gpProg.async /\ q.cur = gpProg.cur + 1
  BY <1>1 DEF GoalProgress
<1>3. SaveGoal("pending", q) BY DEF UnknownStep
<1> HIDE DEF q
<1> QED BY <1>1, <1>2, <1>3, NextStepInv

\* An accepted plan starts at its first step with nothing behind it.
LEMMA PlanAcceptedInv == GoalIInv /\ PlanAccepted => GoalIInv'
<1> SUFFICES ASSUME GoalIInv, PlanAccepted PROVE GoalIInv' OBVIOUS
<1> DEFINE base == [gpProg EXCEPT !.retry = 0]
           taken(plan) == [base EXCEPT !.plan = plan, !.cur = 1, !.phase = "executing"]
           asked == [base EXCEPT !.phase = "plan_invalid"]
<1>1. PICK plan \in GoalPlans : SaveGoal("pending", taken(plan)) \/ SaveGoal("pending", asked)
  BY DEF PlanAccepted
<1>2. /\ Running /\ gpProg.plan = <<>> /\ PeersUntouched /\ GateUntouched /\ gpProg \in GoalProgress
      /\ gpProg.cur \in Nat /\ gpProg.revise < MaxStepRetries /\ gpSent = gpProg.revise
  BY RunningGoal DEF PlanAccepted, Planning
<1>3. gpProg.async = 0 /\ gpProg.revise = 0 BY <1>2 DEF GoalIInv, ProgressSound, NoPlanYet
<1>4. plan \in Seq(PlanStep) BY GoalConstants
<1>5. gpPeers' \subseteq Nat /\ gpStarted' \in Nat BY <1>2 DEF PeersUntouched, GoalIInv, GoalTypeOK
<1>6. /\ base \in GoalProgress /\ base.plan = gpProg.plan /\ base.revise = gpProg.revise
      /\ base.async = gpProg.async /\ base.cur = gpProg.cur
  BY <1>2 DEF GoalProgress
<1> HIDE DEF base
<1>7. CASE SaveGoal("pending", asked)
  <2>1. /\ asked \in GoalProgress /\ asked.plan = gpProg.plan /\ asked.revise = gpProg.revise
        /\ asked.async = gpProg.async /\ asked.cur = gpProg.cur
    BY <1>6 DEF GoalProgress
  <2> HIDE DEF asked
  <2>2. asked.cur >= gpProg.cur /\ gpProg.cur .. asked.cur - 1 = {} BY <1>2, <2>1
  <2>3. ProgressSound(asked, gpApproved, gpSent, "pending") BY <1>2, <2>1, <2>2, MovesOn
  <2> QED BY <1>2, <1>5, <1>7, <2>3, SaveKeeps
<1>8. CASE SaveGoal("pending", taken(plan))
  <2> DEFINE q == taken(plan)
  <2>1. q \in GoalProgress /\ q.revise = 0 /\ q.async = 0 /\ q.cur = 1
    <3>1. q = [base EXCEPT !.plan = plan, !.cur = 1, !.phase = "executing"] /\ 1 \in Nat \ {0} OBVIOUS
    <3> HIDE DEF q
    <3>2. q \in GoalProgress BY <1>4, <1>6, <3>1 DEF GoalProgress
    <3>3. q.revise = base.revise /\ q.async = base.async /\ q.cur = 1 BY <1>6, <3>1 DEF GoalProgress
    <3> QED BY <1>3, <1>6, <3>2, <3>3
  <2>2. SaveGoal("pending", q) BY <1>8
  <2> HIDE DEF q
  <2>3. NoPlanYet(q) /\ NothingDecidedBetween(q) /\ RewindsOf(q) BY <2>1 DEF NoPlanYet, NothingDecidedBetween, RewindsOf
  <2>4. GatesHoldOf(q, gpApproved) BY <2>1 DEF GatesHoldOf
  <2>5. CappedOf(q, "pending") BY <2>1 DEF CappedOf, MaxStepRetries
  <2>6. ProgressSound(q, gpApproved, gpSent, "pending") BY <1>2, <1>3, <2>1, <2>3, <2>4, <2>5 DEF ProgressSound
  <2> QED BY <1>2, <1>5, <2>2, <2>6, SaveKeeps
<1> QED BY <1>1, <1>7, <1>8

\* A tool that paused on its peer becomes the point a revision returns to: the
\* tool and the wait after it are no decisions.
LEMMA PausesOnPeer ==
  ASSUME GoalIInv, AtStep("tool"), IsStep(gpProg, gpProg.cur + 1, "wait"), NEW q \in GoalProgress,
         q.plan = gpProg.plan, q.revise = gpProg.revise, q.async = gpProg.cur, q.cur = gpProg.cur + 2
  PROVE  ProgressSound(q, gpApproved, gpSent, "paused")
<1>1. /\ gpProg.cur \in Nat \ {0} /\ gpProg.revise < MaxStepRetries /\ gpProg.revise \in Nat
      /\ gpSent = gpProg.revise /\ gpProg.plan # <<>>
  BY RunningGoal DEF AtStep
<1>2. IsStep(q, q.async, "tool") /\ IsStep(q, q.async + 1, "wait") BY DEF AtStep, IsStep
<1>3. \A d \in gpProg.cur .. q.cur - 1 : d = gpProg.cur \/ d = gpProg.cur + 1 BY <1>1
<1>4. \A d \in gpProg.cur .. q.cur - 1 : ~ IsStep(q, d, "decide") BY <1>2, <1>3 DEF IsStep
<1>5. NoPlanYet(q) /\ RewindsOf(q) BY <1>1, <1>2 DEF NoPlanYet, RewindsOf
<1>6. NothingDecidedBetween(q) BY <1>4 DEF NothingDecidedBetween
<1>7. GatesHoldOf(q, gpApproved)
  <2> SUFFICES ASSUME NEW d \in 1 .. q.cur - 1, IsStep(q, d, "decide") PROVE d \in gpApproved
    BY DEF GatesHoldOf
  <2>1. d \in Nat /\ d < gpProg.cur BY <1>1, <1>4
  <2>2. IsStep(gpProg, d, "decide") BY DEF IsStep
  <2> QED BY <1>1, <2>1, <2>2 DEF GoalIInv, ProgressSound, GatesHoldOf
<1>8. CappedOf(q, "paused") BY <1>1 DEF CappedOf, MaxStepRetries
<1> QED BY <1>1, <1>5, <1>6, <1>7, <1>8 DEF ProgressSound

LEMMA ToolSuccessInv == GoalIInv /\ ToolSuccess => GoalIInv'
<1> SUFFICES ASSUME GoalIInv, ToolSuccess PROVE GoalIInv' OBVIOUS
<1> DEFINE async == gpProg.plan[gpProg.cur].async /\ gpStarted < MaxPeers
           peer == IF async THEN gpStarted + 1 ELSE gpProg.peer
           prog == [gpProg EXCEPT !.retry = 0, !.peer = peer]
           out == AfterTool(prog)
<1>1. AtStep("tool") /\ SaveGoal(out.status, out.prog) /\ GateUntouched BY DEF ToolSuccess
<1>2. /\ gpPeers' = (IF async THEN gpPeers \cup {peer} ELSE gpPeers)
      /\ gpStarted' = IF async THEN peer ELSE gpStarted
  BY DEF ToolSuccess
<1>3. /\ Running /\ gpProg \in GoalProgress /\ gpProg.cur \in Nat \ {0} /\ gpProg.peer \in Nat
      /\ gpStarted \in Nat /\ gpPeers \subseteq Nat
  BY <1>1, RunningGoal DEF AtStep, GoalIInv, GoalTypeOK
<1>4. peer \in Nat BY <1>3
<1>5. gpStarted' \in Nat BY <1>2, <1>3, <1>4
<1>6. gpPeers' \subseteq Nat BY <1>2, <1>3, <1>4
<1> HIDE DEF peer, async
<1>7. /\ prog \in GoalProgress /\ prog.plan = gpProg.plan /\ prog.revise = gpProg.revise
      /\ prog.async = gpProg.async /\ prog.cur = gpProg.cur
  BY <1>3, <1>4 DEF GoalProgress
<1> HIDE DEF prog
<1> DEFINE next == prog.cur + 1
           moved == [prog EXCEPT !.cur = next, !.phase = "step"]
           waited == [moved EXCEPT !.cur = next + 1, !.async = next - 1, !.phase = "waiting"]
           over == [moved EXCEPT !.cur = next + 1]
<1>8. IsStep(prog, next, "wait") = IsStep(gpProg, gpProg.cur + 1, "wait") BY <1>7 DEF IsStep
<1>9. next \in Nat \ {0} /\ next + 1 \in Nat \ {0} /\ next - 1 = gpProg.cur /\ next = gpProg.cur + 1
  BY <1>3, <1>7
<1>10. /\ moved \in GoalProgress /\ moved.plan = gpProg.plan /\ moved.revise = gpProg.revise
       /\ moved.async = gpProg.async /\ moved.cur = gpProg.cur + 1
  BY <1>7, <1>9 DEF GoalProgress
<1>11. \/ out.status = "pending" /\ out.prog = moved
       \/ IsStep(prog, next, "wait") /\ out.status = "paused" /\ out.prog = waited
       \/ IsStep(prog, next, "wait") /\ out.status = "pending" /\ out.prog = over
  BY DEF AfterTool
<1> HIDE DEF moved, next, out
<1> DEFINE after == next + 1
           before == next - 1
<1>12. after \in Nat \ {0} /\ after = gpProg.cur + 2 /\ before = gpProg.cur /\ before \in Nat BY <1>3, <1>9
<1>13. waited = [moved EXCEPT !.cur = after, !.async = before, !.phase = "waiting"] /\ over = [moved EXCEPT !.cur = after]
  OBVIOUS
<1> HIDE DEF waited, over, after, before
<1>14. /\ waited \in GoalProgress /\ waited.plan = gpProg.plan /\ waited.revise = gpProg.revise
       /\ waited.async = gpProg.cur /\ waited.cur = gpProg.cur + 2
  BY <1>10, <1>12, <1>13 DEF GoalProgress
<1>15. /\ over \in GoalProgress /\ over.plan = gpProg.plan /\ over.revise = gpProg.revise
       /\ over.async = gpProg.async /\ over.cur = gpProg.cur + 2
  BY <1>10, <1>12, <1>13 DEF GoalProgress
<1>16. ~ IsStep(gpProg, gpProg.cur, "decide") BY <1>1, OneAction
<1>17. CASE out.status = "pending" /\ out.prog = moved
  <2>1. moved.cur >= gpProg.cur /\ gpProg.cur .. moved.cur - 1 = {gpProg.cur} BY <1>3, <1>10
  <2>2. ProgressSound(moved, gpApproved, gpSent, "pending") BY <1>3, <1>10, <1>16, <2>1, MovesOn
  <2> QED BY <1>1, <1>5, <1>6, <1>17, <2>2, SaveKeeps
<1>18. CASE IsStep(prog, next, "wait") /\ out.status = "pending" /\ out.prog = over
  <2>1. over.cur >= gpProg.cur /\ \A d \in gpProg.cur .. over.cur - 1 : d = gpProg.cur \/ d = gpProg.cur + 1
    BY <1>3, <1>15
  <2>2. ~ IsStep(gpProg, gpProg.cur + 1, "decide") BY <1>8, <1>18 DEF IsStep
  <2>3. ProgressSound(over, gpApproved, gpSent, "pending") BY <1>3, <1>15, <1>16, <2>1, <2>2, MovesOn
  <2> QED BY <1>1, <1>5, <1>6, <1>18, <2>3, SaveKeeps
<1>19. CASE IsStep(prog, next, "wait") /\ out.status = "paused" /\ out.prog = waited
  <2>1. ProgressSound(waited, gpApproved, gpSent, "paused") BY <1>1, <1>8, <1>14, <1>19, PausesOnPeer
  <2> QED BY <1>1, <1>5, <1>6, <1>19, <2>1, SaveKeeps
<1> QED BY <1>11, <1>17, <1>18, <1>19

\* A decision step that saves its outcome or loses it.
LEMMA DecisionSaves ==
  ASSUME GoalIInv, NEW status \in {"pending", "paused", "ended"}, NEW prog, SaveGoal(status, prog), PeersUntouched,
         NEW approved \in SUBSET Nat, NEW sent \in Nat, ProgressSound(prog, approved, sent, status),
         gpApproved' = (IF gpIter' > gpIter THEN approved ELSE gpApproved),
         gpSent' = (IF gpIter' > gpIter THEN sent ELSE gpSent)
  PROVE  GoalIInv'
<1>1. gpIter \in Nat BY DEF GoalIInv, GoalTypeOK
<1>2. CASE gpStatus' = status /\ gpProg' = prog /\ gpIter' = gpIter + 1 /\ UNCHANGED gpCrashes
  <2>1. gpApproved' = approved /\ gpSent' = sent BY <1>1, <1>2
  <2>2. ProgressSound(gpProg', gpApproved', gpSent', gpStatus') BY <1>2, <2>1
  <2>3. GoalTypeOK' BY <1>1, <1>2, <2>1 DEF GoalTypeOK, GoalIInv, PeersUntouched, ProgressSound
  <2> QED BY <2>2, <2>3 DEF GoalIInv
<1>3. CASE gpCrashes' = gpCrashes + 1 /\ UNCHANGED <<gpStatus, gpProg, gpIter>>
  <2>1. gpApproved' = gpApproved /\ gpSent' = gpSent BY <1>1, <1>3
  <2>2. ProgressSound(gpProg', gpApproved', gpSent', gpStatus') BY <1>3, <2>1 DEF GoalIInv
  <2>3. GoalTypeOK' BY <1>3, <2>1 DEF GoalTypeOK, GoalIInv, PeersUntouched
  <2> QED BY <2>2, <2>3 DEF GoalIInv
<1> QED BY <1>2, <1>3 DEF SaveGoal

LEMMA ApproveInv == GoalIInv /\ Approve => GoalIInv'
<1> SUFFICES ASSUME GoalIInv, Approve PROVE GoalIInv' OBVIOUS
<1> DEFINE q == [gpProg EXCEPT !.cur = @ + 1, !.retry = 0, !.revise = 0, !.phase = "step"]
           approved == gpApproved \cup {gpProg.cur}
<1>1. /\ gpProg \in GoalProgress /\ gpProg.cur \in Nat \ {0} /\ gpProg.cur + 1 \in Nat \ {0} /\ gpProg.plan # <<>>
      /\ gpProg.async \in Nat
  BY RunningGoal DEF Approve, AtStep
<1>2. /\ SaveGoal("pending", q) /\ PeersUntouched
      /\ gpApproved' = (IF gpIter' > gpIter THEN approved ELSE gpApproved)
      /\ gpSent' = IF gpIter' > gpIter THEN 0 ELSE gpSent
  BY DEF Approve
<1>3. /\ q \in GoalProgress /\ q.plan = gpProg.plan /\ q.revise = 0 /\ q.async = gpProg.async
      /\ q.cur = gpProg.cur + 1
  BY <1>1 DEF GoalProgress
<1> HIDE DEF q
<1>4. approved \in SUBSET Nat BY <1>1 DEF GoalIInv, GoalTypeOK
<1>5. \A d \in Nat, a \in {"tool", "wait", "decide"} : IsStep(q, d, a) = IsStep(gpProg, d, a) BY <1>3 DEF IsStep
<1>6. NoPlanYet(q) /\ NothingDecidedBetween(q) BY <1>1, <1>3 DEF NoPlanYet, NothingDecidedBetween
<1>7. GatesHoldOf(q, approved)
  <2> SUFFICES ASSUME NEW d \in 1 .. q.cur - 1, IsStep(q, d, "decide") PROVE d \in approved
    BY DEF GatesHoldOf
  <2>1. d \in Nat /\ (d = gpProg.cur \/ d \in 1 .. gpProg.cur - 1) BY <1>1, <1>3
  <2> QED BY <1>5, <2>1 DEF GoalIInv, ProgressSound, GatesHoldOf
<1>8. RewindsOf(q)
  <2>1. gpProg.async + 1 \in Nat /\ RewindsOf(gpProg) BY <1>1 DEF GoalIInv, ProgressSound
  <2> QED BY <1>1, <1>3, <1>5, <2>1 DEF RewindsOf
<1>9. CappedOf(q, "pending") BY <1>3 DEF CappedOf, MaxStepRetries
<1>10. ProgressSound(q, approved, 0, "pending") BY <1>3, <1>6, <1>7, <1>8, <1>9 DEF ProgressSound
<1> HIDE DEF approved
<1> QED BY <1>2, <1>4, <1>10, DecisionSaves

\* A refusal: the goal ends at the third one where it stands, and an earlier one
\* returns to the async work with the approvals that lie before it.
LEMMA HandleReviseInv == GoalIInv /\ HandleRevise => GoalIInv'
<1> SUFFICES ASSUME GoalIInv, HandleRevise PROVE GoalIInv' OBVIOUS
<1> DEFINE n == gpProg.revise + 1
           to == Rewound(gpProg)
           approved == {d \in gpApproved : d < to}
           last == [gpProg EXCEPT !.revise = n]
           back == [gpProg EXCEPT !.revise = n, !.cur = to, !.phase = "waiting_for_revise"]
<1>1. /\ gpProg \in GoalProgress /\ gpProg.cur \in Nat \ {0} /\ gpProg.plan # <<>> /\ gpProg.async \in Nat
      /\ gpProg.revise \in Nat /\ gpProg.revise < MaxStepRetries /\ gpSent = gpProg.revise
  BY RunningGoal DEF HandleRevise, AtStep
<1>2. /\ IF n >= MaxStepRetries THEN SaveGoal("ended", last) ELSE SaveGoal("paused", back)
      /\ gpApproved' = (IF gpIter' > gpIter THEN approved ELSE gpApproved)
      /\ gpSent' = (IF gpIter' > gpIter THEN gpSent + 1 ELSE gpSent)
      /\ PeersUntouched
  BY DEF HandleRevise
<1>3. n \in Nat /\ n <= MaxStepRetries /\ gpSent + 1 = n BY <1>1 DEF MaxStepRetries
<1>4. /\ to \in Nat \ {0} /\ to <= gpProg.cur /\ (to = gpProg.cur \/ to = gpProg.async)
      /\ gpProg.async > 0 /\ gpProg.async < gpProg.cur => to = gpProg.async
      /\ ~ (gpProg.async > 0 /\ gpProg.async < gpProg.cur) => to = gpProg.cur
  BY <1>1 DEF Rewound
<1>5. approved \in SUBSET Nat BY DEF GoalIInv, GoalTypeOK
<1>6. /\ last \in GoalProgress /\ last.plan = gpProg.plan /\ last.revise = n /\ last.async = gpProg.async
      /\ last.cur = gpProg.cur
  BY <1>1, <1>3 DEF GoalProgress
<1> HIDE DEF to
<1>7. /\ back \in GoalProgress /\ back.plan = gpProg.plan /\ back.revise = n /\ back.async = gpProg.async
      /\ back.cur = to
  BY <1>1, <1>3, <1>4 DEF GoalProgress
<1> HIDE DEF last, back, n
<1>8. NoPlanYet(last) /\ NoPlanYet(back) BY <1>1, <1>6, <1>7 DEF NoPlanYet
<1>9. /\ NothingDecidedBetween(gpProg) /\ GatesHoldOf(gpProg, gpApproved) /\ RewindsOf(gpProg)
  BY DEF GoalIInv, ProgressSound
<1>10. \A d \in Nat, a \in {"tool", "wait", "decide"} :
          IsStep(last, d, a) = IsStep(gpProg, d, a) /\ IsStep(back, d, a) = IsStep(gpProg, d, a)
  BY <1>6, <1>7 DEF IsStep
<1>11. RewindsOf(last) /\ RewindsOf(back)
  <2>1. gpProg.async + 1 \in Nat BY <1>1
  <2> QED BY <1>1, <1>6, <1>7, <1>9, <1>10, <2>1 DEF RewindsOf
<1>12. GatesHoldOf(back, approved)
  <2> SUFFICES ASSUME NEW d \in 1 .. to - 1, IsStep(back, d, "decide") PROVE d \in approved
    BY <1>7 DEF GatesHoldOf
  <2>1. d \in Nat /\ d \in 1 .. gpProg.cur - 1 /\ d < to BY <1>1, <1>4
  <2> QED BY <1>9, <1>10, <2>1 DEF GatesHoldOf
<1>13. NothingDecidedBetween(back)
  <2> SUFFICES ASSUME back.async > 0, NEW d \in back.async .. to - 1 PROVE FALSE
    BY <1>7 DEF NothingDecidedBetween
  <2> QED BY <1>1, <1>4, <1>7
<1>14. CASE n >= MaxStepRetries
  <2>1. gpProg.revise > 0 BY <1>1, <1>14 DEF n, MaxStepRetries
  <2>2. CappedOf(last, "ended") BY <1>3, <1>6 DEF CappedOf
  <2>3. NothingDecidedBetween(last)
    <3> SUFFICES ASSUME gpProg.async > 0, NEW d \in gpProg.async .. gpProg.cur - 1 PROVE ~ IsStep(last, d, "decide")
      BY <1>6 DEF NothingDecidedBetween
    <3>1. d \in Nat BY <1>1
    <3> QED BY <1>9, <1>10, <2>1, <3>1 DEF NothingDecidedBetween
  <2>4. GatesHoldOf(last, approved)
    <3> SUFFICES ASSUME NEW d \in 1 .. gpProg.cur - 1, IsStep(gpProg, d, "decide") PROVE d \in approved
      <4>1. \A d \in 1 .. gpProg.cur - 1 : d \in Nat BY <1>1
      <4> QED BY <1>6, <1>10, <4>1 DEF GatesHoldOf
    <3>1. d \in Nat /\ d \in gpApproved BY <1>1, <1>9 DEF GatesHoldOf
    <3>2. CASE to = gpProg.cur BY <1>1, <3>1, <3>2
    <3>3. CASE to # gpProg.cur
      <4>1. gpProg.async > 0 /\ to = gpProg.async BY <1>4, <3>3
      <4>2. ~ (d \in gpProg.async .. gpProg.cur - 1) BY <1>9, <2>1, <4>1 DEF NothingDecidedBetween
      <4> QED BY <1>1, <3>1, <4>1, <4>2
    <3> QED BY <3>2, <3>3
  <2>5. ProgressSound(last, approved, gpSent + 1, "ended")
    BY <1>3, <1>6, <1>8, <1>11, <2>2, <2>3, <2>4 DEF ProgressSound
  <2>6. SaveGoal("ended", last) /\ gpSent + 1 \in Nat BY <1>2, <1>3, <1>14
  <2> HIDE DEF approved
  <2> QED BY <1>2, <1>5, <2>5, <2>6, DecisionSaves
<1>15. CASE ~ (n >= MaxStepRetries)
  <2>1. CappedOf(back, "paused") BY <1>3, <1>7, <1>15 DEF CappedOf, MaxStepRetries
  <2>2. ProgressSound(back, approved, gpSent + 1, "paused")
    BY <1>3, <1>7, <1>8, <1>11, <1>12, <1>13, <2>1 DEF ProgressSound
  <2>3. SaveGoal("paused", back) /\ gpSent + 1 \in Nat BY <1>2, <1>3, <1>15
  <2> HIDE DEF approved
  <2> QED BY <1>2, <1>5, <2>2, <2>3, DecisionSaves
<1> QED BY <1>14, <1>15

\* What wakes the goal, or ends it, leaves its progress alone; an ended goal is
\* never woken.
LEMMA StatusStepsInv ==
  ASSUME GoalIInv, UNCHANGED <<gpProg, gpIter, gpStarted, gpApproved, gpSent, gpCrashes>>, gpPeers' \subseteq gpPeers,
         gpStatus' \in {"pending", "paused", "ended"}, gpStatus = "ended" => gpStatus' = "ended"
  PROVE  GoalIInv'
<1>1. ProgressSound(gpProg', gpApproved', gpSent', gpStatus') BY DEF GoalIInv, ProgressSound, CappedOf
<1>2. GoalTypeOK' BY DEF GoalIInv, GoalTypeOK
<1> QED BY <1>1, <1>2 DEF GoalIInv

LEMMA GoalInitInv == GoalInit => GoalIInv
<1> SUFFICES ASSUME GoalInit PROVE GoalIInv OBVIOUS
<1>1. Fresh \in GoalProgress /\ Fresh.revise = 0 /\ Fresh.async = 0 /\ Fresh.cur = 1 BY DEF Fresh, GoalProgress
<1>2. gpProg = Fresh /\ gpSent = 0 BY DEF GoalInit
<1>3. GoalTypeOK BY <1>1 DEF GoalInit, GoalTypeOK
<1>4. NoPlanYet(gpProg) /\ NothingDecidedBetween(gpProg) /\ GatesHoldOf(gpProg, gpApproved) /\ RewindsOf(gpProg)
  BY <1>1, <1>2 DEF NoPlanYet, NothingDecidedBetween, GatesHoldOf, RewindsOf
<1>5. CappedOf(gpProg, gpStatus) BY <1>1, <1>2 DEF CappedOf, MaxStepRetries
<1> QED BY <1>1, <1>2, <1>3, <1>4, <1>5 DEF GoalIInv, ProgressSound

LEMMA GoalInductive == GoalIInv /\ [GoalNext]_goalVars => GoalIInv'
<1> SUFFICES ASSUME GoalIInv, [GoalNext]_goalVars PROVE GoalIInv' OBVIOUS
<1>1. CASE PlanExhaustedGoal BY <1>1, EndsInv DEF PlanExhaustedGoal
<1>2. CASE DoneStep BY <1>2, EndsInv DEF DoneStep, AtStep
<1>3. CASE PeerCallback
  <2>1. gpPeers' \subseteq gpPeers BY <1>3 DEF PeerCallback
  <2>2. /\ gpStatus' \in {"pending", "paused", "ended"} /\ (gpStatus = "ended" => gpStatus' = "ended")
        /\ UNCHANGED <<gpProg, gpIter, gpStarted, gpApproved, gpSent, gpCrashes>>
    BY <1>3 DEF PeerCallback, GoalIInv, GoalTypeOK
  <2> QED BY <2>1, <2>2, StatusStepsInv
<1>4. CASE WakeGoal BY <1>4, StatusStepsInv DEF WakeGoal
<1>5. CASE GoalOutOfIterations BY <1>5, StatusStepsInv DEF GoalOutOfIterations
<1>6. CASE UNCHANGED goalVars
  <2>1. gpStatus \in {"pending", "paused", "ended"} BY DEF GoalIInv, GoalTypeOK
  <2> QED BY <1>6, <2>1, StatusStepsInv DEF goalVars
<1> QED BY <1>1, <1>2, <1>3, <1>4, <1>5, <1>6, PlanInvalidInv, PlanAcceptedInv, ToolErrorInv, ToolSuccessInv, WaitStepInv,
           MilestoneStepInv, UnknownStepInv, ApproveInv, HandleReviseInv
        DEF GoalNext, GoalEnded

\* Nothing of a goal runs past a decision that did not approve the work of this
\* pass, a revision returns to a tool followed by its wait, and the third refusal
\* without an approval ends the goal (plan_steps.go, execDecideStep): for every
\* set of plans and whatever progress a crash loses.
THEOREM GoalIsSound == GoalSpec => []GoalSound
<1>1. GoalIInv => GoalSound
  <2> SUFFICES ASSUME GoalIInv PROVE GoalSound OBVIOUS
  <2>1. GatesHold BY DEF GoalIInv, ProgressSound, GatesHoldOf, GatesHold
  <2>2. RewindsToAsync BY DEF GoalIInv, ProgressSound, RewindsOf, RewindsToAsync
  <2>3. RefusalsCapped BY DEF GoalIInv, ProgressSound, CappedOf, RefusalsCapped
  <2> QED BY <2>1, <2>2, <2>3 DEF GoalSound
<1> QED BY <1>1, GoalInitInv, GoalInductive, PTL DEF GoalSpec

-----------------------------------------------------------------------------
(* The component TaskProgram                                                  *)

RunFields(run) == DOMAIN run = {"pc", "at", "results", "refs", "calls", "acked", "covers", "end"}

\* The program was found fit to run.
Ready(p) == ValidProgram(p) /\ Preflight(p)

\* A run that calls tools passed the preflight, and a text on its way out stands
\* for every item it acknowledges.
RunSound(run, p) ==
    /\ RunFields(run)
    /\ run.pc = "inputs" \/ run.calls > 0 => Ready(p)
    /\ run.pc \in {"validate", "deliver"} => run.acked \subseteq run.covers

RunsSound ==
    /\ tpProg \in Programs
    /\ DOMAIN tpRun = ProgramWorkers /\ tpRun = [w \in ProgramWorkers |-> tpRun[w]]
    /\ \A w \in ProgramWorkers : RunSound(tpRun[w], tpProg)

\* Reservations never overlap: an item of a waiting intent was not shown yet, and
\* what was shown is owned.
LedgerSound ==
    /\ tpShown \in [DOMAIN tpShown -> Nat]
    /\ tpOutbox \subseteq tpSent
    /\ \A i, j \in tpOutbox : i # j => i.refs \cap j.refs = {}
    /\ \A i \in tpOutbox : \A r \in i.refs \cap DOMAIN tpShown : tpShown[r] = 0
    /\ \A r \in DOMAIN tpShown : tpShown[r] <= 1 /\ (tpShown[r] # 0 => r \in tpOwned)
    /\ TextCoversItems /\ OnlySendingConsumes

ProgramIInv == RunsSound /\ LedgerSound

-----------------------------------------------------------------------------
(* What one step of a worker changes                                          *)

\* One run moves to a sound one.
LEMMA RunMoves ==
  ASSUME RunsSound, NEW w \in ProgramWorkers, NEW run, Set(w, run), RunSound(run, tpProg), tpProg' = tpProg
  PROVE  RunsSound'
<1>1. tpRun' = [tpRun EXCEPT ![w] = run] BY DEF Set
<1>2. DOMAIN tpRun = ProgramWorkers BY DEF RunsSound
<1>3. DOMAIN tpRun' = ProgramWorkers /\ tpRun'[w] = run /\ \A v \in ProgramWorkers : v # w => tpRun'[v] = tpRun[v]
  BY <1>1, <1>2
<1>4. tpRun' = [v \in ProgramWorkers |-> tpRun'[v]] BY <1>1, <1>2
<1> QED BY <1>3, <1>4 DEF RunsSound

\* A worker that leaves the ledger alone.
LEMMA LedgerRests ==
  ASSUME LedgerSound, UNCHANGED <<tpOwned, tpOutbox, tpShown, tpSent>>
  PROVE  LedgerSound'
BY DEF LedgerSound, TextCoversItems, OnlySendingConsumes

LEMMA WorkerMoves ==
  ASSUME ProgramIInv, NEW w \in ProgramWorkers, NEW run, Set(w, run), RunSound(run, tpProg),
         UNCHANGED <<tpProg, tpOwned, tpOutbox, tpShown, tpSent>>
  PROVE  ProgramIInv'
BY RunMoves, LedgerRests DEF ProgramIInv

\* Ending a run.
LEMMA EndedSound ==
  ASSUME NEW run, NEW p, NEW how, RunFields(run), run.calls > 0 => Ready(p)
  PROVE  RunSound(Ended(run, how), p)
<1> DEFINE r == Ended(run, how)
<1>1. RunFields(r) /\ r.pc = "idle" /\ r.calls = run.calls BY DEF Ended, RunFields
<1> HIDE DEF r
<1>2. RunSound(r, p) BY <1>1 DEF RunSound
<1> QED BY <1>2 DEF r

\* The state of a worker's run.
LEMMA RunOf ==
  ASSUME ProgramIInv, NEW w \in ProgramWorkers
  PROVE  RunSound(tpRun[w], tpProg) /\ RunFields(tpRun[w])
BY DEF ProgramIInv, RunsSound, RunSound

LEMMA StartTickInv == ASSUME ProgramIInv, NEW w \in ProgramWorkers, StartTick(w) PROVE ProgramIInv'
<1> DEFINE none == [id \in InputIds(tpProg) |-> "none"]
           fresh == [Resting EXCEPT !.results = none]
           started == [fresh EXCEPT !.pc = "inputs", !.at = 1]
<1>1. UNCHANGED <<tpProg, tpOwned, tpOutbox, tpShown, tpSent>> BY DEF StartTick
<1>2. \/ \E how \in {"error", "quiet"} : Set(w, Ended(fresh, how))
      \/ Ready(tpProg) /\ Set(w, started)
  BY DEF StartTick, Ready
<1> HIDE DEF none
<1>3. RunFields(fresh) /\ fresh.calls = 0 BY DEF Resting, RunFields
<1>4. RunFields(started) /\ started.pc = "inputs" BY DEF Resting, RunFields
<1> HIDE DEF fresh, started
<1>5. ASSUME NEW how \in {"error", "quiet"}, Set(w, Ended(fresh, how)) PROVE ProgramIInv'
  BY <1>1, <1>3, <1>5, EndedSound, WorkerMoves
<1>6. CASE Ready(tpProg) /\ Set(w, started)
  <2>1. RunSound(started, tpProg) BY <1>4, <1>6 DEF RunSound
  <2> QED BY <1>1, <1>6, <2>1, WorkerMoves
<1> QED BY <1>2, <1>5, <1>6

\* An input is skipped, called, or ends the run: only a run that passed the
\* preflight calls a tool.
LEMMA RunInputInv == ASSUME ProgramIInv, NEW w \in ProgramWorkers, RunInput(w) PROVE ProgramIInv'
<1> DEFINE run == tpRun[w]
           input == tpProg.inputs[run.at]
           pc == IF run.at = Len(tpProg.inputs) THEN "decide" ELSE "inputs"
           next == [run EXCEPT !.at = @ + 1, !.pc = pc]
           called == [next EXCEPT !.calls = @ + 1]
           failed == [next EXCEPT !.results[input.id] = "error"]
           answered(out) == [called EXCEPT !.results[input.id] = ToolResult(input.id, out),
                                           !.refs = @ \cup FilterDeliveries(input.id, out)]
<1>1. UNCHANGED <<tpProg, tpOwned, tpOutbox, tpShown, tpSent>> BY DEF RunInput
<1>2. run.pc = "inputs" BY DEF RunInput
<1>3. RunFields(run) /\ Ready(tpProg) BY <1>2, RunOf DEF RunSound
<1>4. \/ Set(w, next) \/ Set(w, failed) \/ Set(w, Ended(called, "error"))
      \/ \E out \in Outputs : Set(w, answered(out))
  BY DEF RunInput
<1>5. pc \in {"decide", "inputs"} OBVIOUS
<1> HIDE DEF pc, input
<1>6. RunFields(next) /\ next.pc = pc BY <1>3 DEF RunFields
<1> HIDE DEF run, next
<1>7. RunFields(called) /\ called.pc = pc BY <1>6 DEF RunFields
<1>8. RunFields(failed) /\ failed.pc = pc BY <1>6 DEF RunFields
<1> HIDE DEF called, failed
<1>9. \A out : RunFields(answered(out)) /\ answered(out).pc = pc
  <2> TAKE out
  <2> DEFINE result == ToolResult(input.id, out)
             found == FilterDeliveries(input.id, out)
  <2>1. answered(out) = [called EXCEPT !.results[input.id] = result, !.refs = @ \cup found] OBVIOUS
  <2> HIDE DEF result, found
  <2> QED BY <1>7, <2>1 DEF RunFields
<1> HIDE DEF answered
<1>10. CASE Set(w, next)
  <2>1. RunSound(next, tpProg) BY <1>3, <1>5, <1>6 DEF RunSound
  <2> QED BY <1>1, <1>10, <2>1, WorkerMoves
<1>11. CASE Set(w, failed)
  <2>1. RunSound(failed, tpProg) BY <1>3, <1>5, <1>8 DEF RunSound
  <2> QED BY <1>1, <1>11, <2>1, WorkerMoves
<1>12. CASE Set(w, Ended(called, "error")) BY <1>1, <1>3, <1>7, <1>12, EndedSound, WorkerMoves
<1>13. ASSUME NEW out \in Outputs, Set(w, answered(out)) PROVE ProgramIInv'
  <2>1. RunSound(answered(out), tpProg) BY <1>3, <1>5, <1>9 DEF RunSound
  <2> QED BY <1>1, <1>13, <2>1, WorkerMoves
<1> QED BY <1>4, <1>10, <1>11, <1>12, <1>13

LEMMA DecideInv == ASSUME ProgramIInv, NEW w \in ProgramWorkers, Decide(w) PROVE ProgramIInv'
<1> DEFINE run == tpRun[w]
           asked == [run EXCEPT !.pc = "model"]
<1>1. UNCHANGED <<tpProg, tpOwned, tpOutbox, tpShown, tpSent>> BY DEF Decide
<1>2. Set(w, Ended(run, "skipped")) \/ Set(w, asked) BY DEF Decide
<1>3. RunFields(run) /\ (run.calls > 0 => Ready(tpProg)) BY RunOf DEF RunSound
<1>4. RunFields(asked) /\ asked.pc = "model" /\ asked.calls = run.calls BY <1>3 DEF RunFields
<1> HIDE DEF run, asked
<1>5. RunSound(asked, tpProg) BY <1>3, <1>4 DEF RunSound
<1> QED BY <1>1, <1>2, <1>3, <1>5, EndedSound, WorkerMoves

\* An acknowledgment that counts names items the text is about.
LEMMA AckCovered ==
  ASSUME NEW run, NEW ack
  PROVE  ConsumeDeliveryAck(run, ack) \subseteq
             (IF ack.line = "set" THEN ack.refs ELSE IF ack.line = "absent" THEN run.refs ELSE {})
BY DEF ConsumeDeliveryAck

LEMMA ReplyInv == ASSUME ProgramIInv, NEW w \in ProgramWorkers, Reply(w) PROVE ProgramIInv'
<1> DEFINE run == tpRun[w]
           about(ack) == IF ack.line = "set" THEN ack.refs ELSE IF ack.line = "absent" THEN run.refs ELSE {}
           taken(ack) == [run EXCEPT !.pc = "validate", !.acked = ConsumeDeliveryAck(run, ack), !.covers = about(ack)]
<1>1. UNCHANGED <<tpProg, tpOwned, tpOutbox, tpShown, tpSent>> BY DEF Reply
<1>2. \/ \E how \in {"error", "unfinished", "blank", "silent"} : Set(w, Ended(run, how))
      \/ \E ack \in Acks(run) : Set(w, taken(ack))
  BY DEF Reply
<1>3. RunFields(run) /\ (run.calls > 0 => Ready(tpProg)) BY RunOf DEF RunSound
<1>4. ASSUME NEW ack \in Acks(run), Set(w, taken(ack)) PROVE ProgramIInv'
  <2> DEFINE acked == ConsumeDeliveryAck(run, ack)
             covers == about(ack)
  <2>1. acked \subseteq covers BY AckCovered
  <2> HIDE DEF acked, covers
  <2>2. taken(ack) = [run EXCEPT !.pc = "validate", !.acked = acked, !.covers = covers] BY DEF acked, covers
  <2> HIDE DEF run, taken
  <2>3. /\ RunFields(taken(ack)) /\ taken(ack).pc = "validate" /\ taken(ack).calls = run.calls
        /\ taken(ack).acked = acked /\ taken(ack).covers = covers
    BY <1>3, <2>2 DEF RunFields
  <2>4. RunSound(taken(ack), tpProg) BY <1>3, <2>1, <2>3 DEF RunSound
  <2> QED BY <1>1, <1>4, <2>4, WorkerMoves
<1>5. ASSUME NEW how \in {"error", "unfinished", "blank", "silent"}, Set(w, Ended(run, how)) PROVE ProgramIInv'
  BY <1>1, <1>3, <1>5, EndedSound, WorkerMoves
<1> QED BY <1>2, <1>4, <1>5

LEMMA ValidateInv == ASSUME ProgramIInv, NEW w \in ProgramWorkers, ValidateNotification(w) PROVE ProgramIInv'
<1> DEFINE run == tpRun[w]
           covers(rewritten) == IF rewritten THEN {} ELSE run.covers
           passed(rewritten) == [run EXCEPT !.pc = "deliver", !.covers = IF rewritten THEN {} ELSE @]
<1>1. UNCHANGED <<tpProg, tpOwned, tpOutbox, tpShown, tpSent>> /\ run.pc = "validate" BY DEF ValidateNotification
<1>2. \/ Set(w, Ended(run, "error"))
      \/ \E rewritten \in BOOLEAN : KeepsText(run, rewritten) /\ Set(w, passed(rewritten))
  BY DEF ValidateNotification
<1>3. RunFields(run) /\ (run.calls > 0 => Ready(tpProg)) /\ run.acked \subseteq run.covers
  BY <1>1, RunOf DEF RunSound
<1>4. ASSUME NEW rewritten \in BOOLEAN, KeepsText(run, rewritten), Set(w, passed(rewritten)) PROVE ProgramIInv'
  <2> DEFINE c == covers(rewritten)
  <2>1. run.acked \subseteq c BY <1>3, <1>4 DEF KeepsText
  <2>2. passed(rewritten) = [run EXCEPT !.pc = "deliver", !.covers = c] OBVIOUS
  <2> HIDE DEF run, c, passed
  <2>3. /\ RunFields(passed(rewritten)) /\ passed(rewritten).pc = "deliver" /\ passed(rewritten).calls = run.calls
        /\ passed(rewritten).acked = run.acked /\ passed(rewritten).covers = c
    BY <1>3, <2>2 DEF RunFields
  <2>4. RunSound(passed(rewritten), tpProg) BY <1>3, <2>1, <2>3 DEF RunSound
  <2> QED BY <1>1, <1>4, <2>4, WorkerMoves
<1> QED BY <1>1, <1>2, <1>3, <1>4, EndedSound, WorkerMoves

-----------------------------------------------------------------------------
(* The ledger                                                                 *)

\* A new reservation of items nobody owns: shown at once, or left to the drain.
LEMMA Reserves ==
  ASSUME LedgerSound, NEW intent, intent.refs \cap tpOwned = {}, intent.refs \subseteq intent.covers,
         tpOwned' = tpOwned \cup intent.refs, tpSent' = tpSent \cup {intent},
         \/ Show(intent) /\ UNCHANGED tpOutbox
         \/ tpOutbox' = tpOutbox \cup {intent} /\ UNCHANGED tpShown
  PROVE  LedgerSound'
<1>1. \A i \in tpOutbox : i.refs \subseteq tpOwned BY DEF LedgerSound, OnlySendingConsumes
<1>2. \A r \in intent.refs \cap DOMAIN tpShown : tpShown[r] = 0 BY DEF LedgerSound
<1>3. TextCoversItems' BY DEF LedgerSound, TextCoversItems
<1>4. OnlySendingConsumes' BY DEF LedgerSound, OnlySendingConsumes
<1>5. CASE Show(intent) /\ UNCHANGED tpOutbox
  <2>1. /\ DOMAIN tpShown' = DOMAIN tpShown
        /\ \A r \in DOMAIN tpShown : tpShown'[r] = IF r \in intent.refs THEN tpShown[r] + 1 ELSE tpShown[r]
        /\ tpShown' = [r \in DOMAIN tpShown' |-> tpShown'[r]]
    BY <1>5 DEF Show
  <2>2. \A r \in DOMAIN tpShown : tpShown[r] \in Nat BY DEF LedgerSound
  <2>3. \A r \in DOMAIN tpShown : tpShown'[r] \in Nat BY <2>1, <2>2
  <2>4. tpShown' \in [DOMAIN tpShown' -> Nat] BY <2>1, <2>3
  <2>5. \A r \in DOMAIN tpShown : tpShown'[r] <= 1 /\ (tpShown'[r] # 0 => r \in tpOwned')
    <3> TAKE r \in DOMAIN tpShown
    <3>1. CASE r \in intent.refs BY <1>2, <2>1, <3>1
    <3>2. CASE r \notin intent.refs BY <2>1, <3>2 DEF LedgerSound
    <3> QED BY <3>1, <3>2
  <2>6. \A i \in tpOutbox : \A r \in i.refs \cap DOMAIN tpShown : tpShown'[r] = 0
    <3> TAKE i \in tpOutbox
    <3> TAKE r \in i.refs \cap DOMAIN tpShown
    <3>1. r \notin intent.refs BY <1>1
    <3> QED BY <2>1, <3>1 DEF LedgerSound
  <2>7. tpOutbox' \subseteq tpSent' /\ \A i, j \in tpOutbox' : i # j => i.refs \cap j.refs = {}
    BY <1>5 DEF LedgerSound
  <2> QED BY <1>3, <1>4, <1>5, <2>1, <2>4, <2>5, <2>6, <2>7 DEF LedgerSound
<1>6. CASE tpOutbox' = tpOutbox \cup {intent} /\ UNCHANGED tpShown
  <2>1. tpOutbox' \subseteq tpSent' BY <1>6 DEF LedgerSound
  <2>2. \A i, j \in tpOutbox' : i # j => i.refs \cap j.refs = {}
    <3> SUFFICES ASSUME NEW i \in tpOutbox', NEW j \in tpOutbox', i # j PROVE i.refs \cap j.refs = {} OBVIOUS
    <3>1. CASE i = intent BY <1>1, <1>6, <3>1
    <3>2. CASE j = intent BY <1>1, <1>6, <3>2
    <3>3. CASE i # intent /\ j # intent BY <1>6, <3>3 DEF LedgerSound
    <3> QED BY <3>1, <3>2, <3>3
  <2>3. \A i \in tpOutbox' : \A r \in i.refs \cap DOMAIN tpShown' : tpShown'[r] = 0 BY <1>2, <1>6 DEF LedgerSound
  <2>4. \A r \in DOMAIN tpShown' : tpShown'[r] <= 1 /\ (tpShown'[r] # 0 => r \in tpOwned') BY <1>6 DEF LedgerSound
  <2>5. tpShown' \in [DOMAIN tpShown' -> Nat] BY <1>6 DEF LedgerSound
  <2> QED BY <1>3, <1>4, <2>1, <2>2, <2>3, <2>4, <2>5 DEF LedgerSound
<1> QED BY <1>5, <1>6

LEMMA DeliverInv == ASSUME ProgramIInv, NEW w \in ProgramWorkers, Deliver(w) PROVE ProgramIInv'
<1> DEFINE run == tpRun[w]
           intent == [refs |-> run.acked, covers |-> run.covers]
<1>1. run.pc = "deliver" /\ Set(w, Ended(run, "done")) /\ tpProg' = tpProg BY DEF Deliver
<1>2. RunFields(run) /\ (run.calls > 0 => Ready(tpProg)) /\ run.acked \subseteq run.covers
  BY <1>1, RunOf DEF RunSound
<1>3. RunsSound'
  <2>1. RunSound(Ended(run, "done"), tpProg) BY <1>2, EndedSound
  <2> HIDE DEF run
  <2> QED BY <1>1, <2>1, RunMoves DEF ProgramIInv
<1>4. CASE UNCHANGED <<tpOwned, tpOutbox, tpShown, tpSent>> BY <1>3, <1>4, LedgerRests DEF ProgramIInv
<1>5. CASE ~ UNCHANGED <<tpOwned, tpOutbox, tpShown, tpSent>>
  <2>1. /\ intent.refs \cap tpOwned = {} /\ tpOwned' = tpOwned \cup intent.refs /\ tpSent' = tpSent \cup {intent}
        /\ \/ Show(intent) /\ UNCHANGED tpOutbox
           \/ tpOutbox' = tpOutbox \cup {intent} /\ UNCHANGED tpShown
    BY <1>5 DEF Deliver
  <2>2. intent.refs \subseteq intent.covers BY <1>2
  <2> HIDE DEF intent
  <2>3. LedgerSound' BY <2>1, <2>2, Reserves DEF ProgramIInv
  <2> QED BY <1>3, <2>3 DEF ProgramIInv
<1> QED BY <1>4, <1>5

LEMMA DrainInv == ProgramIInv /\ DrainOutbox => ProgramIInv'
<1> SUFFICES ASSUME ProgramIInv, DrainOutbox PROVE ProgramIInv' OBVIOUS
<1>1. PICK intent \in tpOutbox : tpOutbox' = tpOutbox \ {intent} /\ Show(intent) BY DEF DrainOutbox
<1>2. UNCHANGED <<tpProg, tpRun, tpTicks, tpOwned, tpSent>> BY DEF DrainOutbox
<1>3. RunsSound' BY <1>2 DEF ProgramIInv, RunsSound
<1>4. LedgerSound BY DEF ProgramIInv
<1>5. /\ DOMAIN tpShown' = DOMAIN tpShown
      /\ \A r \in DOMAIN tpShown : tpShown'[r] = IF r \in intent.refs THEN tpShown[r] + 1 ELSE tpShown[r]
      /\ tpShown' = [r \in DOMAIN tpShown' |-> tpShown'[r]]
  BY <1>1 DEF Show
<1>6. \A r \in DOMAIN tpShown : tpShown[r] \in Nat BY <1>4 DEF LedgerSound
<1>7. \A r \in DOMAIN tpShown : tpShown'[r] \in Nat BY <1>5, <1>6
<1>8. tpShown' \in [DOMAIN tpShown' -> Nat] BY <1>5, <1>7
<1>9. intent.refs \subseteq tpOwned BY <1>1, <1>4 DEF LedgerSound, OnlySendingConsumes
<1>10. \A r \in DOMAIN tpShown : tpShown'[r] <= 1 /\ (tpShown'[r] # 0 => r \in tpOwned')
  <2> TAKE r \in DOMAIN tpShown
  <2>1. CASE r \in intent.refs BY <1>1, <1>2, <1>4, <1>5, <1>9, <2>1 DEF LedgerSound
  <2>2. CASE r \notin intent.refs BY <1>2, <1>4, <1>5, <2>2 DEF LedgerSound
  <2> QED BY <2>1, <2>2
<1>11. \A i \in tpOutbox' : \A r \in i.refs \cap DOMAIN tpShown : tpShown'[r] = 0
  <2> TAKE i \in tpOutbox'
  <2> TAKE r \in i.refs \cap DOMAIN tpShown
  <2>1. i \in tpOutbox /\ r \notin intent.refs BY <1>1, <1>4 DEF LedgerSound
  <2> QED BY <1>4, <1>5, <2>1 DEF LedgerSound
<1>12. tpOutbox' \subseteq tpSent' /\ \A i, j \in tpOutbox' : i # j => i.refs \cap j.refs = {}
  BY <1>1, <1>2, <1>4 DEF LedgerSound
<1>13. TextCoversItems' /\ OnlySendingConsumes' BY <1>2, <1>4 DEF LedgerSound, TextCoversItems, OnlySendingConsumes
<1>14. LedgerSound' BY <1>5, <1>8, <1>10, <1>11, <1>12, <1>13 DEF LedgerSound
<1> QED BY <1>3, <1>14 DEF ProgramIInv

-----------------------------------------------------------------------------
LEMMA ProgramInitInv == ProgramInit => ProgramIInv
<1> SUFFICES ASSUME ProgramInit PROVE ProgramIInv OBVIOUS
<1>1. tpRun = [w \in ProgramWorkers |-> Resting] /\ tpProg \in Programs BY DEF ProgramInit
<1>2. RunSound(Resting, tpProg) BY DEF Resting, RunSound, RunFields
<1>3. RunsSound BY <1>1, <1>2 DEF RunsSound
<1>4. tpOwned = {} /\ tpOutbox = {} /\ tpSent = {} /\ tpShown = [r \in Refs(tpProg) |-> 0] BY DEF ProgramInit
<1>5. tpShown \in [DOMAIN tpShown -> Nat] /\ \A r \in DOMAIN tpShown : tpShown[r] = 0 BY <1>4
<1>6. LedgerSound BY <1>4, <1>5 DEF LedgerSound, TextCoversItems, OnlySendingConsumes
<1> QED BY <1>3, <1>6 DEF ProgramIInv

LEMMA ProgramInductive == ProgramIInv /\ [ProgramNext]_programVars => ProgramIInv'
<1> SUFFICES ASSUME ProgramIInv, [ProgramNext]_programVars PROVE ProgramIInv' OBVIOUS
<1>1. ASSUME NEW w \in ProgramWorkers,
             \/ StartTick(w) \/ RunInput(w) \/ Decide(w) \/ Reply(w) \/ ValidateNotification(w) \/ Deliver(w)
      PROVE  ProgramIInv'
  BY <1>1, StartTickInv, RunInputInv, DecideInv, ReplyInv, ValidateInv, DeliverInv
<1>2. CASE UNCHANGED programVars
  <2>1. UNCHANGED <<tpProg, tpRun, tpOwned, tpOutbox, tpShown, tpSent>> BY <1>2 DEF programVars
  <2>2. RunsSound' BY <2>1 DEF ProgramIInv, RunsSound
  <2> QED BY <2>1, <2>2, LedgerRests DEF ProgramIInv
<1> QED BY <1>1, <1>2, DrainInv DEF ProgramNext, ProgramEnded

\* Every keyed item of a program is announced at most once, even when two claims
\* looked it up before either reserved it, the text that goes out stands for every
\* item it marks as delivered, nothing is consumed without a reservation, and no
\* tool is called before the preflight (task_program.go, deliverBackground): for
\* every set of programs, keys and overlapping claims.
THEOREM ProgramIsSound == ProgramSpec => []ProgramSound
<1>1. ProgramIInv => ProgramSound
  <2> SUFFICES ASSUME ProgramIInv PROVE ProgramSound OBVIOUS
  <2>1. ItemOnce /\ TextCoversItems /\ OnlySendingConsumes BY DEF ProgramIInv, LedgerSound, ItemOnce
  <2>2. PreflightFirst
    <3>1. tpProg \in Programs BY DEF ProgramIInv, RunsSound
    <3>2. tpProg.decision.mode \in {"none", "selected"} BY <3>1, ProgramConstants
    <3>3. Ready(tpProg) => tpProg.decision.tools \subseteq tpProg.registry /\ ValidProgram(tpProg)
      BY <3>2 DEF Ready, ValidProgram, Preflight
    <3> QED BY <3>3 DEF ProgramIInv, RunsSound, RunSound, PreflightFirst
  <2> QED BY <2>1, <2>2 DEF ProgramSound
<1> QED BY <1>1, ProgramInitInv, ProgramInductive, PTL DEF ProgramSpec

-----------------------------------------------------------------------------
(* The component ResearchWorker                                               *)

ProgressFields(prog) ==
    DOMAIN prog = {"plan", "phase", "peer", "rev", "session", "blanks", "feedback", "evidence", "context"}
WorkFields(run) == DOMAIN run = {"on", "prog", "key", "final", "fb", "ready"}

WorkerTypeOK ==
    /\ rwCfg \in WorkerConfigs /\ rwIter \in Nat /\ rwSubs \in Nat /\ rwFaults \in Nat
    /\ rwSessions \in Nat /\ rwReflex \in Nat /\ rwLate \in BOOLEAN /\ rwFinal \in BOOLEAN
    /\ rwStatus \in {"pending", "running", "paused", "ended"}
    /\ ProgressFields(rwProg) /\ rwProg.session \in Nat /\ rwProg.context \in BOOLEAN

\* The run in flight works on the row's progress: only the injected context may be
\* ahead of it, and the feedback is not carried.  Its deadline was read at the
\* start, and what made it final still does.
RunFollowsRow ==
    rwStatus = "running" =>
        /\ WorkFields(rwRun) /\ ProgressFields(rwRun.prog)
        /\ rwRun.prog.plan = rwProg.plan /\ rwRun.prog.phase = rwProg.phase
        /\ rwRun.prog.session = rwProg.session /\ rwRun.prog.evidence = rwProg.evidence
        /\ rwRun.prog.feedback = "" /\ rwRun.prog.context \in BOOLEAN
        /\ rwProg.context => rwRun.prog.context
        /\ rwRun.final \in BOOLEAN /\ (rwRun.final => SynthesisDeadline)
        /\ ReserveRepair /\ rwIter + 2 >= rwCfg.max => rwRun.final

\* What an iteration is spent on: a session or a reflex run beyond the first was
\* lost with a fault.
ContextOf == IF rwStatus = "running" THEN rwRun.prog.context ELSE rwProg.context
Spent ==
    /\ rwSessions <= rwFaults + (IF rwProg.session # 0 THEN 1 ELSE 0)
    /\ rwReflex <= rwFaults + (IF ContextOf THEN 1 ELSE 0)

\* Every entry is a claim of its own, settled in an iteration that is over, in order.
Entry == [claim : Claims, iteration : Nat]
Ledger(ev, iteration) ==
    /\ ev \in Seq(Entry) /\ Len(ev) <= EvidenceCap
    /\ \A i \in DOMAIN ev : ev[i].iteration <= iteration
    /\ \A i, j \in DOMAIN ev : i < j => ev[i].claim # ev[j].claim /\ ev[i].iteration <= ev[j].iteration

\* The finalizing phase is entered only past the deadline, and a task that
\* entered the window does not pause.
FinalIsLate == rwProg.phase = "finalizing" => rwLate
FinalNeverPauses == rwFinal => rwStatus # "paused"

ResearchIInv ==
    /\ WorkerTypeOK /\ RunFollowsRow /\ Spent /\ Ledger(rwProg.evidence, rwIter)
    /\ FinalIsLate /\ FinalNeverPauses
    /\ FeedbackFresh /\ RepairReserved /\ FinalizationSticks

-----------------------------------------------------------------------------
(* The evidence ledger                                                        *)

\* A reply without a claim leaves the entries.
LEMMA NothingMerged == ASSUME NEW ev, NEW n PROVE MergeEvidence(ev, <<>>, n) = LastEntries(ev)
<1> DEFINE phi(f) == f = [s \in SUBSET DOMAIN <<>> |->
                            IF s = {} THEN ev ELSE Recorded(f[s \ {Max(s)}], <<>>[Max(s)], n)]
           fold == CHOOSE f : phi(f)
           w == [s \in SUBSET DOMAIN <<>> |-> ev]
<1>1. MergeEvidence(ev, <<>>, n) = LastEntries(fold[DOMAIN <<>>])
  BY DEF MergeEvidence, FoldLeft, MapThenFoldSet
<1>2. DOMAIN <<>> = {} OBVIOUS
<1>3. phi(w) BY <1>2
<1>4. phi(fold) BY <1>3
<1> HIDE DEF fold
<1>5. fold[{}] = ev BY <1>2, <1>4
<1> QED BY <1>1, <1>2, <1>5

\* A reply with one claim records it.
LEMMA OneMerged == ASSUME NEW ev, NEW n, NEW c PROVE MergeEvidence(ev, <<c>>, n) = LastEntries(Recorded(ev, c, n))
<1> DEFINE phi(f) == f = [s \in SUBSET DOMAIN <<c>> |->
                            IF s = {} THEN ev ELSE Recorded(f[s \ {Max(s)}], <<c>>[Max(s)], n)]
           fold == CHOOSE f : phi(f)
           w == [s \in SUBSET DOMAIN <<c>> |-> IF s = {} THEN ev ELSE Recorded(ev, c, n)]
<1>1. MergeEvidence(ev, <<c>>, n) = LastEntries(fold[DOMAIN <<c>>])
  BY DEF MergeEvidence, FoldLeft, MapThenFoldSet
<1>2. DOMAIN <<c>> = {1} /\ <<c>>[1] = c OBVIOUS
<1>3. Max({1}) = 1 BY DEF Max
<1>4. SUBSET DOMAIN <<c>> = {{}, {1}} BY <1>2
<1>5. w[{}] = ev /\ w[{1}] = Recorded(ev, c, n) BY <1>4
<1>6. {1} \ {1} = {} OBVIOUS
<1>7. phi(w)
  <2>1. \A s \in SUBSET DOMAIN <<c>> : s # {} => s = {1} BY <1>4
  <2>2. Recorded(w[{1} \ {Max({1})}], <<c>>[Max({1})], n) = Recorded(ev, c, n) BY <1>2, <1>3, <1>5, <1>6
  <2>3. \A s \in SUBSET DOMAIN <<c>> :
           (IF s = {} THEN ev ELSE Recorded(ev, c, n))
             = (IF s = {} THEN ev ELSE Recorded(w[s \ {Max(s)}], <<c>>[Max(s)], n))
    BY <2>1, <2>2
  <2> QED BY <2>3
<1>8. phi(fold) BY <1>7
<1> HIDE DEF fold
<1>9. fold[{}] = ev BY <1>4, <1>8
<1>10. fold[{1}] = Recorded(fold[{1} \ {1}], <<c>>[1], n)
  <2>1. {1} \in SUBSET DOMAIN <<c>> /\ {1} # {} BY <1>2
  <2> QED BY <1>3, <1>8, <2>1
<1> QED BY <1>1, <1>2, <1>6, <1>9, <1>10

LEMMA LastEntriesKeep ==
  ASSUME NEW ev \in Seq(Entry), NEW n \in Nat, \A i \in DOMAIN ev : ev[i].iteration <= n,
         \A i, j \in DOMAIN ev : i < j => ev[i].claim # ev[j].claim /\ ev[i].iteration <= ev[j].iteration
  PROVE  Ledger(LastEntries(ev), n)
<1> USE WorkerConstants
<1>1. CASE Len(ev) <= EvidenceCap BY <1>1 DEF LastEntries, Ledger
<1>2. CASE Len(ev) > EvidenceCap
  <2> DEFINE k == Len(ev) - EvidenceCap
             last == SubSeq(ev, k + 1, Len(ev))
  <2>1. k \in Nat /\ Len(ev) \in Nat /\ Len(ev) - (k + 1) + 1 = EvidenceCap BY <1>2
  <2>2. last \in Seq(Entry) /\ Len(last) = EvidenceCap BY <1>2, <2>1
  <2>3. \A i \in DOMAIN last : i \in Nat /\ i + k \in DOMAIN ev /\ last[i] = ev[i + k] BY <1>2, <2>1, <2>2
  <2>4. LastEntries(ev) = last BY <1>2 DEF LastEntries
  <2> HIDE DEF last
  <2>5. \A i \in DOMAIN last : last[i].iteration <= n BY <2>3
  <2>6. \A i, j \in DOMAIN last : i < j => last[i].claim # last[j].claim /\ last[i].iteration <= last[j].iteration
    <3> SUFFICES ASSUME NEW i \in DOMAIN last, NEW j \in DOMAIN last, i < j
                 PROVE  last[i].claim # last[j].claim /\ last[i].iteration <= last[j].iteration
      OBVIOUS
    <3>1. i + k < j + k BY <2>1, <2>3
    <3> HIDE DEF k
    <3> QED BY <2>3, <3>1
  <2> QED BY <2>2, <2>4, <2>5, <2>6 DEF Ledger
<1> QED BY <1>1, <1>2

LEMMA MergeKeeps ==
  ASSUME NEW ev, NEW n \in Nat, Ledger(ev, n), NEW claims \in {<<>>} \cup {<<c>> : c \in Claims}
  PROVE  Ledger(MergeEvidence(ev, claims, n + 1), n + 1)
<1>1. ev \in Seq(Entry) BY DEF Ledger
<1>2. \A i \in DOMAIN ev : ev[i].iteration \in Nat /\ ev[i].iteration <= n
  <2>1. \A i \in DOMAIN ev : ev[i] \in Entry BY <1>1
  <2>2. \A e \in Entry : e.iteration \in Nat BY DEF Entry
  <2> QED BY <2>1, <2>2 DEF Ledger
<1>3. \A i \in DOMAIN ev : ev[i].iteration <= n + 1 BY <1>2
<1>4. \A i, j \in DOMAIN ev : i < j => ev[i].claim # ev[j].claim /\ ev[i].iteration <= ev[j].iteration BY DEF Ledger
<1>5. CASE claims = <<>> BY <1>1, <1>3, <1>4, <1>5, NothingMerged, LastEntriesKeep
<1>6. ASSUME NEW c \in Claims, claims = <<c>> PROVE Ledger(MergeEvidence(ev, claims, n + 1), n + 1)
  <2>1. MergeEvidence(ev, claims, n + 1) = LastEntries(Recorded(ev, c, n + 1)) BY <1>6, OneMerged
  <2>2. CASE \E i \in DOMAIN ev : EvidenceKey(ev[i]) = c
    BY <1>1, <1>3, <1>4, <2>1, <2>2, LastEntriesKeep DEF Recorded
  <2>3. CASE ~ \E i \in DOMAIN ev : EvidenceKey(ev[i]) = c
    <3> DEFINE e == [claim |-> c, iteration |-> n + 1]
               out == Append(ev, e)
    <3>1. e \in Entry /\ e.claim = c /\ e.iteration = n + 1 BY DEF Entry
    <3>2. Recorded(ev, c, n + 1) = out BY <2>3 DEF Recorded
    <3> HIDE DEF e
    <3>3. out \in Seq(Entry) /\ Len(out) = Len(ev) + 1 /\ Len(ev) \in Nat BY <1>1, <3>1
    <3>4. \A i \in DOMAIN out : (i \in DOMAIN ev /\ out[i] = ev[i] /\ i <= Len(ev)) \/ (i = Len(ev) + 1 /\ out[i] = e)
      BY <1>1, <3>1, <3>3
    <3> HIDE DEF out
    <3>5. \A i \in DOMAIN out : out[i].iteration <= n + 1 BY <1>3, <3>1, <3>4
    <3>6. \A i, j \in DOMAIN out : i < j => out[i].claim # out[j].claim /\ out[i].iteration <= out[j].iteration
      <4> SUFFICES ASSUME NEW i \in DOMAIN out, NEW j \in DOMAIN out, i < j
                   PROVE  out[i].claim # out[j].claim /\ out[i].iteration <= out[j].iteration
        OBVIOUS
      <4>0. i \in Nat /\ j \in Nat BY <3>3
      <4>1. CASE j \in DOMAIN ev /\ out[j] = ev[j] /\ j <= Len(ev)
        <5>1. i \in DOMAIN ev /\ out[i] = ev[i] BY <3>3, <3>4, <4>0, <4>1
        <5> QED BY <1>4, <4>1, <5>1
      <4>2. CASE j = Len(ev) + 1 /\ out[j] = e
        <5>1. i \in DOMAIN ev /\ out[i] = ev[i] BY <3>3, <3>4, <4>0, <4>2
        <5>2. ev[i].claim # c BY <2>3, <5>1 DEF EvidenceKey
        <5> QED BY <1>3, <3>1, <4>2, <5>1, <5>2
      <4> QED BY <3>4, <4>1, <4>2
    <3>7. n + 1 \in Nat OBVIOUS
    <3>8. Ledger(LastEntries(out), n + 1) BY <3>3, <3>5, <3>6, <3>7, LastEntriesKeep
    <3> QED BY <2>1, <3>2, <3>8
  <2> QED BY <2>2, <2>3
<1> QED BY <1>5, <1>6

-----------------------------------------------------------------------------
(* What an iteration starts from                                              *)

\* A deadline that has passed stays passed while the plan and the phase stay.
LEMMA DeadlineKept ==
  ASSUME SynthesisDeadline, rwCfg' = rwCfg, rwIter' = rwIter, rwLate => rwLate',
         rwProg'.phase = rwProg.phase, rwProg'.plan = rwProg.plan
  PROVE  SynthesisDeadline'
BY DEF SynthesisDeadline, IsLast, ReserveRepair, PlanExhausted

LEMMA ConfigType == ASSUME WorkerTypeOK PROVE rwCfg.max \in Nat \ {0} /\ rwCfg.gate \in BOOLEAN
BY WorkerConstants DEF WorkerTypeOK

LEMMA StartInv == ASSUME ResearchIInv, StartIteration PROVE ResearchIInv'
<1> DEFINE s == IF rwProg.session = 0 THEN rwSessions + 1 ELSE rwProg.session
           prog == [Working EXCEPT !.session = s]
           dl == SynthesisDeadline
           key == PhaseKey
<1>1. /\ rwStatus = "pending" /\ rwSessions' = IF rwProg.session = 0 THEN rwSessions + 1 ELSE rwSessions
      /\ UNCHANGED <<rwCfg, rwIter, rwLate, rwLast, rwSubs, rwFinal, rwReflex>>
  BY DEF StartIteration
<1>2. \/ /\ rwProg' = [rwProg EXCEPT !.session = s] /\ rwStatus' = "running" /\ UNCHANGED rwFaults
         /\ rwRun' = [on |-> TRUE, prog |-> prog, key |-> key, final |-> dl, fb |-> rwProg.feedback, ready |-> FALSE]
      \/ rwFaults' = rwFaults + 1 /\ UNCHANGED <<rwProg, rwStatus, rwRun>>
  BY DEF StartIteration
<1>3. WorkerTypeOK /\ ProgressFields(rwProg) /\ rwProg.session \in Nat /\ rwSessions \in Nat /\ rwFaults \in Nat /\ rwReflex \in Nat
  BY DEF ResearchIInv, WorkerTypeOK
<1>4. Spent BY DEF ResearchIInv
<1>5. dl \in BOOLEAN BY DEF SynthesisDeadline
<1>6. dl <=> SynthesisDeadline OBVIOUS
<1>7. s \in Nat /\ s # 0 BY <1>3
<1> HIDE DEF key, dl
<1>8. CASE rwFaults' = rwFaults + 1 /\ UNCHANGED <<rwProg, rwStatus, rwRun>>
  <2>1. WorkerTypeOK' BY <1>1, <1>3, <1>8 DEF WorkerTypeOK
  <2>2. RunFollowsRow' BY <1>1, <1>8 DEF RunFollowsRow
  <2>3. ContextOf' = ContextOf BY <1>8 DEF ContextOf
  <2>4. Spent' BY <1>1, <1>3, <1>4, <1>8, <2>3 DEF Spent
  <2>5. Ledger(rwProg'.evidence, rwIter') BY <1>1, <1>8 DEF ResearchIInv
  <2>6. FinalIsLate' /\ FinalNeverPauses' BY <1>1, <1>8 DEF ResearchIInv, FinalIsLate, FinalNeverPauses
  <2>7. FeedbackFresh' /\ RepairReserved' BY <1>1, <1>8 DEF ResearchIInv, FeedbackFresh, RepairReserved, IsLast
  <2>8. FinalizationSticks' BY <1>1, <1>8, DeadlineKept DEF ResearchIInv, FinalizationSticks
  <2> QED BY <2>1, <2>2, <2>4, <2>5, <2>6, <2>7, <2>8 DEF ResearchIInv
<1>9. CASE /\ rwProg' = [rwProg EXCEPT !.session = s] /\ rwStatus' = "running" /\ UNCHANGED rwFaults
           /\ rwRun' = [on |-> TRUE, prog |-> prog, key |-> key, final |-> dl, fb |-> rwProg.feedback, ready |-> FALSE]
  <2> HIDE DEF s
  <2>1. /\ ProgressFields(prog) /\ prog.plan = rwProg.plan /\ prog.phase = rwProg.phase /\ prog.session = s
        /\ prog.evidence = rwProg.evidence /\ prog.feedback = "" /\ prog.context = rwProg.context
    BY <1>3 DEF Working, ProgressFields
  <2>2. /\ ProgressFields(rwProg') /\ rwProg'.plan = rwProg.plan /\ rwProg'.phase = rwProg.phase /\ rwProg'.session = s
        /\ rwProg'.evidence = rwProg.evidence /\ rwProg'.feedback = rwProg.feedback /\ rwProg'.context = rwProg.context
    BY <1>3, <1>9 DEF ProgressFields
  <2> HIDE DEF prog
  <2>3. WorkFields(rwRun') /\ rwRun'.prog = prog /\ rwRun'.final = dl BY <1>9 DEF WorkFields
  <2>4. WorkerTypeOK' BY <1>1, <1>3, <1>7, <1>9, <2>2 DEF WorkerTypeOK
  <2>5. RunFollowsRow'
    <3>1. rwRun'.final => SynthesisDeadline' BY <1>1, <1>6, <2>2, <2>3, DeadlineKept
    <3>2. ReserveRepair' /\ rwIter' + 2 >= rwCfg'.max => rwRun'.final
      BY <1>1, <1>6, <2>3 DEF ReserveRepair, SynthesisDeadline
    <3>3. prog.context \in BOOLEAN BY <2>1, <1>3 DEF WorkerTypeOK
    <3> QED BY <1>5, <2>1, <2>2, <2>3, <3>1, <3>2, <3>3 DEF RunFollowsRow
  <2>6. ContextOf' = ContextOf BY <1>1, <1>9, <2>1, <2>3 DEF ContextOf
  <2>7. Spent'
    <3>1. rwSessions' <= rwFaults + 1 BY <1>1, <1>3, <1>4 DEF Spent
    <3> QED BY <1>1, <1>3, <1>4, <1>7, <1>9, <2>2, <2>6, <3>1 DEF Spent
  <2>8. Ledger(rwProg'.evidence, rwIter') BY <1>1, <2>2 DEF ResearchIInv
  <2>9. FinalIsLate' /\ FinalNeverPauses' BY <1>1, <1>9, <2>2 DEF ResearchIInv, FinalIsLate, FinalNeverPauses
  <2>10. FeedbackFresh' /\ RepairReserved' BY <1>1, <2>2 DEF ResearchIInv, FeedbackFresh, RepairReserved, IsLast
  <2>11. FinalizationSticks' BY <1>1, <1>6, <1>9, <2>3 DEF ResearchIInv, FinalizationSticks
  <2> QED BY <2>4, <2>5, <2>7, <2>8, <2>9, <2>10, <2>11 DEF ResearchIInv
<1> QED BY <1>2, <1>8, <1>9

LEMMA PrepareInv == ASSUME ResearchIInv, PrepareContext PROVE ResearchIInv'
<1>1. /\ rwStatus = "running" /\ rwRun' = [rwRun EXCEPT !.ready = TRUE, !.prog.context = TRUE]
      /\ rwReflex' = IF rwRun.prog.context THEN rwReflex ELSE rwReflex + 1
      /\ UNCHANGED <<rwCfg, rwIter, rwStatus, rwProg, rwLate, rwFaults, rwLast, rwSubs, rwFinal, rwSessions>>
  BY DEF PrepareContext
<1>2. WorkFields(rwRun) /\ ProgressFields(rwRun.prog) BY <1>1 DEF ResearchIInv, RunFollowsRow
<1>3. /\ WorkFields(rwRun') /\ rwRun'.final = rwRun.final /\ ProgressFields(rwRun'.prog)
      /\ rwRun'.prog.plan = rwRun.prog.plan /\ rwRun'.prog.phase = rwRun.prog.phase
      /\ rwRun'.prog.session = rwRun.prog.session /\ rwRun'.prog.evidence = rwRun.prog.evidence
      /\ rwRun'.prog.feedback = rwRun.prog.feedback /\ rwRun'.prog.context = TRUE
  BY <1>1, <1>2 DEF WorkFields, ProgressFields
<1>4. WorkerTypeOK /\ Spent /\ rwReflex \in Nat /\ rwFaults \in Nat BY DEF ResearchIInv, WorkerTypeOK
<1>5. WorkerTypeOK' BY <1>1, <1>4 DEF WorkerTypeOK
<1>6. SynthesisDeadline => SynthesisDeadline' BY <1>1, DeadlineKept
<1>7. RunFollowsRow' BY <1>1, <1>3, <1>6 DEF ResearchIInv, RunFollowsRow, ReserveRepair
<1>8. Spent' BY <1>1, <1>3, <1>4 DEF Spent, ContextOf
<1>9. Ledger(rwProg'.evidence, rwIter') BY <1>1 DEF ResearchIInv
<1>10. FinalIsLate' /\ FinalNeverPauses' BY <1>1 DEF ResearchIInv, FinalIsLate, FinalNeverPauses
<1>11. FeedbackFresh' /\ RepairReserved' BY <1>1 DEF ResearchIInv, FeedbackFresh, RepairReserved, IsLast
<1>12. FinalizationSticks' BY <1>1, <1>3 DEF ResearchIInv, FinalizationSticks
<1> QED BY <1>5, <1>7, <1>8, <1>9, <1>10, <1>11, <1>12 DEF ResearchIInv

LEMMA CheckpointInv == ASSUME ResearchIInv, SaveCheckpoint PROVE ResearchIInv'
<1>1. /\ rwStatus = "running" /\ rwProg' = [rwRun.prog EXCEPT !.feedback = rwProg.feedback]
      /\ UNCHANGED <<rwCfg, rwIter, rwStatus, rwRun, rwLate, rwFaults, rwLast, rwSubs, rwFinal, rwSessions, rwReflex>>
  BY DEF SaveCheckpoint
<1>2. RunFollowsRow /\ ProgressFields(rwRun.prog) BY <1>1 DEF ResearchIInv, RunFollowsRow
<1>3. /\ ProgressFields(rwProg') /\ rwProg'.feedback = rwProg.feedback
      /\ rwProg'.plan = rwRun.prog.plan /\ rwProg'.phase = rwRun.prog.phase /\ rwProg'.session = rwRun.prog.session
      /\ rwProg'.evidence = rwRun.prog.evidence /\ rwProg'.context = rwRun.prog.context
  BY <1>1, <1>2 DEF ProgressFields
<1>4. /\ rwProg'.plan = rwProg.plan /\ rwProg'.phase = rwProg.phase /\ rwProg'.session = rwProg.session
      /\ rwProg'.evidence = rwProg.evidence /\ rwProg'.context \in BOOLEAN
  BY <1>1, <1>2, <1>3 DEF RunFollowsRow
<1>5. WorkerTypeOK' BY <1>1, <1>3, <1>4 DEF ResearchIInv, WorkerTypeOK
<1>6. SynthesisDeadline => SynthesisDeadline' BY <1>1, <1>4, DeadlineKept
<1>7. RunFollowsRow' BY <1>1, <1>2, <1>3, <1>4, <1>6 DEF RunFollowsRow, ReserveRepair
<1>8. Spent' BY <1>1, <1>3, <1>4 DEF ResearchIInv, Spent, ContextOf
<1>9. Ledger(rwProg'.evidence, rwIter') BY <1>1, <1>4 DEF ResearchIInv
<1>10. FinalIsLate' /\ FinalNeverPauses' BY <1>1, <1>4 DEF ResearchIInv, FinalIsLate, FinalNeverPauses
<1>11. FeedbackFresh' /\ RepairReserved' BY <1>1, <1>3 DEF ResearchIInv, FeedbackFresh, RepairReserved, IsLast
<1>12. FinalizationSticks' BY <1>1 DEF ResearchIInv, FinalizationSticks
<1> QED BY <1>5, <1>7, <1>8, <1>9, <1>10, <1>11, <1>12 DEF ResearchIInv

\* A lost iteration leaves the row as the checkpoints wrote it.
LEMMA LoseInv == ASSUME ResearchIInv, LoseIteration PROVE ResearchIInv'
<1>1. /\ rwStatus = "running" /\ rwFaults' = rwFaults + 1 /\ rwStatus' = "pending"
      /\ UNCHANGED <<rwCfg, rwIter, rwProg, rwLate, rwLast, rwSubs, rwFinal, rwSessions, rwReflex>>
  BY DEF LoseIteration
<1>2. WorkerTypeOK /\ RunFollowsRow /\ Spent /\ rwReflex \in Nat /\ rwFaults \in Nat /\ rwSessions \in Nat
  BY DEF ResearchIInv, WorkerTypeOK
<1>3. WorkerTypeOK' BY <1>1, <1>2 DEF WorkerTypeOK
<1>4. SynthesisDeadline => SynthesisDeadline' BY <1>1, DeadlineKept
<1>5. RunFollowsRow' BY <1>1 DEF RunFollowsRow
<1>6. Spent' BY <1>1, <1>2 DEF Spent, ContextOf
<1>7. Ledger(rwProg'.evidence, rwIter') BY <1>1 DEF ResearchIInv
<1>8. FinalIsLate' /\ FinalNeverPauses' BY <1>1 DEF ResearchIInv, FinalIsLate, FinalNeverPauses
<1>9. FeedbackFresh' /\ RepairReserved' BY <1>1 DEF ResearchIInv, FeedbackFresh, RepairReserved, IsLast
<1>10. FinalizationSticks' BY <1>1, <1>2, <1>4 DEF ResearchIInv, FinalizationSticks, RunFollowsRow
<1> QED BY <1>3, <1>5, <1>6, <1>7, <1>8, <1>9, <1>10 DEF ResearchIInv

-----------------------------------------------------------------------------
(* The end of an iteration                                                    *)

\* The note a completed iteration leaves, and a progress without one.
Notes(prog, status, last) ==
    status # "ended" => prog.feedback = (IF last \in {"blank", "rejected"} THEN last ELSE "")
Bare(prog) == prog.feedback = ""

\* What a completed iteration owes the next one.
LEMMA CompleteInv ==
  ASSUME ResearchIInv, rwStatus = "running", NEW status \in {"pending", "paused", "ended"}, NEW prog, NEW last,
         Complete(status, prog, last), rwSubs' \in Nat, rwSubs' >= rwSubs,
         ProgressFields(prog), prog.session = rwProg.session, prog.context = rwRun.prog.context,
         Ledger(prog.evidence, rwIter + 1), prog.phase = "finalizing" => rwLate,
         Notes(prog, status, last),
         rwRun.final /\ rwProg.plan # NoPlan => prog.plan = rwProg.plan,
         rwRun.final => status # "paused" /\ rwSubs' >= rwSubs + 1
  PROVE  ResearchIInv'
<1>1. /\ rwStatus' = status /\ rwProg' = prog /\ rwLast' = last /\ rwIter' = rwIter + 1
      /\ rwFinal' = (rwFinal \/ rwRun.final) /\ UNCHANGED <<rwCfg, rwLate, rwFaults, rwSessions, rwReflex>>
  BY DEF Complete
<1>0. rwIter \in Nat /\ rwSubs \in Nat /\ rwCfg.max \in Nat /\ rwIter' = rwIter + 1
  BY ConfigType DEF ResearchIInv, WorkerTypeOK, Complete
<1>2. WorkerTypeOK /\ RunFollowsRow /\ Spent /\ rwLate \in BOOLEAN /\ rwProg.session \in Nat
  BY DEF ResearchIInv, WorkerTypeOK
<1>3. rwRun.final \in BOOLEAN /\ rwRun.prog.context \in BOOLEAN /\ (rwRun.final => SynthesisDeadline)
  BY <1>2 DEF RunFollowsRow
<1>4. rwFinal' => rwRun.final BY <1>1 DEF ResearchIInv, FinalizationSticks
<1>5. WorkerTypeOK'
  <2>1. rwFinal' \in BOOLEAN BY <1>1
  <2>2. rwIter' \in Nat BY <1>0
  <2> QED BY <1>1, <1>2, <1>3, <2>1, <2>2 DEF WorkerTypeOK
<1>6. RunFollowsRow' BY <1>1 DEF RunFollowsRow
<1>7. Spent' BY <1>1, <1>2 DEF Spent, ContextOf
<1>8. Ledger(rwProg'.evidence, rwIter') BY <1>1
<1>9. FinalIsLate' BY <1>1 DEF FinalIsLate
<1>10. FinalNeverPauses' BY <1>1, <1>4 DEF FinalNeverPauses
<1>11. FeedbackFresh' BY <1>1 DEF FeedbackFresh, Notes
<1>12. RepairReserved'
  <2> SUFFICES ASSUME rwCfg.gate, rwCfg.max >= 4, rwIter + 1 + 1 >= rwCfg.max PROVE rwSubs' >= 1
    BY <1>1 DEF RepairReserved, IsLast
  <2>1. rwIter + 2 >= rwCfg.max BY <1>0
  <2>2. rwRun.final BY <1>2, <2>1 DEF RunFollowsRow, ReserveRepair
  <2>3. rwSubs' >= rwSubs + 1 BY <2>2
  <2> QED BY <1>0, <2>3
<1>13. FinalizationSticks'
  <2> SUFFICES ASSUME rwFinal', status = "pending" PROVE SynthesisDeadline'
    BY <1>1 DEF FinalizationSticks
  <2>1. rwRun.final /\ SynthesisDeadline BY <1>3, <1>4
  <2>2. CASE IsLast
    <3>1. rwIter + 1 + 1 >= rwCfg.max BY <1>0, <2>2 DEF IsLast
    <3> QED BY <1>1, <3>1 DEF IsLast, SynthesisDeadline
  <2>3. CASE ReserveRepair /\ rwIter + 2 >= rwCfg.max
    <3>1. rwIter + 1 + 2 >= rwCfg.max BY <1>0, <2>3
    <3> QED BY <1>1, <2>3, <3>1 DEF ReserveRepair, SynthesisDeadline
  <2>4. CASE rwLate BY <1>1, <2>4 DEF SynthesisDeadline
  <2>5. CASE rwProg.phase = "finalizing" BY <2>4, <2>5 DEF ResearchIInv, FinalIsLate
  <2>6. CASE PlanExhausted BY <1>1, <2>1, <2>6 DEF PlanExhausted, SynthesisDeadline
  <2> QED BY <2>1, <2>2, <2>3, <2>4, <2>5, <2>6 DEF SynthesisDeadline
<1> QED BY <1>5, <1>6, <1>7, <1>8, <1>9, <1>10, <1>11, <1>12, <1>13 DEF ResearchIInv

LEMMA SoftDeadlineInv == ASSUME ResearchIInv, SoftDeadline PROVE ResearchIInv'
<1> DEFINE prog == [rwRun.prog EXCEPT !.phase = "finalizing"]
<1>1. rwStatus = "running" /\ ~ rwRun.final /\ rwLate /\ Complete("pending", prog, "cut") /\ rwSubs' = rwSubs
  BY DEF SoftDeadline
<1>2. RunFollowsRow /\ ProgressFields(rwRun.prog) /\ rwSubs \in Nat /\ rwIter \in Nat
  BY <1>1 DEF ResearchIInv, RunFollowsRow, WorkerTypeOK
<1>3. /\ ProgressFields(prog) /\ prog.session = rwRun.prog.session /\ prog.context = rwRun.prog.context
      /\ prog.evidence = rwRun.prog.evidence /\ prog.feedback = rwRun.prog.feedback
  BY <1>2 DEF ProgressFields
<1> HIDE DEF prog
<1>4. prog.session = rwProg.session /\ prog.evidence = rwProg.evidence /\ prog.feedback = ""
  BY <1>1, <1>2, <1>3 DEF RunFollowsRow
<1>5. Ledger(prog.evidence, rwIter + 1)
  <2>1. Ledger(rwProg.evidence, rwIter) BY DEF ResearchIInv
  <2>2. \A i \in DOMAIN rwProg.evidence : rwProg.evidence[i].iteration \in Nat
    <3>1. \A i \in DOMAIN rwProg.evidence : rwProg.evidence[i] \in Entry BY <2>1 DEF Ledger
    <3>2. \A e \in Entry : e.iteration \in Nat BY DEF Entry
    <3> QED BY <3>1, <3>2
  <2>3. \A i \in DOMAIN rwProg.evidence : rwProg.evidence[i].iteration <= rwIter + 1 BY <1>2, <2>1, <2>2 DEF Ledger
  <2> QED BY <1>4, <2>1, <2>3 DEF Ledger
<1>6. rwSubs' >= rwSubs /\ rwSubs' \in Nat BY <1>1, <1>2
<1>7. Notes(prog, "pending", "cut") BY <1>4 DEF Notes
<1> QED BY <1>1, <1>3, <1>4, <1>5, <1>6, <1>7, CompleteInv

\* The progress a reply leaves.
LEMMA BookkeptProgress ==
  ASSUME ResearchIInv, rwStatus = "running", NEW reply \in Replies
  PROVE  LET prog == Bookkept(reply)
         IN  /\ ProgressFields(prog) /\ prog.session = rwProg.session /\ prog.context = rwRun.prog.context
             /\ Bare(prog) /\ prog.phase = "iteration"
             /\ Ledger(prog.evidence, rwIter + 1)
             /\ rwRun.final /\ rwProg.plan # NoPlan => prog.plan = rwProg.plan
<1> DEFINE run == rwRun.prog
           plan == Planned(run, reply)
           rev == Revisions(run, reply)
           peer == IF reply.peer # 0 THEN reply.peer ELSE run.peer
           evidence == MergeEvidence(run.evidence, reply.claims, rwIter + 1)
           prog == [run EXCEPT !.plan = plan, !.rev = rev, !.phase = "iteration", !.evidence = evidence, !.peer = peer]
<1>1. ProgressFields(run) /\ run.session = rwProg.session /\ run.feedback = "" /\ run.plan = rwProg.plan
      /\ run.evidence = rwProg.evidence
  BY DEF ResearchIInv, RunFollowsRow
<1>2. Bookkept(reply) = prog BY DEF Bookkept
<1>3. rwIter \in Nat /\ Ledger(run.evidence, rwIter) BY <1>1 DEF ResearchIInv, WorkerTypeOK
<1>4. reply.claims \in {<<>>} \cup {<<c>> : c \in Claims} BY DEF Replies
<1>5. Ledger(evidence, rwIter + 1) BY <1>3, <1>4, MergeKeeps
<1>6. rwRun.final /\ rwProg.plan # NoPlan => plan = rwProg.plan BY <1>1 DEF Planned
<1> HIDE DEF plan, rev, peer, evidence
<1>7. /\ ProgressFields(prog) /\ prog.session = run.session /\ prog.context = run.context /\ prog.feedback = run.feedback
      /\ prog.phase = "iteration" /\ prog.evidence = evidence /\ prog.plan = plan
  BY <1>1 DEF ProgressFields
<1> HIDE DEF prog
<1>8. Bare(prog) BY <1>1, <1>7 DEF Bare
<1> QED BY <1>1, <1>2, <1>5, <1>6, <1>7, <1>8

\* An iteration that is not a submission runs outside the finalization window.
LEMMA GoesOn ==
  ASSUME ResearchIInv, rwStatus = "running", ~ rwRun.final, rwSubs' = rwSubs, NEW kept,
         ProgressFields(kept), kept.session = rwProg.session, kept.context = rwRun.prog.context,
         Bare(kept), Ledger(kept.evidence, rwIter + 1),
         NEW status \in {"pending", "paused"}, NEW last \in {"escalated", "paused"},
         NEW phase, phase # "finalizing", Complete(status, [kept EXCEPT !.phase = phase], last)
  PROVE  ResearchIInv'
<1> DEFINE prog == [kept EXCEPT !.phase = phase]
<1>1. rwSubs' >= rwSubs /\ rwSubs' \in Nat BY DEF ResearchIInv, WorkerTypeOK
<1>2. /\ ProgressFields(prog) /\ prog.session = kept.session /\ prog.context = kept.context
      /\ prog.feedback = kept.feedback /\ prog.phase = phase /\ prog.evidence = kept.evidence
  BY DEF ProgressFields
<1>3. Complete(status, prog, last) OBVIOUS
<1> HIDE DEF prog
<1>4. Notes(prog, status, last) BY <1>2 DEF Notes, Bare
<1> QED BY <1>1, <1>2, <1>3, <1>4, CompleteInv

LEMMA SubmitInv == ASSUME ResearchIInv, rwStatus = "running", NEW reply \in Replies, Submit(reply) PROVE ResearchIInv'
<1> DEFINE kept == Bookkept(reply)
           blanks == IF reply.blank THEN kept.blanks + 1 ELSE 0
           prog == [kept EXCEPT !.blanks = blanks]
           noted(why) == [prog EXCEPT !.feedback = why]
<1>1. /\ ProgressFields(kept) /\ kept.session = rwProg.session /\ kept.context = rwRun.prog.context
      /\ Bare(kept) /\ kept.phase = "iteration" /\ Ledger(kept.evidence, rwIter + 1)
      /\ rwRun.final /\ rwProg.plan # NoPlan => kept.plan = rwProg.plan
  BY BookkeptProgress
<1>2. rwSubs' = rwSubs + 1 BY DEF Submit
<1>3. rwSubs' >= rwSubs /\ rwSubs' >= rwSubs + 1 /\ rwSubs' \in Nat BY <1>2 DEF ResearchIInv, WorkerTypeOK
<1>4. \/ Complete("pending", noted("blank"), "blank")
      \/ \E last \in {"empty", "accepted"} : Complete("ended", prog, last)
      \/ \E status \in {"ended", "pending"} : Complete(status, noted("rejected"), "rejected")
  BY DEF Submit
<1> HIDE DEF kept, blanks
<1>5. /\ ProgressFields(prog) /\ prog.session = kept.session /\ prog.context = kept.context /\ prog.plan = kept.plan
      /\ prog.phase = kept.phase /\ prog.evidence = kept.evidence
  BY <1>1 DEF ProgressFields
<1> HIDE DEF prog
<1>6. \A why : /\ ProgressFields(noted(why)) /\ noted(why).session = prog.session /\ noted(why).context = prog.context
               /\ noted(why).plan = prog.plan /\ noted(why).phase = prog.phase /\ noted(why).evidence = prog.evidence
               /\ noted(why).feedback = why
  BY <1>5 DEF ProgressFields
<1> HIDE DEF noted
<1>7. CASE Complete("pending", noted("blank"), "blank")
  <2>1. Notes(noted("blank"), "pending", "blank") BY <1>6 DEF Notes
  <2> QED BY <1>1, <1>3, <1>5, <1>6, <1>7, <2>1, CompleteInv
<1>8. ASSUME NEW last \in {"empty", "accepted"}, Complete("ended", prog, last) PROVE ResearchIInv'
  <2>1. Notes(prog, "ended", last) BY DEF Notes
  <2> QED BY <1>1, <1>3, <1>5, <1>8, <2>1, CompleteInv
<1>9. ASSUME NEW status \in {"ended", "pending"}, Complete(status, noted("rejected"), "rejected") PROVE ResearchIInv'
  <2>1. Notes(noted("rejected"), status, "rejected") BY <1>6 DEF Notes
  <2>2. status \in {"pending", "paused", "ended"} /\ status # "paused" BY <1>9
  <2> QED BY <1>1, <1>3, <1>5, <1>6, <1>9, <2>1, <2>2, CompleteInv
<1> QED BY <1>4, <1>7, <1>8, <1>9

LEMMA FinishInv == ASSUME ResearchIInv, FinishIteration PROVE ResearchIInv'
<1>1. rwStatus = "running" BY DEF FinishIteration
<1>2. PICK reply \in Replies : Submit(reply) \/ Escalate(reply) \/ Pause(reply) \/ Continue(reply)
  BY DEF FinishIteration
<1> DEFINE kept == Bookkept(reply)
<1>7. /\ ProgressFields(kept) /\ kept.session = rwProg.session /\ kept.context = rwRun.prog.context
      /\ Bare(kept) /\ kept.phase = "iteration" /\ Ledger(kept.evidence, rwIter + 1)
  BY <1>1, BookkeptProgress
<1>8. rwSubs \in Nat BY DEF ResearchIInv, WorkerTypeOK
<1>3. CASE Submit(reply) BY <1>1, <1>3, SubmitInv
<1>4. CASE Escalate(reply)
  <2>1. ~ rwRun.final /\ rwSubs' = rwSubs /\ Complete("paused", [kept EXCEPT !.phase = "error_loop"], "escalated")
    BY <1>4 DEF Escalate
  <2> HIDE DEF kept
  <2> QED BY <1>1, <1>7, <2>1, GoesOn
<1>5. CASE Pause(reply)
  <2>1. ~ rwRun.final /\ rwSubs' = rwSubs /\ Complete("paused", [kept EXCEPT !.phase = "waiting"], "paused")
    BY <1>5 DEF Pause
  <2> HIDE DEF kept
  <2> QED BY <1>1, <1>7, <2>1, GoesOn
<1>6. CASE Continue(reply)
  <2>1. ~ rwRun.final /\ rwSubs' = rwSubs /\ Complete("pending", kept, "continued") BY <1>6 DEF Continue
  <2>2. rwSubs' >= rwSubs /\ rwSubs' \in Nat BY <1>8, <2>1
  <2> HIDE DEF kept
  <2>3. Notes(kept, "pending", "continued") BY <1>7 DEF Notes, Bare
  <2> QED BY <1>1, <1>7, <2>1, <2>2, <2>3, CompleteInv
<1> QED BY <1>2, <1>3, <1>4, <1>5, <1>6

-----------------------------------------------------------------------------
\* The status alone moves, or the deadline passes.
LEMMA AroundInv == ASSUME ResearchIInv, Wake \/ Exhaust \/ ResearchDeadline \/ UNCHANGED workerVars PROVE ResearchIInv'
<1>1. UNCHANGED <<rwCfg, rwIter, rwProg, rwRun, rwFaults, rwLast, rwSubs, rwFinal, rwSessions, rwReflex>>
  BY DEF Wake, Exhaust, ResearchDeadline, workerVars
<1>2. \/ rwStatus = "paused" /\ rwStatus' = "pending" /\ rwLate' = rwLate
      \/ rwStatus = "pending" /\ rwStatus' = "ended" /\ rwLate' = rwLate
      \/ rwStatus' = rwStatus /\ rwLate' = TRUE
      \/ rwStatus' = rwStatus /\ rwLate' = rwLate
  BY DEF Wake, Exhaust, ResearchDeadline, workerVars
<1>3. WorkerTypeOK' BY <1>1, <1>2 DEF ResearchIInv, WorkerTypeOK
<1>4. SynthesisDeadline => SynthesisDeadline' BY <1>1, <1>2, DeadlineKept
<1>5. RunFollowsRow' BY <1>1, <1>2, <1>4 DEF ResearchIInv, RunFollowsRow, ReserveRepair
<1>6. Spent' BY <1>1, <1>2 DEF ResearchIInv, Spent, ContextOf
<1>7. Ledger(rwProg'.evidence, rwIter') BY <1>1 DEF ResearchIInv
<1>8. FinalIsLate' /\ FinalNeverPauses' BY <1>1, <1>2 DEF ResearchIInv, FinalIsLate, FinalNeverPauses
<1>9. FeedbackFresh' /\ RepairReserved' BY <1>1, <1>2 DEF ResearchIInv, FeedbackFresh, RepairReserved, IsLast
<1>10. FinalizationSticks' BY <1>1, <1>2, <1>4 DEF ResearchIInv, FinalizationSticks, FinalNeverPauses
<1> QED BY <1>3, <1>5, <1>6, <1>7, <1>8, <1>9, <1>10 DEF ResearchIInv

LEMMA ResearchInitInv == WorkerInit => ResearchIInv
<1> SUFFICES ASSUME WorkerInit PROVE ResearchIInv OBVIOUS
<1>1. /\ rwCfg \in WorkerConfigs /\ rwIter = 0 /\ rwStatus = "pending" /\ rwLate = FALSE /\ rwFaults = 0
      /\ rwLast = "none" /\ rwSubs = 0 /\ rwFinal = FALSE /\ rwSessions = 0 /\ rwReflex = 0
  BY DEF WorkerInit
<1>2. ProgressFields(rwProg) /\ rwProg.session = 0 /\ rwProg.context = FALSE /\ rwProg.evidence = <<>>
  BY DEF WorkerInit, ProgressFields
<1>9. rwProg.phase = "" /\ Bare(rwProg) BY DEF WorkerInit, Bare
<1>3. WorkerTypeOK
  <2>1. rwProg.context \in BOOLEAN BY <1>2
  <2>2. rwLate \in BOOLEAN /\ rwFinal \in BOOLEAN BY <1>1
  <2> QED BY <1>1, <1>2, <2>1, <2>2 DEF WorkerTypeOK
<1>4. RunFollowsRow BY <1>1 DEF RunFollowsRow
<1>8. Spent
  <2>1. ~ ContextOf BY <1>1, <1>2 DEF ContextOf
  <2> QED BY <1>1, <1>2, <2>1 DEF Spent
<1>5. Ledger(<<>>, 0) BY WorkerConstants DEF Ledger
<1>6. FinalIsLate /\ FinalNeverPauses /\ FeedbackFresh /\ FinalizationSticks
  BY <1>1, <1>9 DEF Bare, FinalIsLate, FinalNeverPauses, FeedbackFresh, FinalizationSticks
<1>7. RepairReserved BY <1>1, <1>3, ConfigType DEF RepairReserved, IsLast
<1> QED BY <1>1, <1>2, <1>3, <1>4, <1>5, <1>6, <1>7, <1>8 DEF ResearchIInv

LEMMA ResearchInductive == ResearchIInv /\ [WorkerNext]_workerVars => ResearchIInv'
<1> SUFFICES ASSUME ResearchIInv, [WorkerNext]_workerVars PROVE ResearchIInv' OBVIOUS
<1> QED BY StartInv, PrepareInv, CheckpointInv, LoseInv, SoftDeadlineInv, FinishInv, AroundInv
        DEF WorkerNext, WorkerEnded

\* What an iteration of the background handler finds and leaves (Background.Run):
\* the feedback of the submission just before it and no other, an iteration kept for
\* the repair of a gated task, a finalization that is never left again, one session
\* and one reflex run unless an iteration was lost, and a bounded ledger without a
\* claim twice, for every set of tasks, plans, patches and claims and every cap.
THEOREM ResearchIsSound == WorkerSpec => []ResearchSound
<1>1. ResearchIInv => ResearchSound
  <2> SUFFICES ASSUME ResearchIInv PROVE ResearchSound OBVIOUS
  <2>1. SessionAndContextKept BY DEF ResearchIInv, WorkerTypeOK, Spent, SessionAndContextKept
  <2>2. EvidenceIsHistory BY DEF ResearchIInv, Ledger, EvidenceIsHistory
  <2> QED BY <2>1, <2>2 DEF ResearchIInv, ResearchSound
<1> QED BY <1>1, ResearchInitInv, ResearchInductive, PTL DEF WorkerSpec

-----------------------------------------------------------------------------
(* Sets of natural numbers: least counterexamples stand for induction         *)

LEMMA MinIsLeast == ASSUME NEW S \in SUBSET Nat, S # {} PROVE Min(S) \in S /\ \A y \in S : Min(S) <= y
BY LeastExists DEF Min

-----------------------------------------------------------------------------
(* The role plan                                                              *)

LEMMA PlanFields ==
  ASSUME NEW p \in RolePlan
  PROVE  /\ p.steps \in Seq(RoleStep) /\ p.cur \in Nat /\ DOMAIN p = {"steps", "cur"}
         /\ Len(p.steps) \in Nat /\ DOMAIN p.steps = 1..Len(p.steps)
         /\ \A k \in DOMAIN p.steps : p.steps[k] \in RoleStep /\ p.steps[k].id \in Nat /\ p.steps[k].done \in BOOLEAN
<1>1. p.steps \in Seq(RoleStep) /\ p.cur \in Nat /\ DOMAIN p = {"steps", "cur"} BY DEF RolePlan
<1>2. Len(p.steps) \in Nat /\ DOMAIN p.steps = 1..Len(p.steps) /\ \A k \in DOMAIN p.steps : p.steps[k] \in RoleStep
  BY <1>1
<1>3. \A t \in RoleStep : t.id \in Nat /\ t.done \in BOOLEAN BY DEF RoleStep
<1> QED BY <1>1, <1>2, <1>3

\* step finds the first step that carries the id, or none.
LEMMA StepAtFacts ==
  ASSUME NEW p \in RolePlan, NEW id
  PROVE  \/ StepAt(p, id) = 0 /\ \A k \in DOMAIN p.steps : p.steps[k].id # id
         \/ StepAt(p, id) \in DOMAIN p.steps /\ p.steps[StepAt(p, id)].id = id
<1> DEFINE I == {k \in 1..Len(p.steps) : p.steps[k].id = id}
<1>1. Len(p.steps) \in Nat /\ DOMAIN p.steps = 1..Len(p.steps) BY PlanFields
<1>2. StepAt(p, id) = IF I # {} THEN Min(I) ELSE 0 BY DEF StepAt, SelectInSeq
<1>3. I \in SUBSET Nat BY <1>1
<1>4. I # {} => Min(I) \in I BY <1>3, MinIsLeast
<1> QED BY <1>1, <1>2, <1>4

\* A current step is the id of a step that is not finished.
LEMMA CurrentIsPending ==
  ASSUME NEW p \in RolePlan, CurrentStep(p) # 0
  PROVE  \E k \in DOMAIN p.steps : p.steps[k].id = CurrentStep(p) /\ ~ p.steps[k].done
<1> DEFINE N == {k \in 1..Len(p.steps) : p.steps[k].id = p.cur /\ ~ p.steps[k].done}
           F == {k \in 1..Len(p.steps) : ~ p.steps[k].done}
           named == IF N # {} THEN Min(N) ELSE 0
           first == IF F # {} THEN Min(F) ELSE 0
<1>1. Len(p.steps) \in Nat /\ DOMAIN p.steps = 1..Len(p.steps) BY PlanFields
<1>2. N \in SUBSET Nat /\ F \in SUBSET Nat BY <1>1
<1>3. (N # {} => Min(N) \in N) /\ (F # {} => Min(F) \in F) BY <1>2, MinIsLeast
<1>4. CurrentStep(p) = IF p.cur # 0 /\ named # 0 THEN p.steps[named].id
                       ELSE IF first # 0 THEN p.steps[first].id ELSE 0
  BY DEF CurrentStep, SelectInSeq
<1>5. named # 0 => named \in N BY <1>3
<1>6. first # 0 => first \in F BY <1>3
<1> HIDE DEF named, first
<1> QED BY <1>1, <1>4, <1>5, <1>6

\* A current step is a natural number, none is 0.
LEMMA CurrentIsId == ASSUME NEW p \in RolePlan PROVE CurrentStep(p) \in Nat
BY CurrentIsPending, PlanFields

LEMMA AdvanceKeeps == ASSUME NEW p \in RolePlan PROVE Advance(p) \in RolePlan /\ Advance(p).steps = p.steps
<1>1. CurrentStep(p) \in Nat BY CurrentIsId
<1> QED BY <1>1 DEF Advance, RolePlan

Marked(p) == {i \in DOMAIN p.steps : p.steps[i].done}

LEMMA MarkedFinite == ASSUME NEW p \in RolePlan PROVE IsFiniteSet(Marked(p))
<1>1. IsFiniteSet(DOMAIN p.steps) BY PlanFields, FS_Interval
<1> QED BY <1>1, FS_Subset DEF Marked

\* The first step that carries the id is finished, the others stay.
LEMMA CompleteMarks ==
  ASSUME NEW p \in RolePlan, CurrentStep(p) # 0
  PROVE  LET q == CompleteStep(p, CurrentStep(p)) IN
         /\ q \in RolePlan /\ Marked(q) # {}
         /\ \A i \in DOMAIN p.steps : p.steps[i].done => i \in DOMAIN q.steps /\ q.steps[i] = p.steps[i]
         /\ IdsDistinct(p) => IdsDistinct(q) /\ Cardinality(Marked(q)) = Cardinality(Marked(p)) + 1
<1> DEFINE id == CurrentStep(p)
           at == StepAt(p, id)
           done == [p EXCEPT !.steps[at].done = TRUE]
           q == Advance(done)
<1>1. PICK k \in DOMAIN p.steps : p.steps[k].id = id /\ ~ p.steps[k].done BY CurrentIsPending
<1>2. at \in DOMAIN p.steps /\ p.steps[at].id = id BY <1>1, StepAtFacts
<1>3. at # 0 BY <1>2, PlanFields
<1>4. CompleteStep(p, id) = q BY <1>3 DEF CompleteStep
<1> HIDE DEF at, id
<1> DEFINE new == [p.steps[at] EXCEPT !.done = TRUE]
           steps == [p.steps EXCEPT ![at] = new]
<1>5. new \in RoleStep /\ new.done /\ new.id = p.steps[at].id /\ (p.steps[at].done => new = p.steps[at])
  <2>1. p.steps[at] \in RoleStep BY <1>2, PlanFields
  <2> QED BY <2>1 DEF RoleStep
<1>6. done = [p EXCEPT !.steps = steps] OBVIOUS
<1> HIDE DEF new
<1>7. steps \in Seq(RoleStep) /\ Len(steps) = Len(p.steps) /\ DOMAIN steps = DOMAIN p.steps
  BY <1>2, <1>5, PlanFields
<1>8. steps[at] = new /\ \A i \in DOMAIN p.steps : i # at => steps[i] = p.steps[i] BY <1>2, PlanFields
<1> HIDE DEF steps
<1>9. done \in RolePlan /\ done.steps = steps BY <1>6, <1>7 DEF RolePlan
<1> HIDE DEF done
<1>10. q \in RolePlan /\ q.steps = steps BY <1>9, AdvanceKeeps
<1> HIDE DEF q
<1>11. at \in Marked(q) BY <1>2, <1>5, <1>7, <1>8, <1>10 DEF Marked
<1>12. \A i \in DOMAIN p.steps : p.steps[i].done => i \in DOMAIN q.steps /\ q.steps[i] = p.steps[i]
  BY <1>5, <1>7, <1>8, <1>10
<1>13. ASSUME IdsDistinct(p) PROVE IdsDistinct(q) /\ Cardinality(Marked(q)) = Cardinality(Marked(p)) + 1
  <2>1. k = at BY <1>1, <1>2, <1>13 DEF IdsDistinct
  <2>2. at \notin Marked(p) BY <1>1, <2>1 DEF Marked
  <2>3. Marked(q) = Marked(p) \cup {at} BY <1>2, <1>5, <1>7, <1>8, <1>10 DEF Marked
  <2>4. Cardinality(Marked(q)) = Cardinality(Marked(p)) + 1 BY <2>2, <2>3, MarkedFinite, FS_AddElement
  <2>5. \A i \in DOMAIN p.steps : q.steps[i].id = p.steps[i].id BY <1>5, <1>8, <1>10
  <2> QED BY <1>7, <1>10, <1>13, <2>4, <2>5 DEF IdsDistinct
<1> QED BY <1>4, <1>10, <1>11, <1>12, <1>13 DEF id

\* Finitely many natural numbers have a bound.
LEMMA BoundExists == ASSUME NEW n \in Nat, NEW g \in [1..n -> Nat] PROVE \E b \in Nat : \A k \in 1..n : g[k] <= b
<1> DEFINE Bounded(m) == \E b \in Nat : \A k \in 1..m : g[k] <= b
           Unbounded == {m \in 0..n : ~ Bounded(m)}
<1>1. \A k \in 1..n : g[k] \in Nat OBVIOUS
<1>2. Bounded(0) OBVIOUS
<1>3. ASSUME NEW m \in 1..n, Bounded(m - 1) PROVE Bounded(m)
  <2>1. PICK b \in Nat : \A k \in 1..(m - 1) : g[k] <= b BY <1>3
  <2>2. m \in Nat /\ g[m] \in Nat /\ \A k \in 1..m : k = m \/ k \in 1..(m - 1) BY <1>1
  <2>3. CASE g[m] <= b BY <2>1, <2>2, <2>3
  <2>4. CASE b <= g[m]
    <3>1. \A k \in 1..(m - 1) : g[k] \in Nat BY <1>1
    <3>2. \A k \in 1..(m - 1) : g[k] <= g[m] BY <2>1, <2>2, <2>4, <3>1
    <3>3. \A k \in 1..m : g[k] <= g[m] BY <2>2, <3>2
    <3> QED BY <2>2, <3>3
  <2> QED BY <2>2, <2>3, <2>4
<1> HIDE DEF Bounded
<1>4. Unbounded \in SUBSET Nat OBVIOUS
<1>5. ASSUME NEW m \in Unbounded, \A y \in Unbounded : m <= y PROVE FALSE
  <2>1. m \in 1..n /\ m \in Nat /\ m - 1 \in 0..n /\ ~ (m <= m - 1) BY <1>2
  <2>2. m - 1 \notin Unbounded
    <3> HIDE DEF Unbounded
    <3> QED BY <1>5, <2>1
  <2> QED BY <1>3, <2>1, <2>2
<1>6. Unbounded = {}
  <2> HIDE DEF Unbounded
  <2> QED BY <1>4, <1>5, LeastExists
<1>7. n \in 0..n OBVIOUS
<1> QED BY <1>6, <1>7 DEF Bounded

\* nextStepID is an id no step carries.
LEMMA NextIdFresh ==
  ASSUME NEW p \in RolePlan
  PROVE  NextStepId(p) \in Nat /\ \A k \in DOMAIN p.steps : p.steps[k].id # NextStepId(p)
<1> DEFINE n == Len(p.steps)
           g == [k \in 1..n |-> p.steps[k].id]
           ids == {p.steps[k].id : k \in DOMAIN p.steps} \cup {0}
           max == CHOOSE x \in ids : \A m \in ids : m <= x
<1>1. n \in Nat /\ DOMAIN p.steps = 1..n /\ \A k \in 1..n : p.steps[k].id \in Nat BY PlanFields
<1>2. PICK b \in Nat : \A k \in 1..n : p.steps[k].id <= b
  <2>1. g \in [1..n -> Nat] BY <1>1
  <2>2. PICK b \in Nat : \A k \in 1..n : g[k] <= b
    <3> HIDE DEF g
    <3> QED BY <1>1, <2>1, BoundExists
  <2> QED BY <2>2
<1>3. ids \in SUBSET Nat /\ ids # {} /\ \A x \in ids : x <= b BY <1>1, <1>2
<1>4. \A k \in DOMAIN p.steps : p.steps[k].id \in ids OBVIOUS
<1>5. NextStepId(p) = 1 + max BY DEF NextStepId
<1> HIDE DEF ids
<1>6. max \in ids /\ \A m \in ids : m <= max BY <1>3, GreatestExists
<1> HIDE DEF max
<1>7. max \in Nat BY <1>3, <1>6
<1> QED BY <1>3, <1>4, <1>5, <1>6, <1>7

\* The steps that are finished in p are in q, as they were, each in a place of
\* its own.
Carries(p, q) ==
  \E f \in [Marked(p) -> Marked(q)] :
    /\ \A i, j \in Marked(p) : f[i] = f[j] => i = j
    /\ \A i \in Marked(p) : q.steps[f[i]] = p.steps[i]

\* What a patch may do to a plan.
Patched(p, q) == q \in RolePlan /\ Carries(p, q) /\ (IdsDistinct(p) => IdsDistinct(q))

LEMMA SamePatched == ASSUME NEW p \in RolePlan PROVE Patched(p, p)
<1> DEFINE f == [i \in Marked(p) |-> i]
<1>1. f \in [Marked(p) -> Marked(p)] /\ \A i \in Marked(p) : f[i] = i OBVIOUS
<1> HIDE DEF f
<1>2. Carries(p, p) BY <1>1 DEF Carries
<1> QED BY <1>2 DEF Patched

LEMMA CarriedCount ==
  ASSUME NEW p \in RolePlan, NEW q \in RolePlan, Carries(p, q)
  PROVE  Cardinality(Marked(p)) <= Cardinality(Marked(q))
<1>1. PICK f \in [Marked(p) -> Marked(q)] : \A i, j \in Marked(p) : f[i] = f[j] => i = j BY DEF Carries
<1>2. f \in Injection(Marked(p), Marked(q)) BY <1>1 DEF Injection, IsInjective
<1> QED BY <1>2, MarkedFinite, FS_Injection

\* A fresh step after the first k is in nobody's way.
LEMMA InsertedPatched ==
  ASSUME NEW p \in RolePlan, NEW q \in RolePlan, NEW k \in 0..Len(p.steps), NEW s \in RoleStep, ~ s.done,
         \A i \in DOMAIN p.steps : p.steps[i].id # s.id,
         Len(q.steps) = Len(p.steps) + 1, q.steps[k + 1] = s,
         \A i \in 1..k : q.steps[i] = p.steps[i],
         \A i \in k + 1 .. Len(p.steps) : q.steps[i + 1] = p.steps[i]
  PROVE  Patched(p, q)
<1> DEFINE n == Len(p.steps)
           new(i) == IF i <= k THEN i ELSE i + 1
           old(i) == IF i <= k THEN i ELSE i - 1
           f == [i \in Marked(p) |-> new(i)]
<1>1. n \in Nat /\ k \in Nat /\ k <= n /\ DOMAIN p.steps = 1..n /\ DOMAIN q.steps = 1..(n + 1) BY PlanFields
<1>2. \A i \in 1..n : new(i) \in 1..(n + 1) /\ q.steps[new(i)] = p.steps[i]
  <2> SUFFICES ASSUME NEW i \in 1..n PROVE new(i) \in 1..(n + 1) /\ q.steps[new(i)] = p.steps[i] OBVIOUS
  <2>1. CASE i <= k BY <1>1, <2>1
  <2>2. CASE ~ (i <= k)
    <3>1. i \in k + 1 .. n /\ new(i) = i + 1 /\ i + 1 \in 1..(n + 1) BY <1>1, <2>2
    <3> QED BY <3>1
  <2> QED BY <2>1, <2>2
<1>3. \A i, j \in 1..n : new(i) = new(j) => i = j BY <1>1
<1>4. \A i \in 1..(n + 1) : i # k + 1 => old(i) \in 1..n /\ new(old(i)) = i BY <1>1
<1> HIDE DEF new, old, n
<1>5. Carries(p, q)
  <2>1. \A i \in Marked(p) : i \in 1..n /\ f[i] = new(i) /\ new(i) \in Marked(q) BY <1>1, <1>2 DEF Marked
  <2>2. f \in [Marked(p) -> Marked(q)] BY <2>1
  <2> HIDE DEF f
  <2> QED BY <1>2, <1>3, <2>1, <2>2 DEF Carries
<1>6. ASSUME IdsDistinct(p) PROVE IdsDistinct(q)
  <2>1. \A i \in 1..(n + 1) : i # k + 1 => old(i) \in 1..n /\ q.steps[i] = p.steps[old(i)] BY <1>2, <1>4
  <2> SUFFICES ASSUME NEW i \in 1..(n + 1), NEW j \in 1..(n + 1), q.steps[i].id = q.steps[j].id PROVE i = j
    BY <1>1 DEF IdsDistinct
  <2>2. CASE i = k + 1 /\ j = k + 1 BY <2>2
  <2>3. CASE i = k + 1 /\ j # k + 1 BY <1>1, <2>1, <2>3
  <2>4. CASE i # k + 1 /\ j = k + 1 BY <1>1, <2>1, <2>4
  <2>5. CASE i # k + 1 /\ j # k + 1
    <3>0. old(i) \in DOMAIN p.steps /\ old(j) \in DOMAIN p.steps /\ p.steps[old(i)].id = p.steps[old(j)].id
      BY <1>1, <2>1, <2>5
    <3>1. old(i) = old(j) BY <1>6, <3>0, Zenon DEF IdsDistinct
    <3> QED BY <1>4, <2>5, <3>1
  <2> QED BY <2>2, <2>3, <2>4, <2>5
<1> QED BY <1>5, <1>6 DEF Patched

\* A step that is not finished may go.
LEMMA RemovedPatched ==
  ASSUME NEW p \in RolePlan, NEW q \in RolePlan, NEW k \in DOMAIN p.steps, ~ p.steps[k].done,
         Len(q.steps) = Len(p.steps) - 1,
         \A i \in 1 .. k - 1 : q.steps[i] = p.steps[i],
         \A i \in k .. Len(p.steps) - 1 : q.steps[i] = p.steps[i + 1]
  PROVE  Patched(p, q)
<1> DEFINE n == Len(p.steps)
           new(i) == IF i < k THEN i ELSE i - 1
           old(i) == IF i < k THEN i ELSE i + 1
           f == [i \in Marked(p) |-> new(i)]
<1>1. n \in Nat /\ k \in Nat /\ 1 <= k /\ k <= n /\ DOMAIN p.steps = 1..n /\ DOMAIN q.steps = 1..(n - 1) BY PlanFields
<1>2. \A i \in 1..(n - 1) : old(i) \in 1..n /\ q.steps[i] = p.steps[old(i)] /\ new(old(i)) = i
  <2> SUFFICES ASSUME NEW i \in 1..(n - 1) PROVE old(i) \in 1..n /\ q.steps[i] = p.steps[old(i)] /\ new(old(i)) = i OBVIOUS
  <2>1. CASE i < k
    <3>1. i \in 1 .. k - 1 /\ old(i) = i /\ i \in 1..n /\ new(i) = i BY <1>1, <2>1
    <3> QED BY <3>1
  <2>2. CASE ~ (i < k)
    <3>1. i \in k .. n - 1 /\ old(i) = i + 1 /\ i + 1 \in 1..n /\ new(i + 1) = i BY <1>1, <2>2
    <3> QED BY <3>1
  <2> QED BY <2>1, <2>2
<1>3. \A i \in 1..n : i # k => new(i) \in 1..(n - 1) /\ old(new(i)) = i BY <1>1
<1> HIDE DEF new, old, n
<1>4. Carries(p, q)
  <2>1. \A i \in Marked(p) : i \in 1..n /\ i # k /\ f[i] = new(i) /\ new(i) \in 1..(n - 1) /\ q.steps[new(i)] = p.steps[i]
    BY <1>1, <1>2, <1>3 DEF Marked
  <2>2. \A i \in Marked(p) : new(i) \in Marked(q) BY <1>1, <2>1 DEF Marked
  <2>3. f \in [Marked(p) -> Marked(q)] BY <2>2
  <2> HIDE DEF f
  <2>4. \A i, j \in Marked(p) : f[i] = f[j] => i = j BY <1>3, <2>1
  <2> QED BY <2>1, <2>3, <2>4 DEF Carries
<1>5. ASSUME IdsDistinct(p) PROVE IdsDistinct(q)
  <2> SUFFICES ASSUME NEW i \in 1..(n - 1), NEW j \in 1..(n - 1), q.steps[i].id = q.steps[j].id PROVE i = j
    BY <1>1 DEF IdsDistinct
  <2>0. old(i) \in DOMAIN p.steps /\ old(j) \in DOMAIN p.steps /\ p.steps[old(i)].id = p.steps[old(j)].id BY <1>1, <1>2
  <2>1. old(i) = old(j) BY <1>5, <2>0, Zenon DEF IdsDistinct
  <2> QED BY <1>2, <2>1
<1> QED BY <1>4, <1>5 DEF Patched

\* c is a followed by b.
Joined(a, b, c) ==
  /\ c \in Seq(RoleStep) /\ Len(c) = Len(a) + Len(b) /\ Len(a) \in Nat /\ Len(b) \in Nat
  /\ \A i \in 1..Len(a) : c[i] = a[i]
  /\ \A i \in 1..Len(b) : c[Len(a) + i] = b[i]

LEMMA ConcatFacts ==
  ASSUME NEW a \in Seq(RoleStep), NEW b \in Seq(RoleStep), NEW c, c = a \o b
  PROVE  Joined(a, b, c)
<1>1. c \in Seq(RoleStep) /\ Len(c) = Len(a) + Len(b) /\ Len(a) \in Nat /\ Len(b) \in Nat OBVIOUS
<1>2. \A i \in 1..Len(a) : c[i] = a[i] OBVIOUS
<1>3. \A i \in 1..Len(b) : c[Len(a) + i] = b[i] OBVIOUS
<1> QED BY <1>1, <1>2, <1>3 DEF Joined

\* t is s with e put behind position k.
InsertedBehind(s, k, e, t) ==
  /\ t \in Seq(RoleStep) /\ Len(t) = Len(s) + 1 /\ t[k + 1] = e
  /\ \A i \in 1..k : t[i] = s[i]
  /\ \A i \in k + 1 .. Len(s) : t[i + 1] = s[i]

LEMMA ShiftedIndex ==
  ASSUME NEW n \in Nat, NEW j \in Nat, NEW i \in j..n, 1 <= j
  PROVE  i \in Nat /\ i - j + 1 \in 1..(n - j + 1) /\ (i - j + 1) + j - 1 = i /\ j + (i - j + 1) = i + 1
OBVIOUS

LEMMA InsertAtFacts ==
  ASSUME NEW s \in Seq(RoleStep), NEW k \in DOMAIN s, NEW j, j = k + 1,
         NEW e \in RoleStep, NEW t, t = InsertAt(s, j, e)
  PROVE  InsertedBehind(s, k, e, t)
<1> DEFINE a == SubSeq(s, 1, j - 1)
           b == SubSeq(s, j, Len(s))
           c == a \o <<e>>
<1>1. Len(s) \in Nat /\ j \in Nat /\ 1 <= j /\ j <= Len(s) + 1 OBVIOUS
<1>2. a \in Seq(RoleStep) /\ Len(a) = j - 1 /\ \A i \in 1..(j - 1) : a[i] = s[i] BY <1>1
<1>3. b \in Seq(RoleStep) /\ Len(b) = Len(s) - j + 1 /\ \A i \in 1..(Len(s) - j + 1) : b[i] = s[i + j - 1] BY <1>1
<1>4. t = c \o b BY DEF InsertAt
<1> HIDE DEF a, b
<1>5. c \in Seq(RoleStep) /\ Len(c) = j /\ c[j] = e /\ \A i \in 1..(j - 1) : c[i] = s[i]
  <2>1. <<e>> \in Seq(RoleStep) /\ Len(<<e>>) = 1 /\ <<e>>[1] = e OBVIOUS
  <2>2. /\ c \in Seq(RoleStep) /\ Len(c) = Len(a) + 1
        /\ \A i \in 1..Len(a) : c[i] = a[i]
        /\ \A i \in 1..1 : c[Len(a) + i] = <<e>>[i]
    <3>1. a \in Seq(RoleStep) BY <1>2
    <3> HIDE DEF c
    <3>2. c = a \o <<e>> BY DEF c
    <3>3. <<e>> \in Seq(RoleStep) BY <2>1
    <3>4. Joined(a, <<e>>, c) BY <3>1, <3>2, <3>3, ConcatFacts, Zenon
    <3> QED BY <2>1, <3>4 DEF Joined
  <2> HIDE DEF c
  <2>3. Len(a) + 1 = j BY <1>1, <1>2
  <2>4. c[j] = e
    <3>1. c[Len(a) + 1] = <<e>>[1] BY <2>2
    <3> QED BY <2>1, <2>3, <3>1
  <2> QED BY <1>2, <2>2, <2>3, <2>4
<1> HIDE DEF c
<1>6. /\ t \in Seq(RoleStep) /\ Len(t) = Len(c) + Len(b)
      /\ \A i \in 1..Len(c) : t[i] = c[i]
      /\ \A i \in 1..Len(b) : t[Len(c) + i] = b[i]
  <2>1. c \in Seq(RoleStep) /\ b \in Seq(RoleStep) BY <1>3, <1>5
  <2>2. Joined(c, b, t) BY <1>4, <2>1, ConcatFacts, Zenon
  <2> QED BY <2>2, Zenon DEF Joined
<1>7. Len(t) = Len(s) + 1 BY <1>1, <1>3, <1>5, <1>6
<1>8. \A i \in j..Len(s) : t[i + 1] = s[i]
  <2> SUFFICES ASSUME NEW i \in j..Len(s) PROVE t[i + 1] = s[i] OBVIOUS
  <2>1. i \in Nat /\ i - j + 1 \in 1..(Len(s) - j + 1) /\ (i - j + 1) + j - 1 = i /\ j + (i - j + 1) = i + 1
    <3>1. Len(s) \in Nat /\ j \in Nat /\ 1 <= j BY <1>1
    <3> QED BY <3>1, ShiftedIndex, SMTT(30)
  <2>2. t[j + (i - j + 1)] = b[i - j + 1] /\ b[i - j + 1] = s[(i - j + 1) + j - 1] BY <1>3, <1>5, <1>6, <2>1
  <2> QED BY <2>1, <2>2
<1>9. t[j] = e /\ \A i \in 1..(j - 1) : t[i] = s[i]
  <2>1. j \in 1..j /\ \A i \in 1..(j - 1) : i \in 1..j BY <1>1
  <2> QED BY <1>5, <1>6, <2>1
<1>10. j - 1 = k BY <1>1
<1>11. /\ t[k + 1] = e
       /\ \A i \in 1..k : t[i] = s[i]
       /\ \A i \in k + 1 .. Len(s) : t[i + 1] = s[i]
  BY <1>8, <1>9, <1>10
<1> QED BY <1>6, <1>7, <1>11 DEF InsertedBehind

LEMMA RemoveAtFacts ==
  ASSUME NEW s \in Seq(RoleStep), NEW k \in 1..Len(s), NEW t, t = RemoveAt(s, k)
  PROVE  /\ t \in Seq(RoleStep) /\ Len(t) = Len(s) - 1
         /\ \A i \in 1..(k - 1) : t[i] = s[i]
         /\ \A i \in k..(Len(s) - 1) : t[i] = s[i + 1]
<1> DEFINE a == SubSeq(s, 1, k - 1)
           b == SubSeq(s, k + 1, Len(s))
<1>1. Len(s) \in Nat /\ k \in Nat /\ 1 <= k /\ k <= Len(s) OBVIOUS
<1>2. a \in Seq(RoleStep) /\ Len(a) = k - 1 /\ \A i \in 1..(k - 1) : a[i] = s[i] BY <1>1
<1>3. b \in Seq(RoleStep) /\ Len(b) = Len(s) - k /\ \A i \in 1..(Len(s) - k) : b[i] = s[i + k] BY <1>1
<1>4. t = a \o b BY DEF RemoveAt
<1> HIDE DEF a, b
<1>5. /\ t \in Seq(RoleStep) /\ Len(t) = Len(a) + Len(b)
      /\ \A i \in 1..Len(a) : t[i] = a[i]
      /\ \A i \in 1..Len(b) : t[Len(a) + i] = b[i]
  <2>1. a \in Seq(RoleStep) /\ b \in Seq(RoleStep) BY <1>2, <1>3
  <2>2. Joined(a, b, t) BY <1>4, <2>1, ConcatFacts, Zenon
  <2> QED BY <2>2, Zenon DEF Joined
<1>6. Len(t) = Len(s) - 1 BY <1>1, <1>2, <1>3, <1>5
<1>7. \A i \in 1..(k - 1) : t[i] = s[i] BY <1>2, <1>5
<1>8. \A i \in k..(Len(s) - 1) : t[i] = s[i + 1]
  <2> SUFFICES ASSUME NEW i \in k..(Len(s) - 1) PROVE t[i] = s[i + 1] OBVIOUS
  <2>1. i \in Nat /\ i - k + 1 \in 1..(Len(s) - k) /\ (i - k + 1) + k = i + 1 /\ (k - 1) + (i - k + 1) = i BY <1>1
  <2>2. t[(k - 1) + (i - k + 1)] = b[i - k + 1] /\ b[i - k + 1] = s[(i - k + 1) + k] BY <1>2, <1>3, <1>5, <2>1
  <2> QED BY <2>1, <2>2
<1> QED BY <1>5, <1>6, <1>7, <1>8

\* insertAfter puts the step behind its anchor, or at the end.
LEMMA InsertAfterPatched ==
  ASSUME NEW p \in RolePlan, NEW after, NEW s \in RoleStep, ~ s.done, \A i \in DOMAIN p.steps : p.steps[i].id # s.id
  PROVE  Patched(p, InsertAfter(p, after, s))
<1> DEFINE i == StepAt(p, after)
           end == after = 0 \/ i = 0
           t == IF end THEN Append(p.steps, s) ELSE InsertAt(p.steps, i + 1, s)
           q == [p EXCEPT !.steps = t]
<1>1. p.steps \in Seq(RoleStep) /\ Len(p.steps) \in Nat /\ DOMAIN p.steps = 1..Len(p.steps) BY PlanFields
<1>2. InsertAfter(p, after, s) = q BY DEF InsertAfter
<1>3. \E k \in 0..Len(p.steps) :
        /\ t \in Seq(RoleStep) /\ Len(t) = Len(p.steps) + 1 /\ t[k + 1] = s
        /\ \A j \in 1..k : t[j] = p.steps[j]
        /\ \A j \in k + 1 .. Len(p.steps) : t[j + 1] = p.steps[j]
  <2>1. CASE end
    <3> DEFINE k == Len(p.steps)
    <3>1. t = Append(p.steps, s) BY <2>1
    <3> HIDE DEF t
    <3>2. t \in Seq(RoleStep) /\ Len(t) = k + 1 /\ t[k + 1] = s /\ \A j \in 1..k : t[j] = p.steps[j] BY <1>1, <3>1
    <3>3. \A j \in k + 1 .. k : t[j + 1] = p.steps[j] BY <1>1
    <3>4. k \in 0..Len(p.steps) BY <1>1
    <3> QED BY <3>2, <3>3, <3>4
  <2>2. CASE ~ end
    <3>1. i \in DOMAIN p.steps BY <2>2, StepAtFacts
    <3>2. i \in 0..Len(p.steps) BY <1>1, <3>1
    <3> DEFINE j == i + 1
    <3>3. t = InsertAt(p.steps, j, s) BY <2>2
    <3>4. j = i + 1 OBVIOUS
    <3> HIDE DEF t, i, j
    <3>5. p.steps \in Seq(RoleStep) BY <1>1
    <3>6. InsertedBehind(p.steps, i, s, t) BY <3>1, <3>3, <3>4, <3>5, InsertAtFacts
    <3> QED BY <3>2, <3>6, Zenon DEF InsertedBehind
  <2> QED BY <2>1, <2>2
<1> HIDE DEF t
<1>4. q \in RolePlan /\ q.steps = t BY <1>3 DEF RolePlan
<1> HIDE DEF q
<1>5. PICK k \in 0..Len(p.steps) :
        /\ Len(q.steps) = Len(p.steps) + 1 /\ q.steps[k + 1] = s
        /\ \A j \in 1..k : q.steps[j] = p.steps[j]
        /\ \A j \in k + 1 .. Len(p.steps) : q.steps[j + 1] = p.steps[j]
  BY <1>3, <1>4, Zenon
<1>6. Patched(p, q) BY <1>4, <1>5, InsertedPatched
<1> QED BY <1>2, <1>6

LEMMA RemoveStepPatched ==
  ASSUME NEW p \in RolePlan, NEW id, IsPendingStep(p, id)
  PROVE  Patched(p, RemoveStep(p, id))
<1> DEFINE k == StepAt(p, id)
           t == RemoveAt(p.steps, k)
           q == [p EXCEPT !.steps = t]
<1>1. p.steps \in Seq(RoleStep) /\ Len(p.steps) \in Nat /\ DOMAIN p.steps = 1..Len(p.steps) BY PlanFields
<1>2. k \in DOMAIN p.steps /\ ~ p.steps[k].done BY StepAtFacts DEF IsPendingStep
<1>3. RemoveStep(p, id) = q BY DEF RemoveStep
<1> HIDE DEF k
<1>4. /\ t \in Seq(RoleStep) /\ Len(t) = Len(p.steps) - 1
      /\ \A i \in 1 .. k - 1 : t[i] = p.steps[i]
      /\ \A i \in k .. Len(p.steps) - 1 : t[i] = p.steps[i + 1]
  <2>1. k \in 1..Len(p.steps) /\ t = RemoveAt(p.steps, k) BY <1>1, <1>2
  <2> HIDE DEF t
  <2>2. p.steps \in Seq(RoleStep) BY <1>1
  <2> QED BY <2>1, <2>2, RemoveAtFacts
<1> HIDE DEF t
<1>5. q \in RolePlan /\ q.steps = t BY <1>4 DEF RolePlan
<1> HIDE DEF q
<1>6. Patched(p, q) BY <1>2, <1>4, <1>5, RemovedPatched
<1> QED BY <1>3, <1>6

\* One operation of a patch.
LEMMA OpPatched ==
  ASSUME NEW p \in RolePlan, NEW o \in PatchOps, NEW remaining
  PROVE  LET out == ApplyOp([plan |-> p, applied |-> FALSE], o, remaining)
         IN  Patched(p, out.plan) /\ out.applied \in BOOLEAN
<1> DEFINE acc == [plan |-> p, applied |-> FALSE]
           fresh == [id |-> IF o.id = 0 \/ StepAt(p, o.id) # 0 THEN NextStepId(p) ELSE o.id, done |-> FALSE]
           took(q) == [plan |-> q, applied |-> TRUE]
           adds == o.op = "add" /\ PendingCount(p) < remaining /\ o.known
           removes == o.op = "remove" /\ IsPendingStep(p, o.id)
           updates == o.op = "update" /\ IsPendingStep(p, o.id)
           out == ApplyOp(acc, o, remaining)
<1>1. /\ adds => out = took(InsertAfter(p, o.after, fresh))
      /\ removes => out = took(RemoveStep(p, o.id))
      /\ updates => out = took(p)
      /\ ~ adds /\ ~ removes /\ ~ updates => out = acc
  BY DEF ApplyOp
<1>2. adds => fresh \in RoleStep /\ ~ fresh.done /\ \A i \in DOMAIN p.steps : p.steps[i].id # fresh.id
  <2> SUFFICES ASSUME adds PROVE fresh \in RoleStep /\ ~ fresh.done /\ \A i \in DOMAIN p.steps : p.steps[i].id # fresh.id
    OBVIOUS
  <2>1. o.id \in Nat BY WorkerConstants
  <2>2. CASE o.id = 0 \/ StepAt(p, o.id) # 0 BY <2>2, NextIdFresh DEF RoleStep
  <2>3. CASE ~ (o.id = 0 \/ StepAt(p, o.id) # 0)
    <3>1. \A i \in DOMAIN p.steps : p.steps[i].id # o.id BY <2>3, StepAtFacts, PlanFields
    <3> QED BY <2>1, <2>3, <3>1 DEF RoleStep
  <2> QED BY <2>2, <2>3
<1> SUFFICES Patched(p, out.plan) /\ out.applied \in BOOLEAN OBVIOUS
<1>7. removes => IsPendingStep(p, o.id) OBVIOUS
<1> HIDE DEF out, fresh, adds, removes, updates
<1>3. CASE adds
  <2>1. Patched(p, InsertAfter(p, o.after, fresh)) BY <1>2, <1>3, InsertAfterPatched
  <2>2. out = took(InsertAfter(p, o.after, fresh)) BY <1>1, <1>3, Zenon
  <2>3. out.plan = InsertAfter(p, o.after, fresh) /\ out.applied = TRUE BY <2>2
  <2> QED BY <2>1, <2>3
<1>4. CASE removes
  <2>1. Patched(p, RemoveStep(p, o.id)) BY <1>4, <1>7, RemoveStepPatched
  <2>2. out = took(RemoveStep(p, o.id)) BY <1>1, <1>4, Zenon
  <2>3. out.plan = RemoveStep(p, o.id) /\ out.applied = TRUE BY <2>2
  <2> QED BY <2>1, <2>3
<1>5. CASE updates
  <2>1. out = took(p) BY <1>1, <1>5, Zenon
  <2>2. out.plan = p /\ out.applied = TRUE BY <2>1
  <2> QED BY <2>2, SamePatched
<1>6. CASE ~ adds /\ ~ removes /\ ~ updates
  <2>1. out = acc BY <1>1, <1>6, Zenon
  <2>2. out.plan = p /\ out.applied = FALSE BY <2>1
  <2> QED BY <2>2, SamePatched
<1> QED BY <1>3, <1>4, <1>5, <1>6

\* A patch without operations leaves the plan.
LEMMA NoOps == ASSUME NEW p, NEW r PROVE ApplyPatch(p, <<>>, r) = p
<1> DEFINE acc == [plan |-> p, applied |-> FALSE]
           phi(f) == f = [s \in SUBSET DOMAIN <<>> |->
                            IF s = {} THEN acc ELSE ApplyOp(f[s \ {Max(s)}], <<>>[Max(s)], r)]
           fold == CHOOSE f : phi(f)
           w == [s \in SUBSET DOMAIN <<>> |-> acc]
           out == fold[DOMAIN <<>>]
<1>1. ApplyPatch(p, <<>>, r) = IF out.applied THEN Advance(out.plan) ELSE out.plan
  BY DEF ApplyPatch, FoldLeft, MapThenFoldSet
<1>2. DOMAIN <<>> = {} OBVIOUS
<1>3. phi(w) BY <1>2
<1>4. phi(fold) BY <1>3
<1> HIDE DEF fold, acc
<1>5. out = acc BY <1>2, <1>4
<1> HIDE DEF out
<1>6. acc.plan = p /\ acc.applied = FALSE BY DEF acc
<1> QED BY <1>1, <1>5, <1>6

LEMMA OneOp ==
  ASSUME NEW p, NEW r, NEW o
  PROVE  LET out == ApplyOp([plan |-> p, applied |-> FALSE], o, r)
         IN  ApplyPatch(p, <<o>>, r) = IF out.applied THEN Advance(out.plan) ELSE out.plan
<1> DEFINE acc == [plan |-> p, applied |-> FALSE]
           phi(f) == f = [s \in SUBSET DOMAIN <<o>> |->
                            IF s = {} THEN acc ELSE ApplyOp(f[s \ {Max(s)}], <<o>>[Max(s)], r)]
           fold == CHOOSE f : phi(f)
           w == [s \in SUBSET DOMAIN <<o>> |-> IF s = {} THEN acc ELSE ApplyOp(acc, o, r)]
           res == fold[DOMAIN <<o>>]
<1>1. ApplyPatch(p, <<o>>, r) = IF res.applied THEN Advance(res.plan) ELSE res.plan
  BY DEF ApplyPatch, FoldLeft, MapThenFoldSet
<1>2. DOMAIN <<o>> = {1} /\ <<o>>[1] = o OBVIOUS
<1>3. Max({1}) = 1 BY DEF Max
<1>4. SUBSET DOMAIN <<o>> = {{}, {1}} BY <1>2
<1>0. ApplyOp([plan |-> p, applied |-> FALSE], o, r) = ApplyOp(acc, o, r) OBVIOUS
<1> HIDE DEF acc
<1>5. w[{}] = acc /\ w[{1}] = ApplyOp(acc, o, r) BY <1>4
<1>6. {1} \ {1} = {} OBVIOUS
<1>7. phi(w)
  <2>1. \A s \in SUBSET DOMAIN <<o>> : s # {} => s = {1} BY <1>4
  <2>2. ApplyOp(w[{1} \ {Max({1})}], <<o>>[Max({1})], r) = ApplyOp(acc, o, r) BY <1>2, <1>3, <1>5, <1>6
  <2>3. \A s \in SUBSET DOMAIN <<o>> :
           (IF s = {} THEN acc ELSE ApplyOp(acc, o, r))
             = (IF s = {} THEN acc ELSE ApplyOp(w[s \ {Max(s)}], <<o>>[Max(s)], r))
    BY <2>1, <2>2
  <2> QED BY <2>3
<1>8. phi(fold) BY <1>7
<1> HIDE DEF fold
<1>9. fold[{}] = acc BY <1>4, <1>8
<1>10. fold[{1}] = ApplyOp(fold[{1} \ {1}], <<o>>[1], r)
  <2>1. {1} \in SUBSET DOMAIN <<o>> /\ {1} # {} BY <1>2
  <2> QED BY <1>3, <1>8, <2>1
<1>11. res = ApplyOp(acc, o, r) BY <1>2, <1>6, <1>9, <1>10
<1> HIDE DEF res
<1> QED BY <1>0, <1>1, <1>11

LEMMA AdvancePatched == ASSUME NEW p \in RolePlan, NEW q, Patched(p, q) PROVE Patched(p, Advance(q))
<1>1. q \in RolePlan /\ Carries(p, q) BY DEF Patched
<1>2. Advance(q) \in RolePlan /\ Advance(q).steps = q.steps BY <1>1, AdvanceKeeps
<1>3. Marked(Advance(q)) = Marked(q) BY <1>2 DEF Marked
<1>4. Carries(p, Advance(q)) BY <1>1, <1>2, <1>3 DEF Carries
<1> QED BY <1>2, <1>4 DEF Patched, IdsDistinct

LEMMA PatchPatched ==
  ASSUME NEW p \in RolePlan, NEW ops \in {<<>>} \cup {<<o>> : o \in PatchOps}, NEW r
  PROVE  Patched(p, ApplyPatch(p, ops, r))
<1>1. CASE ops = <<>> BY <1>1, NoOps, SamePatched
<1>2. ASSUME NEW o \in PatchOps, ops = <<o>> PROVE Patched(p, ApplyPatch(p, ops, r))
  <2> DEFINE out == ApplyOp([plan |-> p, applied |-> FALSE], o, r)
  <2>1. Patched(p, out.plan) BY OpPatched
  <2>2. ApplyPatch(p, ops, r) = IF out.applied THEN Advance(out.plan) ELSE out.plan BY <1>2, OneOp
  <2> HIDE DEF out
  <2>3. Patched(p, Advance(out.plan)) BY <2>1, AdvancePatched
  <2> QED BY <2>1, <2>2, <2>3
<1> QED BY <1>1, <1>2

LEMMA ParsedPlan == ASSUME NEW a \in RolePlan PROVE ParsePlan(a) \in RolePlan
<1> DEFINE numbered(i) == [a.steps[i] EXCEPT !.id = IF a.steps[i].id = 0 THEN i ELSE a.steps[i].id]
           steps == [i \in DOMAIN a.steps |-> numbered(i)]
           p == [a EXCEPT !.steps = steps]
<1>1. \A i \in DOMAIN a.steps : numbered(i) \in RoleStep
  <2> SUFFICES ASSUME NEW i \in DOMAIN a.steps PROVE numbered(i) \in RoleStep OBVIOUS
  <2>1. a.steps[i] \in RoleStep /\ i \in Nat BY PlanFields
  <2> QED BY <2>1 DEF RoleStep
<1>2. ParsePlan(a) = IF CurrentStep(p) = 0 THEN p ELSE Advance(p) BY DEF ParsePlan
<1> HIDE DEF numbered
<1>3. steps \in Seq(RoleStep) BY <1>1, PlanFields
<1> HIDE DEF steps
<1>4. p \in RolePlan BY <1>3 DEF RolePlan
<1> HIDE DEF p
<1> QED BY <1>2, <1>4, AdvanceKeeps

-----------------------------------------------------------------------------
\* The plan is a plan, and an execution iteration works on a step of it.
PlanInv ==
    /\ rwProg.plan \in RolePlan
    /\ rwStatus # "running" => rwRun = NoRun
    /\ rwStatus = "running" /\ rwRun.key = "step" =>
         PlanActive /\ rwProg.plan # NoPlan /\ CurrentStep(rwProg.plan) # 0 /\ ~ rwRun.final

\* What an iteration may make of the plan.
Forward(p, q) ==
    /\ q \in RolePlan
    /\ p # NoPlan => q # NoPlan
    /\ \A i \in DOMAIN p.steps : p.steps[i].done => \E j \in DOMAIN q.steps : q.steps[j] = p.steps[i]
    /\ p # NoPlan /\ IdsDistinct(p) => IdsDistinct(q)

LEMMA StillForward == ASSUME NEW p \in RolePlan PROVE Forward(p, p)
BY DEF Forward

\* The current step is finished, then the plan is patched.
LEMMA WorkedForward ==
  ASSUME NEW p \in RolePlan, CurrentStep(p) # 0, NEW ops \in {<<>>} \cup {<<o>> : o \in PatchOps}, NEW r
  PROVE  LET q == ApplyPatch(CompleteStep(p, CurrentStep(p)), ops, r)
         IN  Forward(p, q) /\ (IdsDistinct(p) => Cardinality(Marked(q)) > Cardinality(Marked(p)))
<1> DEFINE c == CompleteStep(p, CurrentStep(p))
           q == ApplyPatch(c, ops, r)
<1>1. /\ c \in RolePlan /\ Marked(c) # {}
      /\ \A i \in DOMAIN p.steps : p.steps[i].done => i \in DOMAIN c.steps /\ c.steps[i] = p.steps[i]
      /\ IdsDistinct(p) => IdsDistinct(c) /\ Cardinality(Marked(c)) = Cardinality(Marked(p)) + 1
  BY CompleteMarks
<1> HIDE DEF c
<1>2. Patched(c, q) BY <1>1, PatchPatched
<1> HIDE DEF q
<1>3. q \in RolePlan /\ Carries(c, q) /\ (IdsDistinct(c) => IdsDistinct(q)) BY <1>2 DEF Patched
<1>4. \A i \in Marked(c) : \E j \in Marked(q) : q.steps[j] = c.steps[i] BY <1>3 DEF Carries
<1>5. q # NoPlan
  <2>1. \E j \in DOMAIN q.steps : TRUE BY <1>1, <1>4 DEF Marked
  <2>2. DOMAIN NoPlan.steps = {} BY DEF NoPlan
  <2> QED BY <2>1, <2>2
<1>6. \A i \in DOMAIN p.steps : p.steps[i].done => \E j \in DOMAIN q.steps : q.steps[j] = p.steps[i]
  BY <1>1, <1>4 DEF Marked
<1>7. IdsDistinct(p) => Cardinality(Marked(q)) > Cardinality(Marked(p))
  <2>1. Cardinality(Marked(c)) <= Cardinality(Marked(q)) BY <1>1, <1>3, CarriedCount
  <2>2. Cardinality(Marked(p)) \in Nat /\ Cardinality(Marked(c)) \in Nat /\ Cardinality(Marked(q)) \in Nat
    BY <1>1, <1>3, MarkedFinite, FS_CardinalityType
  <2> QED BY <1>1, <2>1, <2>2
<1> QED BY <1>1, <1>3, <1>5, <1>6, <1>7 DEF Forward, q, c

\* The plan a reply leaves.
LEMMA PlannedForward ==
  ASSUME ResearchIInv, PlanInv, rwStatus = "running", NEW reply \in Replies
  PROVE  LET p == rwProg.plan
             q == Planned(rwRun.prog, reply)
         IN  /\ Forward(p, q)
             /\ rwRun.key = "step" /\ IdsDistinct(p) => Cardinality(Marked(q)) > Cardinality(Marked(p))
<1> DEFINE p == rwProg.plan
           q == Planned(rwRun.prog, reply)
<1>1. rwRun.prog.plan = p /\ p \in RolePlan BY DEF ResearchIInv, RunFollowsRow, PlanInv
<1>2. reply.ops \in {<<>>} \cup {<<o>> : o \in PatchOps} /\ reply.plan \in PlannerPlans \cup {NoPlan} BY DEF Replies
<1>3. q = IF ~ PlanActive THEN p
          ELSE IF p = NoPlan THEN IF reply.plan.steps = <<>> THEN NoPlan ELSE ParsePlan(reply.plan)
          ELSE IF CurrentStep(p) # 0 /\ ~ rwRun.final
               THEN ApplyPatch(CompleteStep(p, CurrentStep(p)), reply.ops, StepsLeft)
          ELSE p
  BY <1>1 DEF Planned
<1>4. rwRun.key = "step" => PlanActive /\ p # NoPlan /\ CurrentStep(p) # 0 /\ ~ rwRun.final BY DEF PlanInv
<1> HIDE DEF p, q
<1>5. CASE q = p /\ rwRun.key # "step" BY <1>1, <1>5, StillForward DEF p, q
<1>6. CASE p = NoPlan /\ q \in {NoPlan, ParsePlan(reply.plan)} /\ rwRun.key # "step"
  <2>1. reply.plan \in RolePlan
    <3>1. NoPlan \in RolePlan BY DEF NoPlan, RolePlan
    <3> QED BY <1>2, <3>1, WorkerConstants
  <2>2. q \in RolePlan BY <1>1, <1>6, <2>1, ParsedPlan
  <2>3. DOMAIN p.steps = {} BY <1>6 DEF NoPlan
  <2>4. Forward(p, q) BY <1>6, <2>2, <2>3 DEF Forward
  <2> QED BY <1>6, <2>4 DEF p, q
<1>7. CASE CurrentStep(p) # 0 /\ q = ApplyPatch(CompleteStep(p, CurrentStep(p)), reply.ops, StepsLeft)
  BY <1>1, <1>2, <1>7, WorkedForward DEF p, q
<1> QED BY <1>3, <1>4, <1>5, <1>6, <1>7

\* How an iteration ends: with the plan of the reply, or cut and with its own.
LEMMA FinishedPlan ==
  ASSUME ResearchIInv, PlanInv, FinishIteration
  PROVE  /\ rwRun' = NoRun /\ rwStatus' # "running" /\ Forward(rwProg.plan, rwProg'.plan)
         /\ rwRun.key = "step" /\ IdsDistinct(rwProg.plan) =>
              Cardinality(Marked(rwProg'.plan)) > Cardinality(Marked(rwProg.plan))
<1>1. rwStatus = "running" BY DEF FinishIteration
<1>2. PICK reply \in Replies : Submit(reply) \/ Escalate(reply) \/ Pause(reply) \/ Continue(reply)
  BY DEF FinishIteration
<1> DEFINE kept == Bookkept(reply)
           blanks == IF reply.blank THEN kept.blanks + 1 ELSE 0
           prog == [kept EXCEPT !.blanks = blanks]
           noted(why) == [prog EXCEPT !.feedback = why]
           late(phase) == [kept EXCEPT !.phase = phase]
<1>3. ProgressFields(kept) BY <1>1, BookkeptProgress
<1>4. kept.plan = Planned(rwRun.prog, reply)
  <2>1. ProgressFields(rwRun.prog) BY <1>1 DEF ResearchIInv, RunFollowsRow
  <2> QED BY <2>1 DEF Bookkept, ProgressFields
<1>5. /\ rwRun' = NoRun /\ rwStatus' # "running"
      /\ rwProg' \in {kept, prog, noted("blank"), noted("rejected"), late("error_loop"), late("waiting")}
  <2>1. CASE Submit(reply)
    <3>1. \/ Complete("pending", noted("blank"), "blank")
          \/ \E last \in {"empty", "accepted"} : Complete("ended", prog, last)
          \/ \E status \in {"ended", "pending"} : Complete(status, noted("rejected"), "rejected")
      BY <2>1 DEF Submit
    <3> HIDE DEF kept, prog, noted, late
    <3> QED BY <3>1 DEF Complete
  <2>2. CASE Escalate(reply)
    <3>1. Complete("paused", late("error_loop"), "escalated") BY <2>2 DEF Escalate
    <3> HIDE DEF kept, prog, noted, late
    <3> QED BY <3>1 DEF Complete
  <2>3. CASE Pause(reply)
    <3>1. Complete("paused", late("waiting"), "paused") BY <2>3 DEF Pause
    <3> HIDE DEF kept, prog, noted, late
    <3> QED BY <3>1 DEF Complete
  <2>4. CASE Continue(reply)
    <3>1. Complete("pending", kept, "continued") BY <2>4 DEF Continue
    <3> HIDE DEF kept, prog, noted, late
    <3> QED BY <3>1 DEF Complete
  <2> QED BY <1>2, <2>1, <2>2, <2>3, <2>4
<1> HIDE DEF kept, blanks
<1>6. ProgressFields(prog) /\ prog.plan = kept.plan BY <1>3 DEF ProgressFields
<1>7. late("error_loop").plan = kept.plan /\ late("waiting").plan = kept.plan BY <1>3 DEF ProgressFields
<1> HIDE DEF prog
<1>8. noted("blank").plan = prog.plan /\ noted("rejected").plan = prog.plan BY <1>6 DEF ProgressFields
<1> HIDE DEF noted, late
<1>9. rwProg'.plan = kept.plan /\ rwRun' = NoRun /\ rwStatus' # "running"
  BY <1>5, <1>6, <1>7, <1>8
<1> QED BY <1>1, <1>4, <1>9, PlannedForward

\* Every other step leaves the plan.
LEMMA PlanRests ==
  ASSUME ResearchIInv, PlanInv, [WorkerNext]_workerVars, ~ FinishIteration
  PROVE  /\ rwProg'.plan = rwProg.plan
         /\ rwIter' = rwIter \/ rwLast' = "cut"
<1>1. CASE StartIteration
  <2> DEFINE s == IF rwProg.session = 0 THEN rwSessions + 1 ELSE rwProg.session
  <2>1. rwIter' = rwIter /\ (rwProg' = [rwProg EXCEPT !.session = s] \/ rwProg' = rwProg) BY <1>1 DEF StartIteration
  <2> HIDE DEF s
  <2> QED BY <2>1 DEF ResearchIInv, WorkerTypeOK, ProgressFields
<1>2. CASE PrepareContext \/ LoseIteration \/ Wake \/ Exhaust \/ ResearchDeadline \/ WorkerEnded \/ UNCHANGED workerVars
  BY <1>2 DEF PrepareContext, LoseIteration, Wake, Exhaust, ResearchDeadline, WorkerEnded, workerVars
<1>3. CASE SaveCheckpoint
  <2>1. rwStatus = "running" /\ rwIter' = rwIter /\ rwProg' = [rwRun.prog EXCEPT !.feedback = rwProg.feedback]
    BY <1>3 DEF SaveCheckpoint
  <2>2. ProgressFields(rwRun.prog) /\ rwRun.prog.plan = rwProg.plan BY <2>1 DEF ResearchIInv, RunFollowsRow
  <2> QED BY <2>1, <2>2 DEF ProgressFields
<1>4. CASE SoftDeadline
  <2>1. rwStatus = "running" /\ rwProg' = [rwRun.prog EXCEPT !.phase = "finalizing"] /\ rwLast' = "cut"
    BY <1>4 DEF SoftDeadline, Complete
  <2>2. ProgressFields(rwRun.prog) /\ rwRun.prog.plan = rwProg.plan BY <2>1 DEF ResearchIInv, RunFollowsRow
  <2> QED BY <2>1, <2>2 DEF ProgressFields
<1> QED BY <1>1, <1>2, <1>3, <1>4 DEF WorkerNext

LEMMA NoPlanCurrent == CurrentStep(NoPlan) = 0
<1>1. NoPlan \in RolePlan /\ DOMAIN NoPlan.steps = {} BY DEF NoPlan, RolePlan
<1> QED BY <1>1, CurrentIsPending

LEMMA PlanInitInv == WorkerInit => PlanInv
<1>1. NoPlan \in RolePlan BY DEF NoPlan, RolePlan
<1> SUFFICES ASSUME WorkerInit PROVE PlanInv OBVIOUS
<1>2. rwProg.plan = NoPlan /\ rwStatus = "pending" /\ rwRun = NoRun BY DEF WorkerInit
<1> QED BY <1>1, <1>2 DEF PlanInv

LEMMA PlanInductive == ResearchIInv /\ PlanInv /\ [WorkerNext]_workerVars => PlanInv'
<1> SUFFICES ASSUME ResearchIInv, PlanInv, [WorkerNext]_workerVars PROVE PlanInv' OBVIOUS
<1>1. CASE FinishIteration BY <1>1, FinishedPlan DEF PlanInv, Forward
<1>2. CASE ~ FinishIteration
  <2>1. rwProg'.plan = rwProg.plan BY <1>2, PlanRests
  <2>2. rwProg'.plan \in RolePlan BY <2>1 DEF PlanInv
  <2>3. ASSUME rwCfg' = rwCfg, rwIter' = rwIter PROVE PlanActive <=> PlanActive'
    BY <2>1, <2>3 DEF PlanActive
  <2>4. CASE StartIteration
    <3>1. rwCfg' = rwCfg /\ rwIter' = rwIter BY <2>4 DEF StartIteration
    <3>2. CASE rwStatus' = "running" /\ rwRun'.key = PhaseKey /\ rwRun'.final = SynthesisDeadline
      <4>1. PhaseKey = "step" => PlanActive /\ rwProg.plan # NoPlan /\ CurrentStep(rwProg.plan) # 0 /\ ~ SynthesisDeadline
        <5> DEFINE planned == CASE rwProg.plan = NoPlan -> "plan"
                               [] CurrentStep(rwProg.plan) # 0 /\ ~ SynthesisDeadline -> "step"
                               [] OTHER -> "synthesis"
                   flat == IF rwIter = 0 THEN "planning" ELSE IF SynthesisDeadline THEN "synthesis" ELSE "execution"
        <5>1. PhaseKey = IF rwProg.peer # 0 /\ rwProg.phase = "waiting" THEN "resume"
                         ELSE IF PlanActive THEN planned ELSE flat
          BY DEF PhaseKey
        <5>2. flat # "step" OBVIOUS
        <5>3. rwProg.plan = NoPlan => planned # "step"
          <6>1. CASE CurrentStep(NoPlan) = 0
            <7>1. rwProg.plan = NoPlan => planned = "plan" BY <6>1
            <7> QED BY <7>1
          <6>2. CurrentStep(NoPlan) = 0 BY NoPlanCurrent
          <6> QED BY <6>1, <6>2
        <5>4. rwProg.plan # NoPlan /\ planned = "step" => CurrentStep(rwProg.plan) # 0 /\ ~ SynthesisDeadline
          <6>1. rwProg.plan # NoPlan /\ ~ (CurrentStep(rwProg.plan) # 0 /\ ~ SynthesisDeadline) => planned = "synthesis" OBVIOUS
          <6> QED BY <6>1
        <5> HIDE DEF planned, flat
        <5> QED BY <5>1, <5>2, <5>3, <5>4
      <4> QED BY <2>1, <2>2, <2>3, <3>1, <3>2, <4>1 DEF PlanInv
    <3>3. CASE UNCHANGED <<rwProg, rwStatus, rwRun>>
      BY <2>1, <2>2, <2>3, <2>4, <3>1, <3>3 DEF PlanInv, StartIteration
    <3> QED BY <2>4, <3>2, <3>3 DEF StartIteration
  <2>5. CASE PrepareContext
    <3>1. /\ rwStatus = "running" /\ rwCfg' = rwCfg /\ rwIter' = rwIter /\ rwStatus' = rwStatus
          /\ rwRun' = [rwRun EXCEPT !.ready = TRUE, !.prog.context = TRUE]
      BY <2>5 DEF PrepareContext
    <3>2. WorkFields(rwRun) BY <3>1 DEF ResearchIInv, RunFollowsRow
    <3>3. rwRun'.key = rwRun.key /\ rwRun'.final = rwRun.final BY <3>1, <3>2 DEF WorkFields
    <3> QED BY <2>1, <2>2, <2>3, <3>1, <3>3 DEF PlanInv
  <2>6. CASE SaveCheckpoint
    <3>1. rwCfg' = rwCfg /\ rwIter' = rwIter /\ rwStatus' = rwStatus /\ rwRun' = rwRun BY <2>6 DEF SaveCheckpoint
    <3> QED BY <2>1, <2>2, <2>3, <3>1 DEF PlanInv
  <2>7. CASE LoseIteration \/ SoftDeadline
    <3>1. rwStatus' # "running" /\ rwRun' = NoRun BY <2>7 DEF LoseIteration, SoftDeadline, Complete
    <3> QED BY <2>2, <3>1 DEF PlanInv
  <2>8. CASE Wake \/ Exhaust \/ ResearchDeadline \/ WorkerEnded \/ UNCHANGED workerVars
    <3>1. /\ rwCfg' = rwCfg /\ rwIter' = rwIter /\ rwRun' = rwRun
          /\ rwStatus' = rwStatus \/ (rwStatus # "running" /\ rwStatus' # "running")
      BY <2>8 DEF Wake, Exhaust, ResearchDeadline, WorkerEnded, workerVars
    <3> QED BY <2>1, <2>2, <2>3, <3>1 DEF PlanInv
  <2> QED BY <1>2, <2>4, <2>5, <2>6, <2>7, <2>8 DEF WorkerNext
<1> QED BY <1>1, <1>2

\* The role plan only moves forward (background.go, plan.go): for every plan the
\* planner may answer and every operation an executor may propose, through
\* rejections, patches, pauses and lost iterations, a finished step stays in the
\* plan, a plan is not dropped, distinct ids stay distinct, and then every
\* execution iteration finishes one more step.
THEOREM PlansMoveForward == WorkerSpec => PlanMovesForward
<1> DEFINE Step == StepsStayDone /\ IdsStayDistinct /\ PlanAdvances
<1>1. ASSUME ResearchIInv, PlanInv, [WorkerNext]_workerVars PROVE Step
  <2>1. rwProg.plan \in RolePlan /\ rwIter \in Nat BY <1>1 DEF PlanInv, ResearchIInv, WorkerTypeOK
  <2>2. CASE FinishIteration
    <3>1. /\ Forward(rwProg.plan, rwProg'.plan)
          /\ rwRun.key = "step" /\ IdsDistinct(rwProg.plan) =>
               Cardinality(Marked(rwProg'.plan)) > Cardinality(Marked(rwProg.plan))
      BY <1>1, <2>2, FinishedPlan
    <3>2. StepsStayDone /\ IdsStayDistinct BY <3>1 DEF Forward, StepsStayDone, IdsStayDistinct
    <3>3. PlanAdvances BY <3>1 DEF PlanAdvances, Marked
    <3> QED BY <3>2, <3>3
  <2>3. CASE ~ FinishIteration
    <3>1. rwProg'.plan = rwProg.plan /\ (rwIter' = rwIter \/ rwLast' = "cut") BY <1>1, <2>3, PlanRests
    <3>2. StepsStayDone /\ IdsStayDistinct BY <3>1 DEF StepsStayDone, IdsStayDistinct
    <3>3. PlanAdvances
      <4>1. rwIter' = rwIter => rwIter' # rwIter + 1 BY <2>1
      <4> QED BY <3>1, <4>1 DEF PlanAdvances
    <3> QED BY <3>2, <3>3
  <2> QED BY <2>2, <2>3
<1>2. ResearchIInv /\ PlanInv /\ [WorkerNext]_workerVars => [Step]_workerVars BY <1>1
<1> QED BY <1>2, ResearchInitInv, ResearchInductive, PlanInitInv, PlanInductive, PTL DEF WorkerSpec, PlanMovesForward

-----------------------------------------------------------------------------
(* The component AgentLoop                                                    *)

\* Four guarantees of a run, and each provider call extends the one before it.
\* The inductive invariant AgentIInv has one part per thing an action can
\* disturb: the locals and their counters, the response being handled, the text
\* on the transport, the wire array, the latest call, the store.
AgentFields ==
  {"turn", "maxTurns", "toolTurns", "forceFinal", "continuations", "revisions", "truncations",
   "lateRecovery", "pending", "text", "traces", "reason", "toolbox", "checked", "fallback",
   "anchor", "calls"}

Flag(b) == IF b THEN 1 ELSE 0

\* The locals of a run: every counter below its limit, and the turn budget
\* raised at most once by each of its reasons.
LocalsOk(r) ==
  /\ DOMAIN r = AgentFields
  /\ r.turn \in Nat /\ r.maxTurns \in Nat
  /\ r.continuations \in 0..1 /\ r.revisions \in 0..1 /\ r.truncations \in 0..2
  /\ r.forceFinal \in BOOLEAN /\ r.lateRecovery \in BOOLEAN
  /\ r.turn <= r.maxTurns
  /\ r.maxTurns <= alCfg.maxTurns + r.continuations + r.revisions + r.truncations
                     + Flag(r.forceFinal) + Flag(r.lateRecovery)

LocalsInv == alCfg \in AgentConfigs /\ LocalsOk(alRun)

RespOk(r) ==
  /\ DOMAIN r = {"stop", "text", "uses"} /\ r.text \in BOOLEAN /\ r.uses \in Seq(STRING)
  /\ r.uses # <<>> => r.stop \in {"tool_use", "max_tokens"}

\* The response in hand, and the fallback text of an empty one: it is on its way
\* to the end of the run.
RespInv ==
  /\ RespOk(alResp)
  /\ alPc # "end" => alRun.reason \in {"provider_stop", "tool_budget", "empty_output"}
  /\ alPc # "end" /\ alRun.reason = "empty_output" =>
       /\ alPc \in {"draft", "persist", "stop"} /\ alRun.fallback
       /\ alResp.uses = <<>> /\ alResp.stop \in {"end_turn", "max_tokens"}

\* A validated run has shown no raw text, and what it is about to store is checked.
ShownInv ==
  /\ DOMAIN alEnv = {"cancelled", "late", "ran", "shown"}
  /\ alCfg.validator => "raw" \notin alEnv.shown
  /\ alPc = "persist" /\ alCfg.validator /\ alResp.text => alRun.checked

AgentMsgType == [role : {"user", "assistant"}, uses : Nat, results : Nat, ctx : BOOLEAN]

\* Every message with tool calls is answered by the next, or is the last and
\* makes n calls.
Awaits(s, n) ==
  \A i \in 1..Len(s) : s[i].uses > 0 =>
    \/ i < Len(s) /\ s[i + 1].role = "user" /\ s[i + 1].results = s[i].uses
    \/ i = Len(s) /\ s[i].uses = n

ToolOutcomes == {"denied", "unlocked", "ran"}

Asking == {"turn", "response", "draft", "persist"}
Responding == {"stop", "tools"}

PlaceInv == alPc \in {"begin", "end"} \cup Asking \cup Responding

WireInv ==
  /\ alConvo \in Seq(AgentMsgType)
  /\ alPc \in {"begin"} \cup Asking => Awaits(alConvo, 0)
  /\ alPc \in Asking => alConvo # <<>> /\ alConvo[Len(alConvo)].role = "user"
  /\ alPc \in Responding => Awaits(alConvo, Len(alResp.uses))
  /\ alPc = "tools" => alResults \in Seq(ToolOutcomes) /\ Len(alResults) <= Len(alResp.uses)

\* The latest call is the wire array of its time with the context at the anchor.
SentInv ==
  /\ alSent \in Seq(AgentMsgType)
  /\ alPc = "begin" => alSent = <<>>
  /\ alPc \in Asking \cup Responding => alRun.anchor \in 1..Len(alConvo)
  /\ AgentWireValid
  /\ (alSent # <<>> /\ alPc # "end") =>
       /\ alRun.anchor <= Len(alSent) /\ Len(alSent) <= Len(alConvo)
       /\ \A i \in 1..Len(alSent) : alSent[i] = IF i = alRun.anchor THEN [alConvo[i] EXCEPT !.ctx = TRUE] ELSE alConvo[i]

StoreInv ==
  /\ alStored \in Seq(AgentMsgType)
  /\ alPc \in {"begin"} \cup Asking \/ alCfg.ephemeral => Awaits(alStored, 0)
  /\ alPc \in Responding => Awaits(alStored, Len(alResp.uses))
  /\ alPc = "end" => Awaits(alStored, 0) \/ alRun.reason \in {"error", "cancelled", "output_limit"}

AgentIInv == LocalsInv /\ RespInv /\ ShownInv /\ PlaceInv /\ WireInv /\ SentInv /\ StoreInv
-----------------------------------------------------------------------------
\* What a configuration is.
LEMMA CfgFacts ==
  ASSUME LocalsInv
  PROVE  alCfg.maxTurns \in Nat /\ alCfg.validator \in BOOLEAN /\ alCfg.ephemeral \in BOOLEAN
<1>1. alCfg \in AgentConfigType BY AgentConfigsTyped DEF LocalsInv
<1> QED BY <1>1 DEF AgentConfigType

LEMMA FlagFacts == /\ \A b : Flag(b) \in 0..1
                   /\ Flag(TRUE) = 1 /\ Flag(FALSE) = 0
BY DEF Flag

\* A budget raised by one is paid for by a counter or a flag.
LEMMA PaidLocals ==
  ASSUME LocalsInv, UNCHANGED alCfg, NEW r,
         DOMAIN r = AgentFields, r.turn = alRun.turn, r.maxTurns \in Nat, r.turn <= r.maxTurns,
         r.maxTurns <= alRun.maxTurns + 1,
         r.continuations \in 0..1, r.revisions \in 0..1, r.truncations \in 0..2,
         r.forceFinal \in BOOLEAN, r.lateRecovery \in BOOLEAN,
         r.continuations + r.revisions + r.truncations + Flag(r.forceFinal) + Flag(r.lateRecovery)
           >= 1 + alRun.continuations + alRun.revisions + alRun.truncations + Flag(alRun.forceFinal) + Flag(alRun.lateRecovery)
  PROVE  LocalsOk(r) /\ (alRun' = r => LocalsInv')
<1>1. alCfg.maxTurns \in Nat BY CfgFacts
<1>2. /\ Flag(r.forceFinal) \in 0..1 /\ Flag(r.lateRecovery) \in 0..1
      /\ Flag(alRun.forceFinal) \in 0..1 /\ Flag(alRun.lateRecovery) \in 0..1
  BY FlagFacts
<1>3. /\ alRun.turn \in Nat /\ alRun.maxTurns \in Nat
      /\ alRun.continuations \in 0..1 /\ alRun.revisions \in 0..1 /\ alRun.truncations \in 0..2
      /\ alRun.maxTurns <= alCfg.maxTurns + alRun.continuations + alRun.revisions + alRun.truncations
                     + Flag(alRun.forceFinal) + Flag(alRun.lateRecovery)
  BY DEF LocalsInv, LocalsOk
<1>4. r.maxTurns <= alCfg.maxTurns + r.continuations + r.revisions + r.truncations
                     + Flag(r.forceFinal) + Flag(r.lateRecovery)
  BY <1>1, <1>2, <1>3
<1>5. LocalsOk(r) BY <1>3, <1>4 DEF LocalsOk
<1>6. ASSUME alRun' = r PROVE LocalsInv'
  <2>1. LocalsOk(alRun)' = LocalsOk(r) BY <1>6 DEF LocalsOk
  <2> QED BY <1>5, <2>1 DEF LocalsInv
<1> QED BY <1>5, <1>6

\* A return changes nothing but the reason.
LEMMA ReturnLocals ==
  ASSUME NEW r, LocalsOk(r), alCfg \in AgentConfigs, UNCHANGED alCfg, NEW reason, NEW failed, AgentReturn(r, reason, failed)
  PROVE  LocalsInv'
BY DEF AgentReturn, LocalsInv, LocalsOk, AgentFields

\* ExtendTurns gives one more pass.
LEMMA ExtendLocals ==
  ASSUME LocalsInv, NEW r, DOMAIN r = AgentFields, r.turn = alRun.turn, r.maxTurns = alRun.maxTurns
  PROVE  LET e == ExtendTurns(r) IN
         /\ DOMAIN e = AgentFields /\ e.turn = r.turn /\ e.maxTurns \in Nat /\ e.turn <= e.maxTurns
         /\ e.maxTurns <= alRun.maxTurns + 1
         /\ e.continuations = r.continuations /\ e.revisions = r.revisions /\ e.truncations = r.truncations
         /\ e.forceFinal = r.forceFinal /\ e.lateRecovery = r.lateRecovery
BY DEF ExtendTurns, LocalsInv, LocalsOk, AgentFields

LEMMA OpenLocals == ASSUME LocalsInv, AgentOpen PROVE LocalsInv'
<1>1. CASE AgentFail BY <1>1, ReturnLocals DEF AgentFail, LocalsInv
<1>2. CASE ~AgentFail BY <1>2 DEF AgentOpen, LocalsInv, LocalsOk, AgentFields
<1> QED BY <1>1, <1>2

LEMMA CallLocals == ASSUME LocalsInv, NEW r, LocalsOk(r), r.turn = alRun.turn, r.maxTurns = alRun.maxTurns, AgentCall(r) PROVE LocalsInv'
<1> DEFINE n == [r EXCEPT !.turn = @ + 1]
<1>0. alRun.turn < alRun.maxTurns BY DEF AgentCall
<1>1. LocalsOk(n)
  <2>1. /\ DOMAIN n = AgentFields /\ n.turn = r.turn + 1 /\ n.maxTurns = r.maxTurns
        /\ n.continuations = r.continuations /\ n.revisions = r.revisions /\ n.truncations = r.truncations
        /\ n.forceFinal = r.forceFinal /\ n.lateRecovery = r.lateRecovery
    BY DEF LocalsOk, AgentFields
  <2> HIDE DEF n
  <2> QED BY <1>0, <2>1 DEF LocalsOk
<1>2. CASE AgentReturn(n, alRun.reason, TRUE)
  <2> HIDE DEF n
  <2> QED BY <1>1, <1>2, ReturnLocals DEF AgentCall, LocalsInv
<1>3. CASE ~AgentReturn(n, alRun.reason, TRUE)
  BY <1>1, <1>3 DEF AgentCall, LocalsInv, LocalsOk, AgentFields
<1> QED BY <1>2, <1>3

LEMMA TrackedCallLocals == ASSUME LocalsInv, TrackedCall PROVE LocalsInv'
<1> DEFINE r == [alRun EXCEPT !.forceFinal = @ \/ (alCfg.deadline /\ alEnv.late)]
<1>1. LocalsOk(r) /\ r.turn = alRun.turn /\ r.maxTurns = alRun.maxTurns
  BY CfgFacts DEF LocalsInv, LocalsOk, AgentFields, Flag
<1>2. AgentCall(r) BY DEF TrackedCall
<1> HIDE DEF r
<1> QED BY <1>1, <1>2, CallLocals

LEMMA EmptyLocals == ASSUME LocalsInv, EmptyResponse PROVE LocalsInv'
<1>1. CASE AgentReturn(alRun, alRun.reason, TRUE) BY <1>1, ReturnLocals DEF EmptyResponse, LocalsInv
<1>2. CASE ~AgentReturn(alRun, alRun.reason, TRUE) BY <1>2 DEF EmptyResponse, LocalsInv, LocalsOk, AgentFields
<1> QED BY <1>1, <1>2

LEMMA ContinueLocals == ASSUME LocalsInv, ContinueResponse PROVE LocalsInv'
<1> DEFINE r == [alRun EXCEPT !.pending = TRUE, !.text = @ \/ ~alCfg.validator, !.continuations = @ + 1, !.forceFinal = TRUE]
<1>1. /\ DOMAIN r = AgentFields /\ r.turn = alRun.turn /\ r.maxTurns = alRun.maxTurns
      /\ r.continuations = alRun.continuations + 1 /\ r.revisions = alRun.revisions /\ r.truncations = alRun.truncations
      /\ r.forceFinal = TRUE /\ r.lateRecovery = alRun.lateRecovery
  BY DEF LocalsInv, LocalsOk, AgentFields
<1>2. alRun' = ExtendTurns(r) /\ alCfg' = alCfg /\ alRun.continuations < 1
  BY DEF ContinueResponse, shouldAutoContinueMaxTokens, maxTokenContinuationPasses
<1> HIDE DEF r
<1>3. /\ DOMAIN alRun' = AgentFields /\ alRun'.turn = alRun.turn /\ alRun'.maxTurns \in Nat /\ alRun'.turn <= alRun'.maxTurns
      /\ alRun'.maxTurns <= alRun.maxTurns + 1
      /\ alRun'.continuations = alRun.continuations + 1 /\ alRun'.revisions = alRun.revisions /\ alRun'.truncations = alRun.truncations
      /\ alRun'.forceFinal = TRUE /\ alRun'.lateRecovery = alRun.lateRecovery
  BY <1>1, <1>2, ExtendLocals
<1>4. Flag(alRun'.forceFinal) = 1 /\ Flag(alRun'.lateRecovery) = Flag(alRun.lateRecovery) BY <1>3, FlagFacts
<1>5. Flag(alRun.forceFinal) \in 0..1 /\ Flag(alRun.lateRecovery) \in 0..1 BY FlagFacts
<1>6. /\ alRun.continuations \in 0..1 /\ alRun.revisions \in 0..1 /\ alRun.truncations \in 0..2 /\ alRun.lateRecovery \in BOOLEAN
  BY DEF LocalsInv, LocalsOk
<1>7. alRun'.continuations + alRun'.revisions + alRun'.truncations + Flag(alRun'.forceFinal) + Flag(alRun'.lateRecovery)
        >= 1 + alRun.continuations + alRun.revisions + alRun.truncations + Flag(alRun.forceFinal) + Flag(alRun.lateRecovery)
  BY <1>3, <1>4, <1>5, <1>6
<1>8. alRun'.continuations \in 0..1 BY <1>2, <1>3, <1>6
<1>9. alRun'.forceFinal \in BOOLEAN /\ alRun'.lateRecovery \in BOOLEAN BY <1>3, <1>6
<1> QED BY <1>2, <1>3, <1>6, <1>7, <1>8, <1>9, PaidLocals

LEMMA ValidateLocals == ASSUME LocalsInv, ValidateDraft PROVE LocalsInv'
<1>1. CASE AgentReturn(alRun, alRun.reason, TRUE) BY <1>1, ReturnLocals DEF ValidateDraft, LocalsInv
<1>2. CASE alRun' = [alRun EXCEPT !.checked = TRUE] /\ alCfg' = alCfg BY <1>2 DEF LocalsInv, LocalsOk, AgentFields
<1>3. CASE /\ alRun' = [alRun EXCEPT !.revisions = @ + 1, !.maxTurns = @ + 1, !.pending = FALSE]
           /\ alCfg' = alCfg /\ alRun.revisions < 1
  <2>1. /\ DOMAIN alRun' = AgentFields /\ alRun'.turn = alRun.turn /\ alRun'.maxTurns = alRun.maxTurns + 1
        /\ alRun'.continuations = alRun.continuations /\ alRun'.revisions = alRun.revisions + 1 /\ alRun'.truncations = alRun.truncations
        /\ alRun'.forceFinal = alRun.forceFinal /\ alRun'.lateRecovery = alRun.lateRecovery
    BY <1>3 DEF LocalsInv, LocalsOk, AgentFields
  <2> QED BY <1>3, <2>1, CfgFacts DEF LocalsInv, LocalsOk, Flag
<1> QED BY <1>1, <1>2, <1>3 DEF ValidateDraft, Revisable, maxResponseRevisions

LEMMA PersistLocals == ASSUME LocalsInv, NEW shown, AgentPersist(shown) PROVE LocalsInv'
<1> DEFINE r == [alRun EXCEPT !.text = @ \/ alResp.text, !.pending = FALSE]
<1>1. LocalsOk(r) BY DEF LocalsInv, LocalsOk, AgentFields
<1>2. alCfg' = alCfg /\ (AgentReturn(alRun, alRun.reason, TRUE) \/ alRun' = r \/ AgentReturn(r, alRun.reason, TRUE))
  BY DEF AgentPersist, AgentFail
<1> HIDE DEF r
<1>3. CASE alRun' = r BY <1>1, <1>2, <1>3 DEF LocalsInv, LocalsOk
<1> QED BY <1>1, <1>2, <1>3, ReturnLocals DEF LocalsInv

LEMMA LimitLocals ==
  ASSUME NEW r, DOMAIN r = AgentFields, r.forceFinal \in BOOLEAN
  PROVE  LET f == ForceFinalAtLimit(r) IN
         /\ DOMAIN f = AgentFields /\ f.turn = r.turn /\ f.maxTurns = r.maxTurns
         /\ f.continuations = r.continuations /\ f.revisions = r.revisions /\ f.truncations = r.truncations
         /\ f.forceFinal \in BOOLEAN /\ Flag(f.forceFinal) >= Flag(r.forceFinal) /\ f.lateRecovery = r.lateRecovery
         /\ r.toolTurns >= alCfg.toolLimit => f.forceFinal
<1> DEFINE f == ForceFinalAtLimit(r)
<1>1. /\ DOMAIN f = AgentFields /\ f.turn = r.turn /\ f.maxTurns = r.maxTurns
      /\ f.continuations = r.continuations /\ f.revisions = r.revisions /\ f.truncations = r.truncations
      /\ f.lateRecovery = r.lateRecovery
      /\ f.forceFinal = TRUE \/ (f.forceFinal = r.forceFinal /\ ~(r.toolTurns >= alCfg.toolLimit))
  <2>1. CASE r.toolTurns >= alCfg.toolLimit
    <3>1. f = [r EXCEPT !.forceFinal = TRUE, !.reason = "tool_budget"] BY <2>1 DEF ForceFinalAtLimit
    <3> HIDE DEF f
    <3> QED BY <3>1 DEF AgentFields
  <2>2. CASE ~(r.toolTurns >= alCfg.toolLimit)
    <3>1. f = r BY <2>2 DEF ForceFinalAtLimit
    <3> HIDE DEF f
    <3> QED BY <2>2, <3>1
  <2> QED BY <2>1, <2>2
<1> HIDE DEF f
<1>2. f.forceFinal \in BOOLEAN /\ (r.toolTurns >= alCfg.toolLimit => f.forceFinal) BY <1>1
<1>3. Flag(f.forceFinal) >= Flag(r.forceFinal)
  <2>1. CASE f.forceFinal = TRUE
    <3>1. Flag(f.forceFinal) = 1 /\ Flag(r.forceFinal) \in 0..1 BY <2>1, FlagFacts
    <3> QED BY <3>1
  <2>2. CASE f.forceFinal = r.forceFinal
    <3>1. Flag(f.forceFinal) = Flag(r.forceFinal) /\ Flag(r.forceFinal) \in 0..1 BY <2>2, FlagFacts
    <3> QED BY <3>1
  <2> QED BY <1>1, <2>1, <2>2
<1> QED BY <1>1, <1>2, <1>3 DEF f

LEMMA RecoverLocals == ASSUME LocalsInv, RecoverTruncated PROVE LocalsInv'
<1> DEFINE r == [alRun EXCEPT !.truncations = @ + 1, !.toolTurns = @ + 1, !.traces = @ + Len(alResp.uses)]
           f == ForceFinalAtLimit(r)
<1>1. /\ DOMAIN r = AgentFields /\ r.turn = alRun.turn /\ r.maxTurns = alRun.maxTurns
      /\ r.continuations = alRun.continuations /\ r.revisions = alRun.revisions /\ r.truncations = alRun.truncations + 1
      /\ r.forceFinal = alRun.forceFinal /\ r.lateRecovery = alRun.lateRecovery
  BY DEF LocalsInv, LocalsOk, AgentFields
<1>2. alCfg' = alCfg /\ alRun.truncations < 2 /\ (AgentReturn(r, alRun.reason, TRUE) \/ alRun' = ExtendTurns(f))
  BY DEF RecoverTruncated, shouldRecoverTruncatedToolUse, maxTruncatedToolRecoveries
<1> HIDE DEF r
<1>a. /\ alRun.turn \in Nat /\ alRun.maxTurns \in Nat /\ alRun.turn <= alRun.maxTurns
      /\ alRun.continuations \in 0..1 /\ alRun.revisions \in 0..1 /\ alRun.truncations \in 0..1
      /\ alRun.lateRecovery \in BOOLEAN /\ alRun.forceFinal \in BOOLEAN
  BY <1>2 DEF LocalsInv, LocalsOk
<1>b. Flag(alRun.forceFinal) \in 0..1 /\ Flag(alRun.lateRecovery) \in 0..1 BY FlagFacts
<1>c. r.continuations + r.revisions + r.truncations + Flag(r.forceFinal) + Flag(r.lateRecovery)
        >= 1 + alRun.continuations + alRun.revisions + alRun.truncations + Flag(alRun.forceFinal) + Flag(alRun.lateRecovery)
  BY <1>1, <1>a, <1>b
<1>3. LocalsOk(r) BY <1>1, <1>2, <1>a, <1>c, PaidLocals
<1>4. CASE AgentReturn(r, alRun.reason, TRUE) BY <1>2, <1>3, <1>4, ReturnLocals DEF LocalsInv
<1>5. CASE alRun' = ExtendTurns(f)
  <2>1. r.forceFinal \in BOOLEAN BY <1>3 DEF LocalsOk
  <2>2. /\ DOMAIN f = AgentFields /\ f.turn = r.turn /\ f.maxTurns = r.maxTurns
        /\ f.continuations = r.continuations /\ f.revisions = r.revisions /\ f.truncations = r.truncations
        /\ f.forceFinal \in BOOLEAN /\ Flag(f.forceFinal) >= Flag(r.forceFinal) /\ f.lateRecovery = r.lateRecovery
    BY <1>1, <2>1, LimitLocals
  <2> HIDE DEF f
  <2>3. /\ DOMAIN alRun' = AgentFields /\ alRun'.turn = f.turn /\ alRun'.maxTurns \in Nat /\ alRun'.turn <= alRun'.maxTurns
        /\ alRun'.maxTurns <= alRun.maxTurns + 1
        /\ alRun'.continuations = f.continuations /\ alRun'.revisions = f.revisions /\ alRun'.truncations = f.truncations
        /\ alRun'.forceFinal = f.forceFinal /\ alRun'.lateRecovery = f.lateRecovery
    BY <1>1, <1>5, <2>2, ExtendLocals
  <2>4. Flag(alRun'.forceFinal) \in 0..1 /\ Flag(alRun'.lateRecovery) = Flag(alRun.lateRecovery) BY <1>1, <2>2, <2>3, FlagFacts
  <2>5. Flag(alRun'.forceFinal) >= Flag(alRun.forceFinal) BY <1>1, <2>2, <2>3
  <2>6. alRun'.continuations + alRun'.revisions + alRun'.truncations + Flag(alRun'.forceFinal) + Flag(alRun'.lateRecovery)
          >= 1 + alRun.continuations + alRun.revisions + alRun.truncations + Flag(alRun.forceFinal) + Flag(alRun.lateRecovery)
    BY <1>1, <1>a, <1>b, <2>2, <2>3, <2>4, <2>5
  <2> QED BY <1>1, <1>2, <1>a, <2>2, <2>3, <2>6, PaidLocals
<1> QED BY <1>2, <1>4, <1>5

LEMMA StopLocals == ASSUME LocalsInv, StopRun PROVE LocalsInv'
<1>1. LocalsOk([alRun EXCEPT !.text = TRUE]) BY DEF LocalsInv, LocalsOk, AgentFields
<1>2. alCfg' = alCfg BY DEF StopRun
<1>3. \/ \E reason : AgentReturn(alRun, reason, FALSE)
      \/ AgentReturn([alRun EXCEPT !.text = TRUE], "refusal", FALSE)
  BY DEF StopRun
<1> QED BY <1>1, <1>2, <1>3, ReturnLocals DEF LocalsInv

LEMMA OpenToolsLocals == ASSUME LocalsInv, NEW forced \in BOOLEAN, AgentOpenTools(forced) PROVE LocalsInv'
<1>1. alCfg' = alCfg /\ (\/ alRun' = [alRun EXCEPT !.toolTurns = @ + 1, !.forceFinal = @ \/ forced]
                         \/ AgentReturn([alRun EXCEPT !.toolTurns = @ + 1], alRun.reason, TRUE))
  BY DEF AgentOpenTools
<1>2. LocalsOk([alRun EXCEPT !.toolTurns = @ + 1]) BY DEF LocalsInv, LocalsOk, AgentFields
<1>3. LocalsOk([alRun EXCEPT !.toolTurns = @ + 1, !.forceFinal = @ \/ forced])
  BY CfgFacts DEF LocalsInv, LocalsOk, AgentFields, Flag
<1>4. CASE alRun' = [alRun EXCEPT !.toolTurns = @ + 1, !.forceFinal = @ \/ forced]
  BY <1>1, <1>3, <1>4 DEF LocalsInv, LocalsOk
<1> QED BY <1>1, <1>2, <1>4, ReturnLocals DEF LocalsInv

LEMMA ToolLocals == ASSUME LocalsInv, DenyTool \/ OpenToolbox \/ TrackedRunTool \/ StreamRunTool PROVE LocalsInv'
<1>1. alCfg' = alCfg BY DEF DenyTool, OpenToolbox, TrackedRunTool, StreamRunTool, AgentRunTool, AgentFail
<1>2. LocalsOk([alRun EXCEPT !.traces = @ + 1]) BY DEF LocalsInv, LocalsOk, AgentFields
<1>3. \/ alRun' = [alRun EXCEPT !.traces = @ + 1] \/ alRun' = [alRun EXCEPT !.traces = @ + 1, !.toolbox = FALSE]
      \/ AgentReturn(alRun, alRun.reason, TRUE) \/ AgentReturn([alRun EXCEPT !.traces = @ + 1], alRun.reason, TRUE)
  BY DEF DenyTool, OpenToolbox, TrackedRunTool, StreamRunTool, AgentRunTool, AgentFail
<1>4. CASE alRun' = [alRun EXCEPT !.traces = @ + 1] BY <1>1, <1>2, <1>4 DEF LocalsInv, LocalsOk
<1>5. CASE alRun' = [alRun EXCEPT !.traces = @ + 1, !.toolbox = FALSE] BY <1>1, <1>5 DEF LocalsInv, LocalsOk, AgentFields
<1> QED BY <1>1, <1>2, <1>3, <1>4, <1>5, ReturnLocals DEF LocalsInv

LEMMA CloseLocals == ASSUME LocalsInv, NEW late \in BOOLEAN, AgentCloseTools(late) PROVE LocalsInv'
<1> DEFINE r == [alRun EXCEPT !.lateRecovery = TRUE]
           f == ForceFinalAtLimit(alRun)
<1>1. alCfg' = alCfg BY DEF AgentCloseTools, AgentFail
<1>2. \/ \E reason, failed : AgentReturn(alRun, reason, failed)
      \/ alRun' = ExtendTurns(r) /\ ~alRun.lateRecovery
      \/ alRun' = alRun
      \/ alRun' = ExtendTurns(f) /\ ~alRun.forceFinal /\ alRun.toolTurns >= alCfg.toolLimit
  BY DEF AgentCloseTools, AgentFail
<1>3. CASE \E reason, failed : AgentReturn(alRun, reason, failed) BY <1>1, <1>3, ReturnLocals DEF LocalsInv
<1>4. CASE alRun' = alRun BY <1>1, <1>4 DEF LocalsInv, LocalsOk
<1>5. CASE alRun' = ExtendTurns(r) /\ ~alRun.lateRecovery
  <2>1. /\ DOMAIN r = AgentFields /\ r.turn = alRun.turn /\ r.maxTurns = alRun.maxTurns
        /\ r.continuations = alRun.continuations /\ r.revisions = alRun.revisions /\ r.truncations = alRun.truncations
        /\ r.forceFinal = alRun.forceFinal /\ r.lateRecovery = TRUE
    BY DEF LocalsInv, LocalsOk, AgentFields
  <2> HIDE DEF r
  <2>2. /\ DOMAIN alRun' = AgentFields /\ alRun'.turn = r.turn /\ alRun'.maxTurns \in Nat /\ alRun'.turn <= alRun'.maxTurns
        /\ alRun'.maxTurns <= alRun.maxTurns + 1
        /\ alRun'.continuations = r.continuations /\ alRun'.revisions = r.revisions /\ alRun'.truncations = r.truncations
        /\ alRun'.forceFinal = r.forceFinal /\ alRun'.lateRecovery = r.lateRecovery
    BY <1>5, <2>1, ExtendLocals
  <2>3. /\ Flag(alRun'.lateRecovery) = 1 /\ Flag(alRun.lateRecovery) = 0 /\ Flag(alRun.forceFinal) \in 0..1
        /\ Flag(alRun'.forceFinal) = Flag(alRun.forceFinal)
    <3>1. alRun.lateRecovery = FALSE BY <1>5 DEF LocalsInv, LocalsOk
    <3> QED BY <2>1, <2>2, <3>1, FlagFacts
  <2>4. /\ alRun.turn \in Nat /\ alRun.maxTurns \in Nat
        /\ alRun.continuations \in 0..1 /\ alRun.revisions \in 0..1 /\ alRun.truncations \in 0..2
        /\ alRun.lateRecovery \in BOOLEAN /\ alRun.forceFinal \in BOOLEAN
    BY DEF LocalsInv, LocalsOk
  <2>5. alRun'.continuations + alRun'.revisions + alRun'.truncations + Flag(alRun'.forceFinal) + Flag(alRun'.lateRecovery)
          >= 1 + alRun.continuations + alRun.revisions + alRun.truncations + Flag(alRun.forceFinal) + Flag(alRun.lateRecovery)
    BY <2>1, <2>2, <2>3, <2>4
  <2> QED BY <1>1, <2>1, <2>2, <2>4, <2>5, PaidLocals
<1>6. CASE alRun' = ExtendTurns(f) /\ ~alRun.forceFinal /\ alRun.toolTurns >= alCfg.toolLimit
  <2>1. DOMAIN alRun = AgentFields /\ alRun.forceFinal \in BOOLEAN BY DEF LocalsInv, LocalsOk
  <2>2. /\ DOMAIN f = AgentFields /\ f.turn = alRun.turn /\ f.maxTurns = alRun.maxTurns
        /\ f.continuations = alRun.continuations /\ f.revisions = alRun.revisions /\ f.truncations = alRun.truncations
        /\ f.forceFinal \in BOOLEAN /\ f.lateRecovery = alRun.lateRecovery /\ f.forceFinal
    BY <1>6, <2>1, LimitLocals
  <2> HIDE DEF f
  <2>3. /\ DOMAIN alRun' = AgentFields /\ alRun'.turn = f.turn /\ alRun'.maxTurns \in Nat /\ alRun'.turn <= alRun'.maxTurns
        /\ alRun'.maxTurns <= alRun.maxTurns + 1
        /\ alRun'.continuations = f.continuations /\ alRun'.revisions = f.revisions /\ alRun'.truncations = f.truncations
        /\ alRun'.forceFinal = f.forceFinal /\ alRun'.lateRecovery = f.lateRecovery
    BY <1>6, <2>2, ExtendLocals
  <2>4. /\ Flag(alRun'.forceFinal) = 1 /\ Flag(alRun.forceFinal) = 0 /\ Flag(alRun.lateRecovery) \in 0..1
        /\ Flag(alRun'.lateRecovery) = Flag(alRun.lateRecovery)
    <3>1. alRun.forceFinal = FALSE /\ alRun'.forceFinal = TRUE BY <1>6, <2>1, <2>2, <2>3
    <3> QED BY <2>2, <2>3, <3>1, FlagFacts
  <2>5. /\ alRun.turn \in Nat /\ alRun.maxTurns \in Nat
        /\ alRun.continuations \in 0..1 /\ alRun.revisions \in 0..1 /\ alRun.truncations \in 0..2
        /\ alRun.lateRecovery \in BOOLEAN /\ alRun.forceFinal \in BOOLEAN
    BY DEF LocalsInv, LocalsOk
  <2>6. alRun'.continuations + alRun'.revisions + alRun'.truncations + Flag(alRun'.forceFinal) + Flag(alRun'.lateRecovery)
          >= 1 + alRun.continuations + alRun.revisions + alRun.truncations + Flag(alRun.forceFinal) + Flag(alRun.lateRecovery)
    <3>1. alRun'.continuations = alRun.continuations /\ alRun'.revisions = alRun.revisions /\ alRun'.truncations = alRun.truncations
      BY <2>2, <2>3
    <3> QED BY <2>4, <2>5, <3>1
  <2> QED BY <1>1, <2>2, <2>3, <2>5, <2>6, PaidLocals
<1> QED BY <1>2, <1>3, <1>4, <1>5, <1>6

\* Every step keeps the counters within their limits.
LEMMA LocalsStep == ASSUME LocalsInv, AgentNext PROVE LocalsInv'
<1>1. CASE TrackedOpen \/ StreamOpen BY <1>1, OpenLocals DEF TrackedOpen, StreamOpen
<1>2. CASE AgentTurnLimit BY <1>2, ReturnLocals DEF AgentTurnLimit, LocalsInv
<1>3. CASE TrackedCall BY <1>3, TrackedCallLocals
<1>4. CASE StreamCall BY <1>4, CallLocals DEF StreamCall, LocalsInv
<1>5. CASE EmptyResponse BY <1>5, EmptyLocals
<1>6. CASE ContinueResponse BY <1>6, ContinueLocals
<1>7. CASE UNCHANGED <<alCfg, alRun>> BY <1>7 DEF LocalsInv, LocalsOk
<1>8. CASE ValidateDraft BY <1>8, ValidateLocals
<1>9. CASE TrackedPersist BY <1>9, PersistLocals DEF TrackedPersist
<1>10. CASE StreamPersist BY <1>10, PersistLocals DEF StreamPersist
<1>11. CASE RecoverTruncated BY <1>11, RecoverLocals
<1>12. CASE StopRun BY <1>12, StopLocals
<1>13. CASE TrackedOpenTools BY <1>13, OpenToolsLocals DEF TrackedOpenTools
<1>14. CASE StreamOpenTools BY <1>14, OpenToolsLocals DEF StreamOpenTools
<1>15. CASE DenyTool \/ OpenToolbox \/ TrackedRunTool \/ StreamRunTool BY <1>15, ToolLocals
<1>16. CASE AgentNoBlocks BY <1>16, ReturnLocals DEF AgentNoBlocks, LocalsInv
<1>17. CASE TrackedCloseTools BY <1>17, CloseLocals DEF TrackedCloseTools
<1>18. CASE StreamCloseTools BY <1>18, CloseLocals DEF StreamCloseTools
<1> QED
  BY <1>1, <1>2, <1>3, <1>4, <1>5, <1>6, <1>7, <1>8, <1>9, <1>10, <1>11, <1>12, <1>13, <1>14, <1>15, <1>16, <1>17, <1>18
  DEF AgentNext, AgentStep, TakeResponse, SkipValidation, AgentCancel, AgentDeadline
-----------------------------------------------------------------------------
\* The response in hand.

LEMMA RespKept ==
  ASSUME RespInv, RespOk(alResp'), \/ alPc' = "end"
                                   \/ /\ alPc # "end" /\ alRun'.reason \in {alRun.reason, "tool_budget"} /\ alRun.reason # "empty_output"
                                   \/ /\ alPc # "end" /\ alRun'.reason = alRun.reason /\ alRun'.fallback = alRun.fallback
                                      /\ alResp'.uses = alResp.uses /\ alResp'.stop = alResp.stop /\ alPc' \in {"draft", "persist", "stop"}
  PROVE  RespInv'
BY DEF RespInv

LEMMA OpenResp == ASSUME LocalsInv, RespInv, AgentOpen PROVE RespInv'
<1>1. CASE AgentFail BY <1>1, RespKept DEF AgentFail, AgentReturn, RespInv
<1>2. CASE ~AgentFail
  <2>1. alPc = "begin" /\ alResp' = alResp /\ alRun'.reason = alRun.reason
    BY <1>2 DEF AgentOpen, LocalsInv, LocalsOk, AgentFields
  <2> QED BY <2>1, RespKept DEF RespInv
<1> QED BY <1>1, <1>2

LEMMA ResponsesOk == \A r \in AgentResponses : RespOk(r)
BY AgentResponsesTyped DEF RespOk

LEMMA CallResp ==
  ASSUME LocalsInv, RespInv, NEW r, DOMAIN r = AgentFields, r.reason = alRun.reason, AgentCall(r)
  PROVE  RespInv'
<1>1. alPc = "turn" BY DEF AgentCall
<1>2. CASE alPc' = "end" BY <1>2, RespKept DEF AgentCall, AgentReturn, RespInv
<1>3. CASE alPc' # "end"
  <2>1. alResp' \in AgentResponses /\ alRun'.reason = r.reason BY <1>3 DEF AgentCall, AgentReturn, AgentFields
  <2>2. RespOk(alResp') BY <2>1, ResponsesOk
  <2> QED BY <1>1, <2>1, <2>2, RespKept DEF RespInv
<1> QED BY <1>2, <1>3

LEMMA EmptyResp == ASSUME LocalsInv, RespInv, EmptyResponse PROVE RespInv'
<1>1. CASE alPc' = "end" BY <1>1, RespKept DEF EmptyResponse, AgentReturn, RespInv
<1>2. CASE alPc' # "end"
  <2>1. /\ alResp' = [alResp EXCEPT !.text = TRUE] /\ alRun' = [alRun EXCEPT !.fallback = TRUE, !.reason = "empty_output"]
        /\ alPc' = "draft" /\ alResp.stop \in {"end_turn", "max_tokens"} /\ alResp.uses = <<>>
    BY <1>2 DEF EmptyResponse, AgentReturn, EmptyOutput, hasVisibleOutput
  <2>2. alRun'.fallback = TRUE /\ alRun'.reason = "empty_output" BY <2>1 DEF LocalsInv, LocalsOk, AgentFields
  <2>3. RespOk(alResp') /\ alResp'.uses = <<>> /\ alResp'.stop = alResp.stop BY <2>1 DEF RespInv, RespOk
  <2> QED BY <2>1, <2>2, <2>3 DEF RespInv
<1> QED BY <1>1, <1>2

LEMMA ContinueResp == ASSUME LocalsInv, RespInv, ContinueResponse PROVE RespInv'
<1>1. alPc = "response" /\ alResp' = alResp BY DEF ContinueResponse
<1>2. alRun'.reason = alRun.reason
  BY DEF ContinueResponse, ExtendTurns, LocalsInv, LocalsOk, AgentFields
<1> QED BY <1>1, <1>2, RespKept DEF RespInv

LEMMA TakeResp == ASSUME RespInv, TakeResponse PROVE RespInv'
<1>1. alPc = "response" /\ alRun' = alRun /\ alResp' = mergeContinuationText(alResp) BY DEF TakeResponse
<1>2. RespOk(alResp')
  <2>1. CASE alRun.pending
    <3>1. alResp' = [alResp EXCEPT !.text = TRUE, !.uses = <<>>] BY <1>1, <2>1 DEF mergeContinuationText
    <3>2. DOMAIN alResp' = {"stop", "text", "uses"} /\ alResp'.text = TRUE /\ alResp'.uses = <<>> BY <3>1 DEF RespInv, RespOk
    <3>3. <<>> \in Seq(STRING) OBVIOUS
    <3>4. alResp'.uses \in Seq(STRING) BY <3>2, <3>3
    <3> QED BY <3>2, <3>4 DEF RespOk
  <2>2. CASE ~alRun.pending BY <1>1, <2>2 DEF mergeContinuationText, RespInv
  <2> QED BY <2>1, <2>2
<1> QED BY <1>1, <1>2, RespKept DEF RespInv

LEMMA ValidateResp == ASSUME LocalsInv, RespInv, ValidateDraft PROVE RespInv'
<1>1. alPc = "draft" /\ alPc' \in {"end", "persist", "turn"} BY DEF ValidateDraft, AgentReturn
<1>2. RespOk(alResp') /\ alResp'.uses = alResp.uses /\ alResp'.stop = alResp.stop
  BY DEF ValidateDraft, RespInv, RespOk
<1>3. CASE alPc' = "end" BY <1>2, <1>3, RespKept
<1>4. CASE alPc' = "persist"
  <2>1. alRun'.reason = alRun.reason /\ alRun'.fallback = alRun.fallback
    BY <1>4 DEF ValidateDraft, AgentReturn, LocalsInv, LocalsOk, AgentFields
  <2> QED BY <1>1, <1>2, <1>4, <2>1, RespKept
<1>5. CASE alPc' = "turn"
  <2>1. alRun'.reason = alRun.reason /\ ~alRun.fallback
    BY <1>5 DEF ValidateDraft, AgentReturn, Revisable, LocalsInv, LocalsOk, AgentFields
  <2> QED BY <1>1, <1>2, <2>1, RespKept DEF RespInv
<1> QED BY <1>1, <1>3, <1>4, <1>5

LEMMA PersistResp == ASSUME LocalsInv, RespInv, NEW shown, AgentPersist(shown) PROVE RespInv'
<1>1. alPc = "persist" /\ alPc' \in {"stop", "end"} /\ alResp' = alResp BY DEF AgentPersist, AgentReturn, AgentFail
<1>2. alPc' = "stop" => alRun'.reason = alRun.reason /\ alRun'.fallback = alRun.fallback
  BY DEF AgentPersist, AgentReturn, AgentFail, LocalsInv, LocalsOk, AgentFields
<1> QED BY <1>1, <1>2, RespKept DEF RespInv

LEMMA RecoverResp == ASSUME LocalsInv, RespInv, RecoverTruncated PROVE RespInv'
<1>1. alPc = "stop" /\ alPc' \in {"turn", "end"} /\ alResp' = alResp /\ alResp.uses # <<>>
  BY DEF RecoverTruncated, AgentReturn, shouldRecoverTruncatedToolUse
<1>2. alPc' = "turn" => alRun'.reason \in {alRun.reason, "tool_budget"}
  BY DEF RecoverTruncated, AgentReturn, ForceFinalAtLimit, ExtendTurns, LocalsInv, LocalsOk, AgentFields
<1> QED BY <1>1, <1>2, RespKept DEF RespInv

LEMMA OpenToolsResp == ASSUME LocalsInv, RespInv, NEW forced, AgentOpenTools(forced) PROVE RespInv'
<1>1. alPc = "stop" /\ alPc' \in {"tools", "end"} /\ alResp' = alResp /\ alResp.stop = "tool_use"
  BY DEF AgentOpenTools, AgentReturn
<1>2. alPc' = "tools" => alRun'.reason = alRun.reason
  BY DEF AgentOpenTools, AgentReturn, LocalsInv, LocalsOk, AgentFields
<1> QED BY <1>1, <1>2, RespKept DEF RespInv

LEMMA ToolResp == ASSUME LocalsInv, RespInv, DenyTool \/ OpenToolbox \/ TrackedRunTool \/ StreamRunTool PROVE RespInv'
<1>1. alPc = "tools" /\ alResp' = alResp /\ (alPc' = "end" \/ alPc' = "tools")
  BY DEF DenyTool, OpenToolbox, TrackedRunTool, StreamRunTool, Runnable, AgentRunTool, AgentFail, AgentReturn
<1>2. alPc' = "tools" => alRun'.reason = alRun.reason
  BY DEF DenyTool, OpenToolbox, TrackedRunTool, StreamRunTool, AgentRunTool, AgentFail, AgentReturn, LocalsInv, LocalsOk, AgentFields
<1> QED BY <1>1, <1>2, RespKept DEF RespInv

LEMMA CloseResp == ASSUME LocalsInv, RespInv, NEW late, AgentCloseTools(late) PROVE RespInv'
<1>1. alPc = "tools" /\ alResp' = alResp /\ alPc' \in {"turn", "end"}
  BY DEF AgentCloseTools, AgentFail, AgentReturn
<1>2. alPc' = "turn" => alRun'.reason \in {alRun.reason, "tool_budget"}
  BY DEF AgentCloseTools, AgentFail, AgentReturn, ForceFinalAtLimit, ExtendTurns, LocalsInv, LocalsOk, AgentFields
<1> QED BY <1>1, <1>2, RespKept DEF RespInv

LEMMA RespStep == ASSUME LocalsInv, RespInv, AgentNext PROVE RespInv'
<1>0. DOMAIN alRun = AgentFields BY DEF LocalsInv, LocalsOk
<1>1. CASE TrackedOpen \/ StreamOpen BY <1>1, OpenResp DEF TrackedOpen, StreamOpen
<1>2. CASE AgentTurnLimit \/ StopRun \/ AgentNoBlocks
  <2>1. alPc' = "end" /\ alResp' = alResp BY <1>2 DEF AgentTurnLimit, StopRun, AgentNoBlocks, AgentReturn
  <2> QED BY <2>1, RespKept DEF RespInv
<1>3. CASE TrackedCall
  <2> DEFINE r == [alRun EXCEPT !.forceFinal = @ \/ (alCfg.deadline /\ alEnv.late)]
  <2>1. DOMAIN r = AgentFields /\ r.reason = alRun.reason BY <1>0 DEF AgentFields
  <2>2. AgentCall(r) BY <1>3 DEF TrackedCall
  <2> HIDE DEF r
  <2> QED BY <2>1, <2>2, CallResp
<1>4. CASE StreamCall BY <1>0, <1>4, CallResp DEF StreamCall
<1>5. CASE EmptyResponse BY <1>5, EmptyResp
<1>6. CASE ContinueResponse BY <1>6, ContinueResp
<1>7. CASE TakeResponse BY <1>7, TakeResp
<1>8. CASE ValidateDraft BY <1>8, ValidateResp
<1>9. CASE TrackedPersist BY <1>9, PersistResp DEF TrackedPersist
<1>10. CASE StreamPersist BY <1>10, PersistResp DEF StreamPersist
<1>11. CASE RecoverTruncated BY <1>11, RecoverResp
<1>12. CASE SkipValidation BY <1>12, RespKept DEF SkipValidation, RespInv
<1>13. CASE TrackedOpenTools BY <1>13, OpenToolsResp DEF TrackedOpenTools
<1>14. CASE StreamOpenTools BY <1>14, OpenToolsResp DEF StreamOpenTools
<1>15. CASE DenyTool \/ OpenToolbox \/ TrackedRunTool \/ StreamRunTool BY <1>15, ToolResp
<1>16. CASE AgentCancel \/ AgentDeadline BY <1>16 DEF AgentCancel, AgentDeadline, RespInv
<1>17. CASE TrackedCloseTools BY <1>17, CloseResp DEF TrackedCloseTools
<1>18. CASE StreamCloseTools BY <1>18, CloseResp DEF StreamCloseTools
<1> QED
  BY <1>1, <1>2, <1>3, <1>4, <1>5, <1>6, <1>7, <1>8, <1>9, <1>10, <1>11, <1>12, <1>13, <1>14, <1>15, <1>16, <1>17, <1>18
  DEF AgentNext, AgentStep
-----------------------------------------------------------------------------
\* The text on the transport.

LEMMA ShownKept ==
  ASSUME ShownInv, UNCHANGED alCfg, DOMAIN alEnv' = DOMAIN alEnv, alPc' # "persist",
         alCfg.validator => alEnv'.shown \subseteq alEnv.shown \cup {"checked"}
  PROVE  ShownInv'
BY DEF ShownInv

LEMMA CallShown == ASSUME ShownInv, NEW r, AgentCall(r) PROVE ShownInv'
<1>1. alPc' # "persist" /\ alCfg' = alCfg BY DEF AgentCall, AgentReturn
<1>2. DOMAIN alEnv' = DOMAIN alEnv /\ (alCfg.validator => alEnv'.shown = alEnv.shown)
  BY DEF AgentCall, StreamedText, ShownInv
<1> QED BY <1>1, <1>2, ShownKept

LEMMA EmptyShown == ASSUME ShownInv, EmptyResponse PROVE ShownInv'
<1>1. alPc' # "persist" /\ alCfg' = alCfg BY DEF EmptyResponse, AgentReturn
<1>2. DOMAIN alEnv' = DOMAIN alEnv /\ (alCfg.validator => alEnv'.shown = alEnv.shown)
  BY DEF EmptyResponse, ShownInv
<1> QED BY <1>1, <1>2, ShownKept

LEMMA ValidateShown == ASSUME LocalsInv, ShownInv, ValidateDraft PROVE ShownInv'
<1>1. alEnv' = alEnv /\ alCfg' = alCfg BY DEF ValidateDraft
<1>2. alPc' = "persist" => alRun'.checked = TRUE
  BY DEF ValidateDraft, AgentReturn, LocalsInv, LocalsOk, AgentFields
<1> QED BY <1>1, <1>2 DEF ShownInv

LEMMA PersistShown ==
  ASSUME ShownInv, NEW shown, AgentPersist(shown), alCfg.validator => shown \subseteq alEnv.shown \cup {"checked"}
  PROVE  ShownInv'
<1>1. alPc' # "persist" /\ alCfg' = alCfg BY DEF AgentPersist, AgentReturn, AgentFail
<1>2. DOMAIN alEnv' = DOMAIN alEnv /\ (alEnv'.shown = shown \/ alEnv' = alEnv) BY DEF AgentPersist, AgentFail, ShownInv
<1> QED BY <1>1, <1>2, ShownKept

LEMMA StopShown == ASSUME ShownInv, StopRun PROVE ShownInv'
<1>1. alPc' # "persist" /\ alCfg' = alCfg BY DEF StopRun, AgentReturn
<1>2. DOMAIN alEnv' = DOMAIN alEnv /\ (alCfg.validator => alEnv'.shown = alEnv.shown)
  BY DEF StopRun, ShownInv
<1> QED BY <1>1, <1>2, ShownKept

LEMMA ToolShown == ASSUME ShownInv, TrackedRunTool \/ StreamRunTool PROVE ShownInv'
<1>1. alPc' # "persist" /\ alCfg' = alCfg BY DEF TrackedRunTool, StreamRunTool, AgentRunTool, AgentFail, AgentReturn
<1>2. DOMAIN alEnv' = DOMAIN alEnv /\ alEnv'.shown = alEnv.shown
  BY DEF TrackedRunTool, StreamRunTool, AgentRunTool, AgentFail, ShownInv
<1> QED BY <1>1, <1>2, ShownKept

\* Every step leaves a validated run without raw text on the transport.
LEMMA ShownStep == ASSUME LocalsInv, ShownInv, AgentNext PROVE ShownInv'
<1>1. CASE UNCHANGED <<alCfg, alEnv>> /\ alPc' # "persist" BY <1>1, ShownKept
<1>2. CASE TrackedCall BY <1>2, CallShown DEF TrackedCall
<1>3. CASE StreamCall BY <1>3, CallShown DEF StreamCall
<1>4. CASE EmptyResponse BY <1>4, EmptyShown
<1>5. CASE ValidateDraft BY <1>5, ValidateShown
<1>6. CASE SkipValidation BY <1>6 DEF SkipValidation, ShownInv
<1>7. CASE TrackedPersist BY <1>7, PersistShown DEF TrackedPersist
<1>8. CASE StreamPersist
  <2> DEFINE s == IF alCfg.validator /\ alResp.text
                    THEN alEnv.shown \cup {IF alRun.checked THEN "checked" ELSE "raw"} ELSE alEnv.shown
  <2>1. AgentPersist(s) BY <1>8 DEF StreamPersist
  <2>2. alPc = "persist" BY <2>1 DEF AgentPersist
  <2>3. alCfg.validator => s \subseteq alEnv.shown \cup {"checked"} BY <2>2 DEF ShownInv
  <2> HIDE DEF s
  <2> QED BY <2>1, <2>3, PersistShown
<1>9. CASE StopRun BY <1>9, StopShown
<1>10. CASE TrackedRunTool \/ StreamRunTool BY <1>10, ToolShown
<1>11. CASE AgentCancel \/ AgentDeadline
  <2>1. UNCHANGED <<alCfg, alPc, alRun, alResp>> /\ DOMAIN alEnv' = DOMAIN alEnv /\ alEnv'.shown = alEnv.shown
    BY <1>11 DEF AgentCancel, AgentDeadline, ShownInv
  <2> QED BY <2>1 DEF ShownInv
<1>12. CASE TrackedOpen \/ StreamOpen \/ AgentTurnLimit \/ AgentNoBlocks
  BY <1>1, <1>12 DEF TrackedOpen, StreamOpen, AgentOpen, AgentTurnLimit, AgentNoBlocks, AgentFail, AgentReturn
<1>13. CASE ContinueResponse \/ TakeResponse \/ RecoverTruncated
  BY <1>1, <1>13 DEF ContinueResponse, TakeResponse, RecoverTruncated, AgentReturn
<1>14. CASE TrackedOpenTools \/ StreamOpenTools
  BY <1>1, <1>14 DEF TrackedOpenTools, StreamOpenTools, AgentOpenTools, AgentReturn
<1>15. CASE DenyTool \/ OpenToolbox BY <1>1, <1>15 DEF DenyTool, OpenToolbox
<1>16. CASE TrackedCloseTools \/ StreamCloseTools
  BY <1>1, <1>16 DEF TrackedCloseTools, StreamCloseTools, AgentCloseTools, AgentFail, AgentReturn
<1> QED
  BY <1>2, <1>3, <1>4, <1>5, <1>6, <1>7, <1>8, <1>9, <1>10, <1>11, <1>12, <1>13, <1>14, <1>15, <1>16 DEF AgentNext, AgentStep
-----------------------------------------------------------------------------
\* The wire array.

LEMMA MsgFacts ==
  ASSUME NEW role \in {"user", "assistant"}, NEW uses \in Nat, NEW results \in Nat
  PROVE  LET m == AgentMsg(role, uses, results) IN
         m \in AgentMsgType /\ m.role = role /\ m.uses = uses /\ m.results = results
BY DEF AgentMsg, AgentMsgType

LEMMA TextFacts ==
  /\ UserText \in AgentMsgType /\ UserText.role = "user" /\ UserText.uses = 0
  /\ AssistantText \in AgentMsgType /\ AssistantText.uses = 0
BY MsgFacts DEF UserText, AssistantText

LEMMA Appended ==
  ASSUME NEW s \in Seq(AgentMsgType), NEW m \in AgentMsgType
  PROVE  LET t == Append(s, m) IN
         /\ t \in Seq(AgentMsgType) /\ t # <<>> /\ Len(t) = Len(s) + 1 /\ Len(s) \in Nat
         /\ t[Len(t)] = m /\ \A i \in 1..Len(s) : t[i] = s[i]
OBVIOUS

LEMMA UsesFacts == \A m \in AgentMsgType : m.uses \in Nat
BY DEF AgentMsgType

\* A message behind an answered array leaves its own calls to answer.
LEMMA AppendAsks ==
  ASSUME NEW s \in Seq(AgentMsgType), Awaits(s, 0), NEW m \in AgentMsgType
  PROVE  Awaits(Append(s, m), m.uses)
<1> DEFINE t == Append(s, m)
<1>1. /\ Len(t) = Len(s) + 1 /\ Len(s) \in Nat /\ t[Len(t)] = m /\ \A i \in 1..Len(s) : t[i] = s[i]
  BY Appended
<1> HIDE DEF t
<1>2. ASSUME NEW i \in 1..Len(t), t[i].uses > 0
      PROVE  \/ i < Len(t) /\ t[i + 1].role = "user" /\ t[i + 1].results = t[i].uses
             \/ i = Len(t) /\ t[i].uses = m.uses
  <2>1. CASE i = Len(t) BY <1>1, <2>1
  <2>2. CASE i # Len(t)
    <3>1. i \in 1..Len(s) /\ t[i] = s[i] BY <1>1, <2>2
    <3>2. i < Len(s) /\ s[i + 1].role = "user" /\ s[i + 1].results = s[i].uses BY <1>2, <3>1 DEF Awaits
    <3>3. i + 1 \in 1..Len(s) BY <1>1, <3>1, <3>2
    <3>4. t[i + 1] = s[i + 1] BY <1>1, <3>3
    <3> QED BY <1>1, <3>1, <3>2, <3>4
  <2> QED BY <2>1, <2>2
<1>3. Awaits(t, m.uses) BY <1>2 DEF Awaits
<1> QED BY <1>3 DEF t

\* A user message with as many results answers the calls of the last one.
LEMMA AppendAnswers ==
  ASSUME NEW s \in Seq(AgentMsgType), NEW n \in Nat, Awaits(s, n),
         NEW m \in AgentMsgType, m.role = "user", m.results = n, m.uses = 0
  PROVE  Awaits(Append(s, m), 0)
<1> DEFINE t == Append(s, m)
<1>1. /\ Len(t) = Len(s) + 1 /\ Len(s) \in Nat /\ t[Len(t)] = m /\ \A i \in 1..Len(s) : t[i] = s[i]
  BY Appended
<1> HIDE DEF t
<1>2. ASSUME NEW i \in 1..Len(t), t[i].uses > 0
      PROVE  i < Len(t) /\ t[i + 1].role = "user" /\ t[i + 1].results = t[i].uses
  <2>1. i # Len(t) BY <1>1, <1>2
  <2>2. i \in 1..Len(s) /\ t[i] = s[i] BY <1>1, <2>1
  <2>3. \/ i < Len(s) /\ s[i + 1].role = "user" /\ s[i + 1].results = s[i].uses
        \/ i = Len(s) /\ s[i].uses = n
    BY <1>2, <2>2 DEF Awaits
  <2>4. CASE i = Len(s) /\ s[i].uses = n BY <1>1, <2>2, <2>4
  <2>5. CASE i < Len(s) /\ s[i + 1].role = "user" /\ s[i + 1].results = s[i].uses
    <3>1. i + 1 \in 1..Len(s) BY <1>1, <2>2, <2>5
    <3>2. t[i + 1] = s[i + 1] BY <1>1, <3>1
    <3> QED BY <1>1, <2>2, <2>5, <3>2
  <2> QED BY <2>3, <2>4, <2>5
<1>3. Awaits(t, 0) BY <1>2 DEF Awaits
<1> QED BY <1>3 DEF t

\* An answered array awaits whatever it is asked about.
LEMMA AnsweredAwaits ==
  ASSUME NEW s \in Seq(AgentMsgType), NEW n, Awaits(s, 0)
  PROVE  Awaits(s, n)
BY UsesFacts DEF Awaits

\* A text of the assistant and a user text behind it.
LEMMA ExchangeAppended ==
  ASSUME NEW s \in Seq(AgentMsgType), NEW a \in AgentMsgType, a.uses = 0, Awaits(s, 0), s # <<>>
  PROVE  LET t == s \o <<a, UserText>> IN
         /\ t \in Seq(AgentMsgType) /\ t # <<>> /\ Awaits(t, 0) /\ t[Len(t)].role = "user"
         /\ Len(t) = Len(s) + 2 /\ \A i \in 1..Len(s) : t[i] = s[i]
<1> DEFINE u == Append(s, a)
           t == Append(u, UserText)
           w == s \o <<a, UserText>>
<1>1. w = t BY TextFacts
<1>2. /\ u \in Seq(AgentMsgType) /\ Awaits(u, 0) /\ Len(u) = Len(s) + 1 /\ Len(s) \in Nat
      /\ \A i \in 1..Len(s) : u[i] = s[i]
  BY AppendAsks, Appended
<1> HIDE DEF u
<1>3. /\ t \in Seq(AgentMsgType) /\ t # <<>> /\ Len(t) = Len(u) + 1 /\ t[Len(t)] = UserText /\ \A i \in 1..Len(u) : t[i] = u[i]
  BY <1>2, TextFacts, Appended
<1>4. Awaits(t, 0) BY <1>2, TextFacts, AppendAsks
<1> HIDE DEF t, w
<1>5. /\ w \in Seq(AgentMsgType) /\ w # <<>> /\ Awaits(w, 0) /\ w[Len(w)].role = "user"
      /\ Len(w) = Len(s) + 2 /\ \A i \in 1..Len(s) : w[i] = s[i]
  BY <1>1, <1>2, <1>3, <1>4, TextFacts
<1> QED BY <1>5 DEF w

\* A step that ends the run, or leaves the array alone between like places.
LEMMA WireKept ==
  ASSUME WireInv, UNCHANGED alConvo, alPc' = "end" \/ (alPc \in Asking /\ alPc' \in Asking)
  PROVE  WireInv'
BY DEF WireInv, Asking, Responding

\* A turn begins on an answered array that ends on a user message.
LEMMA WireTurns ==
  ASSUME alPc' \in {"turn", "end"}, alConvo' \in Seq(AgentMsgType), Awaits(alConvo', 0),
         alConvo' # <<>>, alConvo'[Len(alConvo')].role = "user"
  PROVE  WireInv'
BY DEF WireInv, Asking, Responding

LEMMA UsesLen == ASSUME RespInv PROVE Len(alResp.uses) \in Nat /\ (Len(alResp.uses) = 0 <=> alResp.uses = <<>>)
BY DEF RespInv, RespOk

LEMMA OpenWire == ASSUME WireInv, AgentOpen PROVE WireInv'
<1>1. CASE AgentFail BY <1>1, WireKept DEF AgentFail, AgentReturn
<1>2. CASE ~AgentFail
  <2>1. alPc = "begin" /\ alConvo' = Append(alConvo, UserText) /\ alPc' = "turn" BY <1>2 DEF AgentOpen, AgentWindow
  <2>2. alConvo \in Seq(AgentMsgType) /\ Awaits(alConvo, 0) BY <2>1 DEF WireInv
  <2>3. Awaits(alConvo', 0) BY <2>1, <2>2, TextFacts, AppendAsks
  <2>4. alConvo' \in Seq(AgentMsgType) /\ alConvo' # <<>> /\ alConvo'[Len(alConvo')] = UserText
    BY <2>1, <2>2, TextFacts, Appended
  <2> QED BY <2>1, <2>3, <2>4, TextFacts, WireTurns
<1> QED BY <1>1, <1>2

LEMMA ContinueWire == ASSUME WireInv, ContinueResponse PROVE WireInv'
<1>1. alPc = "response" /\ alPc' = "turn" /\ alConvo' = alConvo \o <<AssistantText, UserText>> BY DEF ContinueResponse
<1>2. alConvo \in Seq(AgentMsgType) /\ Awaits(alConvo, 0) /\ alConvo # <<>> BY <1>1 DEF WireInv, Asking
<1>3. alConvo' \in Seq(AgentMsgType) /\ alConvo' # <<>> /\ Awaits(alConvo', 0) /\ alConvo'[Len(alConvo')].role = "user"
  BY <1>1, <1>2, TextFacts, ExchangeAppended
<1> QED BY <1>1, <1>3, WireTurns

LEMMA ValidateWire == ASSUME RespInv, WireInv, ValidateDraft PROVE WireInv'
<1>1. alPc = "draft" BY DEF ValidateDraft
<1>2. CASE alConvo' = alConvo /\ alPc' \in {"end", "persist"} BY <1>1, <1>2, WireKept DEF Asking
<1>3. CASE ~(alConvo' = alConvo /\ alPc' \in {"end", "persist"})
  <2> DEFINE a == AgentMsg("assistant", Len(alResp.uses), 0)
  <2>1. alPc' = "turn" /\ alResp.uses = <<>> /\ alConvo' = alConvo \o <<a, UserText>>
    BY <1>3 DEF ValidateDraft, AgentReturn, Revisable
  <2>2. a \in AgentMsgType /\ a.uses = 0 BY <2>1, UsesLen, MsgFacts
  <2>3. alConvo \in Seq(AgentMsgType) /\ Awaits(alConvo, 0) /\ alConvo # <<>> BY <1>1 DEF WireInv, Asking
  <2> HIDE DEF a
  <2>4. alConvo' \in Seq(AgentMsgType) /\ alConvo' # <<>> /\ Awaits(alConvo', 0) /\ alConvo'[Len(alConvo')].role = "user"
    BY <2>1, <2>2, <2>3, ExchangeAppended
  <2> QED BY <2>1, <2>4, WireTurns
<1> QED BY <1>2, <1>3

LEMMA PersistWire == ASSUME RespInv, WireInv, NEW shown, AgentPersist(shown) PROVE WireInv'
<1>1. alPc = "persist" /\ alPc' \in {"stop", "end"} BY DEF AgentPersist, AgentReturn, AgentFail
<1>2. CASE alConvo' = alConvo /\ alPc' = "end" BY <1>2, WireKept
<1>3. CASE ~(alConvo' = alConvo /\ alPc' = "end")
  <2> DEFINE row == AgentMsg("assistant", Len(alResp.uses), 0)
  <2>1. alConvo' = Append(alConvo, row) /\ alResp' = alResp BY <1>3 DEF AgentPersist, AgentReturn, AgentFail
  <2>2. row \in AgentMsgType /\ row.uses = Len(alResp.uses) BY UsesLen, MsgFacts
  <2>3. alConvo \in Seq(AgentMsgType) /\ Awaits(alConvo, 0) BY <1>1 DEF WireInv, Asking
  <2> HIDE DEF row
  <2>4. alConvo' \in Seq(AgentMsgType) /\ Awaits(alConvo', Len(alResp'.uses)) BY <2>1, <2>2, <2>3, Appended, AppendAsks
  <2> QED BY <1>1, <2>4 DEF WireInv, Asking
<1> QED BY <1>2, <1>3

\* The answers of a round join the array.
LEMMA AnswerWire ==
  ASSUME RespInv, WireInv, alPc \in Responding, alPc' \in {"turn", "end"},
         alConvo' = Append(alConvo, AgentMsg("user", 0, Len(alResp.uses)))
  PROVE  WireInv'
<1> DEFINE m == AgentMsg("user", 0, Len(alResp.uses))
<1>1. m \in AgentMsgType /\ m.role = "user" /\ m.results = Len(alResp.uses) /\ m.uses = 0 BY UsesLen, MsgFacts
<1>2. alConvo \in Seq(AgentMsgType) /\ Awaits(alConvo, Len(alResp.uses)) BY DEF WireInv
<1>3. alConvo' = Append(alConvo, m) OBVIOUS
<1> HIDE DEF m
<1>4. Awaits(alConvo', 0) BY <1>1, <1>2, <1>3, UsesLen, AppendAnswers
<1>5. alConvo' \in Seq(AgentMsgType) /\ alConvo' # <<>> /\ alConvo'[Len(alConvo')] = m BY <1>1, <1>2, <1>3, Appended
<1> QED BY <1>1, <1>4, <1>5, WireTurns

LEMMA CloseWire == ASSUME RespInv, WireInv, NEW late, AgentCloseTools(late) PROVE WireInv'
<1>1. alPc = "tools" /\ alPc' \in {"turn", "end"} BY DEF AgentCloseTools, AgentReturn, AgentFail
<1>2. alResults \in Seq(ToolOutcomes) /\ Len(alResults) <= Len(alResp.uses) /\ ~(Len(alResults) < Len(alResp.uses))
  BY <1>1 DEF WireInv, AgentCloseTools, MoreBlocks
<1>3. Len(alResults) = Len(alResp.uses) BY <1>2, UsesLen
<1>4. (alConvo' = alConvo /\ alPc' = "end") \/ alConvo' = Append(alConvo, AgentMsg("user", 0, Len(alResults)))
  BY DEF AgentCloseTools, AgentFail, AgentReturn
<1> QED BY <1>1, <1>3, <1>4, WireKept, AnswerWire DEF Responding

\* A round opens on an empty list of results.
LEMMA OpenToolsWire == ASSUME RespInv, WireInv, NEW forced, AgentOpenTools(forced) PROVE WireInv'
<1>1. alPc = "stop" /\ alConvo' = alConvo /\ alResp' = alResp /\ alPc' \in {"tools", "end"} /\ alResults' = <<>>
  BY DEF AgentOpenTools, AgentReturn
<1>2. alResults' \in Seq(ToolOutcomes) /\ Len(alResults') <= Len(alResp'.uses) BY <1>1, UsesLen
<1> QED BY <1>1, <1>2 DEF WireInv, Asking, Responding

LEMMA ToolWire == ASSUME RespInv, WireInv, DenyTool \/ OpenToolbox \/ TrackedRunTool \/ StreamRunTool PROVE WireInv'
<1>1. alPc = "tools" /\ alConvo' = alConvo /\ alResp' = alResp /\ alPc' \in {"tools", "end"}
  BY DEF DenyTool, OpenToolbox, TrackedRunTool, StreamRunTool, Runnable, AgentRunTool, AgentFail, AgentReturn
<1>2. alPc' = "tools" => /\ Len(alResults) < Len(alResp.uses)
                         /\ \/ alResults' = Append(alResults, "denied")
                            \/ alResults' = Append(alResults, "unlocked")
                            \/ alResults' = Append(alResults, "ran")
  BY DEF DenyTool, OpenToolbox, TrackedRunTool, StreamRunTool, Runnable, MoreBlocks, AgentRunTool, AgentFail, AgentReturn
<1>3. alResults \in Seq(ToolOutcomes) BY <1>1 DEF WireInv
<1>4. \A x \in ToolOutcomes : Append(alResults, x) \in Seq(ToolOutcomes) /\ Len(Append(alResults, x)) = Len(alResults) + 1 BY <1>3
<1>5. alPc' = "tools" => alResults' \in Seq(ToolOutcomes) /\ Len(alResults') = Len(alResults) + 1
  <2>1. "denied" \in ToolOutcomes /\ "unlocked" \in ToolOutcomes /\ "ran" \in ToolOutcomes BY DEF ToolOutcomes
  <2> QED BY <1>2, <1>4, <2>1
<1>6. alPc' = "tools" => Len(alResults') <= Len(alResp'.uses)
  <2>1. Len(alResults) \in Nat BY <1>3
  <2> QED BY <1>1, <1>2, <1>5, <2>1, UsesLen
<1> QED BY <1>1, <1>5, <1>6 DEF WireInv, Asking, Responding

\* Every step leaves the array with its calls answered or about to be.
LEMMA WireStep == ASSUME RespInv, WireInv, AgentNext PROVE WireInv'
<1>1. CASE TrackedOpen \/ StreamOpen BY <1>1, OpenWire DEF TrackedOpen, StreamOpen
<1>2. CASE AgentTurnLimit \/ StopRun \/ AgentNoBlocks
  BY <1>2, WireKept DEF AgentTurnLimit, StopRun, AgentNoBlocks, AgentReturn
<1>3. CASE TrackedCall \/ StreamCall
  BY <1>3, WireKept DEF TrackedCall, StreamCall, AgentCall, AgentReturn, Asking
<1>4. CASE EmptyResponse \/ TakeResponse \/ SkipValidation
  BY <1>4, WireKept DEF EmptyResponse, TakeResponse, SkipValidation, AgentReturn, Asking
<1>5. CASE ContinueResponse BY <1>5, ContinueWire
<1>6. CASE ValidateDraft BY <1>6, ValidateWire
<1>7. CASE TrackedPersist BY <1>7, PersistWire DEF TrackedPersist
<1>8. CASE StreamPersist BY <1>8, PersistWire DEF StreamPersist
<1>9. CASE RecoverTruncated
  <2>1. alPc = "stop" /\ alPc' \in {"turn", "end"} /\ (\/ alConvo' = alConvo /\ alPc' = "end"
                                                     \/ alConvo' = Append(alConvo, AgentMsg("user", 0, Len(alResp.uses))))
    BY <1>9 DEF RecoverTruncated, AgentReturn
  <2> QED BY <2>1, WireKept, AnswerWire DEF Responding
<1>10. CASE TrackedOpenTools BY <1>10, OpenToolsWire DEF TrackedOpenTools
<1>11. CASE StreamOpenTools BY <1>11, OpenToolsWire DEF StreamOpenTools
<1>12. CASE DenyTool \/ OpenToolbox \/ TrackedRunTool \/ StreamRunTool BY <1>12, ToolWire
<1>13. CASE TrackedCloseTools BY <1>13, CloseWire DEF TrackedCloseTools
<1>14. CASE StreamCloseTools BY <1>14, CloseWire DEF StreamCloseTools
<1>15. CASE AgentCancel \/ AgentDeadline BY <1>15 DEF AgentCancel, AgentDeadline, WireInv
<1> QED
  BY <1>1, <1>2, <1>3, <1>4, <1>5, <1>6, <1>7, <1>8, <1>9, <1>10, <1>11, <1>12, <1>13, <1>14, <1>15 DEF AgentNext, AgentStep
-----------------------------------------------------------------------------
\* The latest call.

Grown == /\ alConvo' \in Seq(AgentMsgType) /\ Len(alConvo) <= Len(alConvo')
         /\ \A i \in 1..Len(alConvo) : alConvo'[i] = alConvo[i]

\* Nothing but the opening of the run moves the anchor.
LEMMA AnchorKept ==
  ASSUME LocalsInv, AgentNext, alPc # "begin" PROVE alRun'.anchor = alRun.anchor
<1>0. DOMAIN alRun = AgentFields BY DEF LocalsInv, LocalsOk
<1>1. CASE TrackedCall \/ StreamCall
  BY <1>0, <1>1 DEF TrackedCall, StreamCall, AgentCall, AgentReturn, AgentFields
<1>2. CASE AgentTurnLimit \/ StopRun \/ AgentNoBlocks
  BY <1>0, <1>2 DEF AgentTurnLimit, StopRun, AgentNoBlocks, AgentReturn, AgentFields
<1>3. CASE EmptyResponse \/ TakeResponse \/ SkipValidation
  BY <1>0, <1>3 DEF EmptyResponse, TakeResponse, SkipValidation, AgentReturn, AgentFields
<1>4. CASE ContinueResponse BY <1>0, <1>4 DEF ContinueResponse, ExtendTurns, AgentFields
<1>5. CASE ValidateDraft BY <1>0, <1>5 DEF ValidateDraft, AgentReturn, AgentFields
<1>6. CASE TrackedPersist \/ StreamPersist
  BY <1>0, <1>6 DEF TrackedPersist, StreamPersist, AgentPersist, AgentFail, AgentReturn, AgentFields
<1>7. CASE RecoverTruncated
  BY <1>0, <1>7 DEF RecoverTruncated, ExtendTurns, ForceFinalAtLimit, AgentReturn, AgentFields
<1>8. CASE TrackedOpenTools \/ StreamOpenTools
  BY <1>0, <1>8 DEF TrackedOpenTools, StreamOpenTools, AgentOpenTools, AgentReturn, AgentFields
<1>9. CASE DenyTool \/ OpenToolbox BY <1>0, <1>9 DEF DenyTool, OpenToolbox, AgentFields
<1>10. CASE TrackedRunTool \/ StreamRunTool
  BY <1>0, <1>10 DEF TrackedRunTool, StreamRunTool, AgentRunTool, AgentFail, AgentReturn, AgentFields
<1>11. CASE TrackedCloseTools \/ StreamCloseTools
  BY <1>0, <1>11 DEF TrackedCloseTools, StreamCloseTools, AgentCloseTools, AgentFail, ExtendTurns, ForceFinalAtLimit, AgentReturn, AgentFields
<1>12. CASE AgentCancel \/ AgentDeadline BY <1>12 DEF AgentCancel, AgentDeadline
<1> QED
  BY <1>1, <1>2, <1>3, <1>4, <1>5, <1>6, <1>7, <1>8, <1>9, <1>10, <1>11, <1>12
  DEF AgentNext, AgentStep, TrackedOpen, StreamOpen, AgentOpen

\* Nothing removes or rewrites a message of the wire array.
LEMMA ConvoGrows == ASSUME RespInv, WireInv, AgentNext, alPc # "begin" PROVE Grown
<1>0. alConvo \in Seq(AgentMsgType) /\ Len(alConvo) \in Nat BY DEF WireInv
<1>1. CASE UNCHANGED alConvo BY <1>0, <1>1 DEF Grown
<1>2. ASSUME NEW m \in AgentMsgType, alConvo' = Append(alConvo, m) PROVE Grown
  BY <1>0, <1>2, Appended DEF Grown
<1>3. ASSUME NEW a \in AgentMsgType, a.uses = 0, alPc \in Asking, alConvo' = alConvo \o <<a, UserText>> PROVE Grown
  <2>1. alConvo # <<>> /\ Awaits(alConvo, 0) BY <1>3 DEF WireInv
  <2>2. /\ alConvo' \in Seq(AgentMsgType) /\ Len(alConvo') = Len(alConvo) + 2
        /\ \A i \in 1..Len(alConvo) : alConvo'[i] = alConvo[i]
    BY <1>0, <1>3, <2>1, ExchangeAppended
  <2> QED BY <1>0, <2>2 DEF Grown
<1>4. AgentMsg("assistant", Len(alResp.uses), 0) \in AgentMsgType /\ AgentMsg("user", 0, Len(alResp.uses)) \in AgentMsgType
  BY UsesLen, MsgFacts
<1>5. CASE ContinueResponse BY <1>3, <1>5, TextFacts DEF ContinueResponse, Asking
<1>6. CASE ValidateDraft
  <2> DEFINE a == AgentMsg("assistant", Len(alResp.uses), 0)
  <2>1. \/ alConvo' = alConvo
        \/ alPc \in Asking /\ alResp.uses = <<>> /\ alConvo' = alConvo \o <<a, UserText>>
    BY <1>6 DEF ValidateDraft, Revisable, Asking
  <2>2. alResp.uses = <<>> => a.uses = 0 BY UsesLen, MsgFacts
  <2> HIDE DEF a
  <2>3. a \in AgentMsgType BY <1>4 DEF a
  <2> QED BY <1>1, <1>3, <2>1, <2>2, <2>3
<1>7. CASE TrackedPersist \/ StreamPersist
  <2>1. alConvo' = alConvo \/ alConvo' = Append(alConvo, AgentMsg("assistant", Len(alResp.uses), 0))
    BY <1>7 DEF TrackedPersist, StreamPersist, AgentPersist, AgentFail
  <2> QED BY <1>1, <1>2, <1>4, <2>1
<1>8. CASE RecoverTruncated
  <2>1. alConvo' = alConvo \/ alConvo' = Append(alConvo, AgentMsg("user", 0, Len(alResp.uses))) BY <1>8 DEF RecoverTruncated
  <2> QED BY <1>1, <1>2, <1>4, <2>1
<1>9. CASE TrackedCloseTools \/ StreamCloseTools
  <2>1. alPc = "tools" /\ (alConvo' = alConvo \/ alConvo' = Append(alConvo, AgentMsg("user", 0, Len(alResults))))
    BY <1>9 DEF TrackedCloseTools, StreamCloseTools, AgentCloseTools, AgentFail
  <2>2. Len(alResults) \in Nat BY <2>1 DEF WireInv
  <2>3. AgentMsg("user", 0, Len(alResults)) \in AgentMsgType BY <2>2, MsgFacts
  <2> QED BY <1>1, <1>2, <2>1, <2>3
<1>10. CASE TrackedCall \/ StreamCall \/ AgentTurnLimit \/ StopRun \/ AgentNoBlocks
  BY <1>1, <1>10 DEF TrackedCall, StreamCall, AgentCall, AgentTurnLimit, StopRun, AgentNoBlocks
<1>11. CASE EmptyResponse \/ TakeResponse \/ SkipValidation
  BY <1>1, <1>11 DEF EmptyResponse, TakeResponse, SkipValidation
<1>12. CASE TrackedOpenTools \/ StreamOpenTools \/ DenyTool \/ OpenToolbox
  BY <1>1, <1>12 DEF TrackedOpenTools, StreamOpenTools, AgentOpenTools, DenyTool, OpenToolbox
<1>13. CASE TrackedRunTool \/ StreamRunTool
  BY <1>1, <1>13 DEF TrackedRunTool, StreamRunTool, AgentRunTool, AgentFail
<1>14. CASE AgentCancel \/ AgentDeadline BY <1>1, <1>14 DEF AgentCancel, AgentDeadline
<1> QED
  BY <1>5, <1>6, <1>7, <1>8, <1>9, <1>10, <1>11, <1>12, <1>13, <1>14
  DEF AgentNext, AgentStep, TrackedOpen, StreamOpen, AgentOpen

\* A run never goes back to its beginning, and a run that ended does not go on.
LEMMA Places == ASSUME AgentNext PROVE alPc' \in Asking \cup Responding \cup {"end"} \/ alPc' = alPc
<1>1. CASE TrackedOpen \/ StreamOpen \/ AgentTurnLimit \/ TrackedCall \/ StreamCall
  BY <1>1 DEF TrackedOpen, StreamOpen, AgentOpen, AgentFail, AgentTurnLimit, TrackedCall, StreamCall, AgentCall, AgentReturn, Asking
<1>2. CASE EmptyResponse \/ ContinueResponse \/ TakeResponse \/ ValidateDraft \/ SkipValidation
  BY <1>2 DEF EmptyResponse, ContinueResponse, TakeResponse, ValidateDraft, SkipValidation, AgentReturn, Asking
<1>3. CASE TrackedPersist \/ StreamPersist \/ RecoverTruncated \/ StopRun
  BY <1>3 DEF TrackedPersist, StreamPersist, AgentPersist, AgentFail, RecoverTruncated, StopRun, AgentReturn, Asking, Responding
<1>4. CASE TrackedOpenTools \/ StreamOpenTools \/ DenyTool \/ OpenToolbox
  BY <1>4 DEF TrackedOpenTools, StreamOpenTools, AgentOpenTools, DenyTool, OpenToolbox, AgentReturn, Responding
<1>5. CASE TrackedRunTool \/ StreamRunTool
  BY <1>5 DEF TrackedRunTool, StreamRunTool, AgentRunTool, AgentFail, AgentReturn, Responding
<1>6. CASE AgentNoBlocks \/ TrackedCloseTools \/ StreamCloseTools
  BY <1>6 DEF AgentNoBlocks, TrackedCloseTools, StreamCloseTools, AgentCloseTools, AgentFail, AgentReturn, Asking
<1>7. CASE AgentCancel \/ AgentDeadline BY <1>7 DEF AgentCancel, AgentDeadline
<1> QED BY <1>1, <1>2, <1>3, <1>4, <1>5, <1>6, <1>7 DEF AgentNext, AgentStep

LEMMA EndStays == ASSUME AgentNext PROVE alPc # "end" /\ (alSent' = alSent \/ TrackedCall \/ StreamCall)
<1>1. CASE TrackedOpen \/ StreamOpen \/ AgentTurnLimit \/ TrackedCall \/ StreamCall
  BY <1>1 DEF TrackedOpen, StreamOpen, AgentOpen, AgentFail, AgentTurnLimit, TrackedCall, StreamCall, AgentCall
<1>2. CASE EmptyResponse \/ ContinueResponse \/ TakeResponse \/ ValidateDraft \/ SkipValidation
  BY <1>2 DEF EmptyResponse, ContinueResponse, TakeResponse, ValidateDraft, SkipValidation
<1>3. CASE TrackedPersist \/ StreamPersist \/ RecoverTruncated \/ StopRun
  BY <1>3 DEF TrackedPersist, StreamPersist, AgentPersist, AgentFail, RecoverTruncated, StopRun
<1>4. CASE TrackedOpenTools \/ StreamOpenTools \/ DenyTool \/ OpenToolbox
  BY <1>4 DEF TrackedOpenTools, StreamOpenTools, AgentOpenTools, DenyTool, OpenToolbox
<1>5. CASE TrackedRunTool \/ StreamRunTool
  BY <1>5 DEF TrackedRunTool, StreamRunTool, Runnable, AgentRunTool, AgentFail
<1>6. CASE AgentNoBlocks \/ TrackedCloseTools \/ StreamCloseTools
  BY <1>6 DEF AgentNoBlocks, TrackedCloseTools, StreamCloseTools, AgentCloseTools, AgentFail
<1>7. CASE AgentCancel \/ AgentDeadline BY <1>7 DEF AgentCancel, AgentDeadline
<1> QED BY <1>1, <1>2, <1>3, <1>4, <1>5, <1>6, <1>7 DEF AgentNext, AgentStep

\* A sequence whose elements lead another one is a leading part of it.
LEMMA LeadingPart ==
  ASSUME NEW T, NEW s \in Seq(T), NEW t \in Seq(T), Len(t) <= Len(s), \A i \in 1..Len(t) : s[i] = t[i]
  PROVE  SubSeq(s, 1, Len(t)) = t
<1> DEFINE p == SubSeq(s, 1, Len(t))
<1>1. Len(s) \in Nat /\ Len(t) \in Nat OBVIOUS
<1>2. p \in Seq(T) /\ Len(p) = Len(t) BY <1>1
<1>3. \A i \in 1..Len(t) : p[i] = s[i] BY <1>1
<1> HIDE DEF p
<1>4. p = t BY <1>2, <1>3
<1> QED BY <1>4 DEF p

\* withTurnContext marks one message and changes nothing else.
LEMMA ContextFacts ==
  ASSUME NEW s \in Seq(AgentMsgType), NEW a \in 1..Len(s)
  PROVE  LET t == withTurnContext(s, a) IN
         /\ t \in Seq(AgentMsgType) /\ Len(t) = Len(s)
         /\ \A i \in 1..Len(s) : /\ t[i] = IF i = a THEN [s[i] EXCEPT !.ctx = TRUE] ELSE s[i]
                                 /\ t[i].role = s[i].role /\ t[i].uses = s[i].uses /\ t[i].results = s[i].results
<1> DEFINE t == withTurnContext(s, a)
<1>1. \A m \in AgentMsgType : LET n == [m EXCEPT !.ctx = TRUE] IN
        n \in AgentMsgType /\ n.role = m.role /\ n.uses = m.uses /\ n.results = m.results
  BY DEF AgentMsgType
<1>2. s[a] \in AgentMsgType OBVIOUS
<1> DEFINE n == [s[a] EXCEPT !.ctx = TRUE]
<1>3. n \in AgentMsgType /\ n.role = s[a].role /\ n.uses = s[a].uses /\ n.results = s[a].results BY <1>1, <1>2
<1>4. t = [s EXCEPT ![a] = n] BY DEF withTurnContext
<1> HIDE DEF t
<1>5. \A i \in 1..Len(s) : t[i] = IF i = a THEN n ELSE s[i]
  <2> HIDE DEF n
  <2> QED BY <1>4
<1>6. t \in Seq(AgentMsgType) /\ Len(t) = Len(s)
  <2> HIDE DEF n
  <2> QED BY <1>3, <1>4
<1>7. \A i \in 1..Len(s) : t[i].role = s[i].role /\ t[i].uses = s[i].uses /\ t[i].results = s[i].results
  <2> HIDE DEF n
  <2> QED BY <1>3, <1>5
<1> QED BY <1>5, <1>6, <1>7 DEF t

LEMMA CallSent == ASSUME WireInv, SentInv, NEW r, AgentCall(r), alRun'.anchor = alRun.anchor PROVE SentInv'
<1>1. alPc = "turn" /\ alConvo' = alConvo /\ alSent' = withTurnContext(alConvo, alRun.anchor) /\ alPc' \in {"response", "end"}
  BY DEF AgentCall, AgentReturn
<1>2. /\ alConvo \in Seq(AgentMsgType) /\ alRun.anchor \in 1..Len(alConvo) /\ Awaits(alConvo, 0)
      /\ alConvo # <<>> /\ alConvo[Len(alConvo)].role = "user" /\ Len(alConvo) \in Nat \ {0}
  BY <1>1 DEF WireInv, SentInv, Asking
<1>3. /\ alSent' \in Seq(AgentMsgType) /\ Len(alSent') = Len(alConvo)
      /\ \A i \in 1..Len(alConvo) :
           /\ alSent'[i] = IF i = alRun.anchor THEN [alConvo[i] EXCEPT !.ctx = TRUE] ELSE alConvo[i]
           /\ alSent'[i].role = alConvo[i].role /\ alSent'[i].uses = alConvo[i].uses /\ alSent'[i].results = alConvo[i].results
  <2> DEFINE w == withTurnContext(alConvo, alRun.anchor)
  <2>1. /\ w \in Seq(AgentMsgType) /\ Len(w) = Len(alConvo)
        /\ \A i \in 1..Len(alConvo) :
             /\ w[i] = IF i = alRun.anchor THEN [alConvo[i] EXCEPT !.ctx = TRUE] ELSE alConvo[i]
             /\ w[i].role = alConvo[i].role /\ w[i].uses = alConvo[i].uses /\ w[i].results = alConvo[i].results
    <3>1. alConvo \in Seq(AgentMsgType) /\ alRun.anchor \in 1..Len(alConvo) BY <1>2
    <3> QED BY <3>1, ContextFacts, Zenon
  <2>2. alSent' = w BY <1>1
  <2> HIDE DEF w
  <2> QED BY <2>1, <2>2, Zenon
<1>4. AgentWireValid'
  <2>1. alSent'[Len(alSent')].role = "user"
    <3>1. Len(alConvo) \in 1..Len(alConvo) BY <1>2
    <3> QED BY <1>2, <1>3, <3>1
  <2>2. ASSUME NEW i \in 1..Len(alSent'), alSent'[i].uses > 0
        PROVE  i < Len(alSent') /\ alSent'[i + 1].role = "user" /\ alSent'[i + 1].results = alSent'[i].uses
    <3>1. i \in 1..Len(alConvo) /\ alConvo[i].uses > 0 BY <1>3, <2>2
    <3>2. i < Len(alConvo) /\ alConvo[i + 1].role = "user" /\ alConvo[i + 1].results = alConvo[i].uses
      BY <1>2, <3>1 DEF Awaits
    <3>3. i + 1 \in 1..Len(alConvo) BY <1>2, <3>1, <3>2
    <3> QED BY <1>3, <3>1, <3>2, <3>3
  <2> QED BY <2>1, <2>2 DEF AgentWireValid
<1> QED BY <1>1, <1>2, <1>3, <1>4 DEF SentInv, Asking, Responding

\* The array only grows behind the latest call.
LEMMA SentKept ==
  ASSUME WireInv, SentInv, UNCHANGED alSent, alPc \in Asking \cup Responding, Grown, alRun'.anchor = alRun.anchor,
         alPc' \in Asking \cup Responding \cup {"end"}
  PROVE  SentInv'
<1>1. alRun'.anchor \in 1..Len(alConvo') /\ Len(alConvo) \in Nat /\ Len(alConvo') \in Nat
  BY DEF SentInv, WireInv, Grown
<1>2. AgentWireValid' BY DEF SentInv, AgentWireValid
<1>3. ASSUME alSent # <<>>
      PROVE  /\ alRun'.anchor <= Len(alSent') /\ Len(alSent') <= Len(alConvo')
             /\ \A i \in 1..Len(alSent') : alSent'[i] = IF i = alRun'.anchor THEN [alConvo'[i] EXCEPT !.ctx = TRUE] ELSE alConvo'[i]
  <2>1. /\ alRun.anchor <= Len(alSent) /\ Len(alSent) <= Len(alConvo) /\ Len(alSent) \in Nat
        /\ \A i \in 1..Len(alSent) : alSent[i] = IF i = alRun.anchor THEN [alConvo[i] EXCEPT !.ctx = TRUE] ELSE alConvo[i]
    BY <1>3 DEF SentInv, Asking, Responding
  <2>2. \A i \in 1..Len(alSent) : alConvo'[i] = alConvo[i] BY <1>1, <2>1 DEF Grown
  <2> QED BY <1>1, <2>1, <2>2 DEF Grown
<1>4. alSent' \in Seq(AgentMsgType) /\ alPc' # "begin" BY DEF SentInv, Asking, Responding
<1> QED BY <1>1, <1>2, <1>3, <1>4 DEF SentInv

\* Every step keeps the latest call a prefix of the array, but for its context.
LEMMA SentStep ==
  ASSUME LocalsInv, RespInv, WireInv, SentInv, AgentNext, PlaceInv
  PROVE  SentInv'
<1>1. CASE alPc = "begin"
  <2>1. \/ AgentOpen \/ (UNCHANGED <<alPc, alRun, alConvo, alSent>>)
    BY <1>1 DEF AgentNext, AgentStep, TrackedOpen, StreamOpen, AgentTurnLimit, TrackedCall, StreamCall, AgentCall,
                EmptyResponse, ContinueResponse, TakeResponse, ValidateDraft, SkipValidation, TrackedPersist, StreamPersist, AgentPersist,
                RecoverTruncated, StopRun, TrackedOpenTools, StreamOpenTools, AgentOpenTools, DenyTool, OpenToolbox,
                TrackedRunTool, StreamRunTool, Runnable, AgentNoBlocks, TrackedCloseTools, StreamCloseTools, AgentCloseTools,
                AgentCancel, AgentDeadline
  <2>2. CASE UNCHANGED <<alPc, alRun, alConvo, alSent>> BY <2>2 DEF SentInv, AgentWireValid
  <2>3. CASE AgentOpen
    <3>1. alSent' = <<>> /\ alSent = <<>> BY <1>1, <2>3 DEF AgentOpen, AgentFail, SentInv
    <3>2. AgentWireValid' BY <3>1 DEF AgentWireValid
    <3>3. CASE AgentFail BY <3>1, <3>2, <3>3 DEF AgentFail, AgentReturn, SentInv, Asking, Responding
    <3>4. CASE ~AgentFail
      <4>1. alPc' = "turn" /\ alConvo' = Append(alConvo, UserText) /\ alRun'.anchor = Len(Append(alConvo, UserText))
        BY <2>3, <3>4 DEF AgentOpen, AgentWindow, LocalsInv, LocalsOk, AgentFields
      <4>2. alConvo \in Seq(AgentMsgType) BY DEF WireInv
      <4>3. alRun'.anchor \in 1..Len(alConvo') BY <4>1, <4>2, TextFacts, Appended
      <4> QED BY <3>1, <3>2, <4>1, <4>3 DEF SentInv, Asking, Responding
    <3> QED BY <3>3, <3>4
  <2> QED BY <2>1, <2>2, <2>3
<1>2. CASE alPc # "begin"
  <2>1. alPc # "end" /\ (alSent' = alSent \/ TrackedCall \/ StreamCall) BY EndStays
  <2>2. alRun'.anchor = alRun.anchor BY <1>2, AnchorKept
  <2>3. CASE TrackedCall BY <2>2, <2>3, CallSent DEF TrackedCall
  <2>4. CASE StreamCall BY <2>2, <2>4, CallSent DEF StreamCall
  <2>5. CASE alSent' = alSent
    <3>1. Grown BY <1>2, ConvoGrows
    <3>2. alPc \in Asking \cup Responding BY <1>2, <2>1 DEF PlaceInv
    <3>3. alPc' \in Asking \cup Responding \cup {"end"} BY <3>2, Places
    <3> QED BY <2>2, <2>5, <3>1, <3>2, <3>3, SentKept
  <2> QED BY <2>1, <2>3, <2>4, <2>5
<1> QED BY <1>1, <1>2
-----------------------------------------------------------------------------
\* The store.

\* A step that leaves the rows alone between like places.
LEMMA StoreKept ==
  ASSUME StoreInv, UNCHANGED <<alCfg, alStored>>, alPc \in {"begin"} \cup Asking, alPc' \in Asking \cup {"end"}
  PROVE  StoreInv'
<1>1. alStored \in Seq(AgentMsgType) /\ Awaits(alStored, 0) BY DEF StoreInv
<1> QED BY <1>1 DEF StoreInv, Asking, Responding

\* A step that fails the run.
LEMMA StoreFailed ==
  ASSUME StoreInv, UNCHANGED <<alCfg, alStored>>, alPc' = "end",
         alRun'.reason \in {"error", "cancelled", "output_limit"} \/ Awaits(alStored, 0)
  PROVE  StoreInv'
BY DEF StoreInv, Asking, Responding

\* A failed run reports an error, or that it was cancelled.
LEMMA FailReason ==
  ASSUME NEW r, DOMAIN r = AgentFields, RespInv, alPc # "end", AgentReturn(r, alRun.reason, TRUE)
  PROVE  alPc' = "end" /\ alRun'.reason \in {"error", "cancelled"}
BY DEF AgentReturn, finishRunOutcome, RespInv, AgentFields

LEMMA SmallSeqs ==
  /\ <<>> \in Seq(AgentMsgType) /\ <<UserText>> \in Seq(AgentMsgType)
  /\ <<UserText, AssistantText>> \in Seq(AgentMsgType)
<1>1. <<>> \in Seq(AgentMsgType) OBVIOUS
<1>2. <<UserText>> \in Seq(AgentMsgType) BY TextFacts
<1>3. <<UserText, AssistantText>> \in Seq(AgentMsgType) BY TextFacts
<1> QED BY <1>1, <1>2, <1>3

LEMMA OpenStore == ASSUME LocalsInv, RespInv, StoreInv, AgentOpen PROVE StoreInv'
<1>1. CASE AgentFail BY <1>1, StoreKept DEF AgentFail, AgentReturn, AgentOpen
<1>2. CASE ~AgentFail
  <2>1. alPc' = "turn" /\ (alStored' = <<>> \/ alStored' = <<UserText>>) BY <1>2 DEF AgentOpen
  <2>2. alStored' \in Seq(AgentMsgType) BY <2>1, SmallSeqs
  <2>3. Awaits(alStored', 0)
    <3>1. \A i \in 1..Len(alStored') : alStored'[i].uses = 0 BY <2>1, TextFacts
    <3> QED BY <3>1 DEF Awaits
  <2> QED BY <2>1, <2>2, <2>3 DEF StoreInv, Asking, Responding
<1> QED BY <1>1, <1>2

LEMMA PersistStore == ASSUME LocalsInv, RespInv, StoreInv, NEW shown, AgentPersist(shown) PROVE StoreInv'
<1> DEFINE row == AgentMsg("assistant", Len(alResp.uses), 0)
           locals == [alRun EXCEPT !.text = @ \/ alResp.text, !.pending = FALSE]
<1>1. alPc = "persist" /\ alPc' \in {"stop", "end"} /\ alCfg' = alCfg /\ alResp' = alResp
  BY DEF AgentPersist, AgentReturn, AgentFail
<1>2. alStored \in Seq(AgentMsgType) /\ Awaits(alStored, 0) BY <1>1 DEF StoreInv, Asking
<1>3. row \in AgentMsgType /\ row.uses = Len(alResp.uses) BY UsesLen, MsgFacts
<1>4. CASE alStored' = alStored /\ alPc' = "end" BY <1>1, <1>2, <1>4, StoreFailed
<1>5. CASE ~(alStored' = alStored /\ alPc' = "end")
  <2>1. alStored' = (IF alCfg.ephemeral THEN alStored ELSE Append(alStored, row)) /\ (alPc' = "stop" \/ AgentReturn(locals, alRun.reason, TRUE))
    BY <1>5 DEF AgentPersist, AgentReturn, AgentFail
  <2>2. DOMAIN locals = AgentFields BY DEF LocalsInv, LocalsOk, AgentFields
  <2> HIDE DEF row, locals
  <2>3. alPc' = "end" => alRun'.reason \in {"error", "cancelled"} BY <1>1, <2>1, <2>2, FailReason
  <2>4. CASE alCfg.ephemeral
    <3>1. alStored' = alStored BY <2>1, <2>4
    <3>2. Awaits(alStored', Len(alResp'.uses)) BY <1>1, <1>2, <3>1, AnsweredAwaits
    <3> QED BY <1>1, <1>2, <2>3, <3>1, <3>2 DEF StoreInv, Asking
  <2>5. CASE ~alCfg.ephemeral
    <3>1. alStored' = Append(alStored, row) BY <2>1, <2>5
    <3>2. alStored' \in Seq(AgentMsgType) /\ Awaits(alStored', Len(alResp'.uses)) BY <1>1, <1>2, <1>3, <3>1, Appended, AppendAsks
    <3> QED BY <1>1, <2>3, <2>5, <3>2 DEF StoreInv, Asking
  <2> QED BY <2>4, <2>5
<1> QED BY <1>4, <1>5

\* The answers of a round are stored.
LEMMA AnswerStore ==
  ASSUME RespInv, StoreInv, UNCHANGED alCfg, alPc \in Responding, alPc' \in {"turn", "end"},
         alStored' = IF alCfg.ephemeral THEN alStored ELSE Append(alStored, AgentMsg("user", 0, Len(alResp.uses)))
  PROVE  StoreInv'
<1> DEFINE m == AgentMsg("user", 0, Len(alResp.uses))
<1>1. m \in AgentMsgType /\ m.role = "user" /\ m.results = Len(alResp.uses) /\ m.uses = 0 BY UsesLen, MsgFacts
<1>2. alStored \in Seq(AgentMsgType) /\ Awaits(alStored, Len(alResp.uses)) /\ (alCfg.ephemeral => Awaits(alStored, 0)) BY DEF StoreInv
<1>3. alStored' = IF alCfg.ephemeral THEN alStored ELSE Append(alStored, m) OBVIOUS
<1> HIDE DEF m
<1>4. alStored' \in Seq(AgentMsgType) /\ Awaits(alStored', 0)
  <2>1. CASE alCfg.ephemeral BY <1>2, <1>3, <2>1
  <2>2. CASE ~alCfg.ephemeral BY <1>1, <1>2, <1>3, <2>2, UsesLen, Appended, AppendAnswers
  <2> QED BY <2>1, <2>2
<1> QED BY <1>4 DEF StoreInv, Asking, Responding

LEMMA RecoverStore == ASSUME LocalsInv, RespInv, StoreInv, RecoverTruncated PROVE StoreInv'
<1> DEFINE r == [alRun EXCEPT !.truncations = @ + 1, !.toolTurns = @ + 1, !.traces = @ + Len(alResp.uses)]
<1>1. alPc = "stop" /\ alPc' \in {"turn", "end"} /\ alCfg' = alCfg BY DEF RecoverTruncated, AgentReturn
<1>2. \/ AgentReturn(r, alRun.reason, TRUE) /\ alStored' = alStored
      \/ alStored' = IF alCfg.ephemeral THEN alStored ELSE Append(alStored, AgentMsg("user", 0, Len(alResp.uses)))
  BY DEF RecoverTruncated
<1>3. DOMAIN r = AgentFields BY DEF LocalsInv, LocalsOk, AgentFields
<1> HIDE DEF r
<1>4. CASE AgentReturn(r, alRun.reason, TRUE) /\ alStored' = alStored BY <1>1, <1>3, <1>4, FailReason, StoreFailed
<1>5. CASE alStored' = IF alCfg.ephemeral THEN alStored ELSE Append(alStored, AgentMsg("user", 0, Len(alResp.uses)))
  BY <1>1, <1>5, AnswerStore DEF Responding
<1> QED BY <1>2, <1>4, <1>5

\* A run that stops on calls it never answered was cut by the output limit.
LEMMA StopStore == ASSUME LocalsInv, RespInv, StoreInv, StopRun PROVE StoreInv'
<1>1. alPc = "stop" /\ alPc' = "end" /\ alStored' = alStored /\ alCfg' = alCfg BY DEF StopRun, AgentReturn
<1>2. CASE alResp.uses = <<>>
  <2>1. Awaits(alStored, 0) BY <1>1, <1>2, UsesLen DEF StoreInv, Responding
  <2> QED BY <1>1, <2>1, StoreFailed
<1>3. CASE alResp.uses # <<>>
  <2>1. alResp.stop = "max_tokens" /\ alRun.reason # "empty_output" BY <1>1, <1>3 DEF StopRun, RespInv, RespOk
  <2>2. terminalRunReason(alRun.reason, alResp.stop) = "output_limit" BY <2>1 DEF terminalRunReason
  <2>3. AgentReturn(alRun, "output_limit", FALSE) BY <2>1, <2>2 DEF StopRun
  <2>4. alRun'.reason \in {"cancelled", "output_limit"}
    BY <2>3 DEF AgentReturn, finishRunOutcome, LocalsInv, LocalsOk, AgentFields
  <2> QED BY <1>1, <2>4, StoreFailed
<1> QED BY <1>2, <1>3

LEMMA OpenToolsStore == ASSUME LocalsInv, RespInv, StoreInv, NEW forced, AgentOpenTools(forced) PROVE StoreInv'
<1>1. alPc = "stop" /\ alStored' = alStored /\ alCfg' = alCfg /\ alResp' = alResp
      /\ (alPc' = "tools" \/ AgentReturn([alRun EXCEPT !.toolTurns = @ + 1], alRun.reason, TRUE))
  BY DEF AgentOpenTools
<1>2. CASE alPc' = "tools" BY <1>1, <1>2 DEF StoreInv, Asking, Responding
<1>3. CASE AgentReturn([alRun EXCEPT !.toolTurns = @ + 1], alRun.reason, TRUE)
  <2>1. DOMAIN [alRun EXCEPT !.toolTurns = @ + 1] = AgentFields BY DEF LocalsInv, LocalsOk, AgentFields
  <2> QED BY <1>1, <1>3, <2>1, FailReason, StoreFailed
<1> QED BY <1>1, <1>2, <1>3

LEMMA ToolStore == ASSUME LocalsInv, RespInv, StoreInv, DenyTool \/ OpenToolbox \/ TrackedRunTool \/ StreamRunTool PROVE StoreInv'
<1> DEFINE r == [alRun EXCEPT !.traces = @ + 1]
<1>1. alPc = "tools" /\ alStored' = alStored /\ alCfg' = alCfg /\ alResp' = alResp
  BY DEF DenyTool, OpenToolbox, TrackedRunTool, StreamRunTool, Runnable, AgentRunTool, AgentFail
<1>2. alPc' = "tools" \/ AgentReturn(alRun, alRun.reason, TRUE) \/ AgentReturn(r, alRun.reason, TRUE)
  BY DEF DenyTool, OpenToolbox, TrackedRunTool, StreamRunTool, AgentRunTool, AgentFail
<1>3. DOMAIN r = AgentFields /\ DOMAIN alRun = AgentFields BY DEF LocalsInv, LocalsOk, AgentFields
<1> HIDE DEF r
<1>4. CASE alPc' = "tools" BY <1>1, <1>4 DEF StoreInv, Asking, Responding
<1>5. CASE AgentReturn(alRun, alRun.reason, TRUE) \/ AgentReturn(r, alRun.reason, TRUE) BY <1>1, <1>3, <1>5, FailReason, StoreFailed
<1> QED BY <1>2, <1>4, <1>5

LEMMA CloseStore == ASSUME LocalsInv, RespInv, WireInv, StoreInv, NEW late, AgentCloseTools(late) PROVE StoreInv'
<1>1. alPc = "tools" /\ alPc' \in {"turn", "end"} /\ alCfg' = alCfg BY DEF AgentCloseTools, AgentReturn, AgentFail
<1>2. alResults \in Seq(ToolOutcomes) /\ Len(alResults) <= Len(alResp.uses) /\ ~(Len(alResults) < Len(alResp.uses))
  BY <1>1 DEF WireInv, AgentCloseTools, MoreBlocks
<1>3. Len(alResults) = Len(alResp.uses) BY <1>2, UsesLen
<1>4. \/ AgentReturn(alRun, alRun.reason, TRUE) /\ alStored' = alStored
      \/ alStored' = IF alCfg.ephemeral THEN alStored ELSE Append(alStored, AgentMsg("user", 0, Len(alResults)))
  BY DEF AgentCloseTools, AgentFail
<1>5. DOMAIN alRun = AgentFields BY DEF LocalsInv, LocalsOk
<1>6. CASE AgentReturn(alRun, alRun.reason, TRUE) /\ alStored' = alStored BY <1>1, <1>5, <1>6, FailReason, StoreFailed
<1>7. CASE alStored' = IF alCfg.ephemeral THEN alStored ELSE Append(alStored, AgentMsg("user", 0, Len(alResults)))
  BY <1>1, <1>3, <1>7, AnswerStore DEF Responding
<1> QED BY <1>4, <1>6, <1>7

\* Every step keeps the stored calls answered, or ends the run with a reason to.
LEMMA StoreStep == ASSUME LocalsInv, RespInv, WireInv, StoreInv, AgentNext PROVE StoreInv'
<1>1. CASE TrackedOpen \/ StreamOpen BY <1>1, OpenStore DEF TrackedOpen, StreamOpen
<1>2. CASE AgentTurnLimit \/ TrackedCall \/ StreamCall
  BY <1>2, StoreKept DEF AgentTurnLimit, TrackedCall, StreamCall, AgentCall, AgentReturn, Asking
<1>3. CASE EmptyResponse \/ TakeResponse \/ SkipValidation
  BY <1>3, StoreKept DEF EmptyResponse, TakeResponse, SkipValidation, AgentReturn, Asking
<1>4. CASE ContinueResponse \/ ValidateDraft
  BY <1>4, StoreKept DEF ContinueResponse, ValidateDraft, AgentReturn, Asking
<1>5. CASE TrackedPersist BY <1>5, PersistStore DEF TrackedPersist
<1>6. CASE StreamPersist BY <1>6, PersistStore DEF StreamPersist
<1>7. CASE RecoverTruncated BY <1>7, RecoverStore
<1>8. CASE StopRun BY <1>8, StopStore
<1>9. CASE TrackedOpenTools BY <1>9, OpenToolsStore DEF TrackedOpenTools
<1>10. CASE StreamOpenTools BY <1>10, OpenToolsStore DEF StreamOpenTools
<1>11. CASE DenyTool \/ OpenToolbox \/ TrackedRunTool \/ StreamRunTool BY <1>11, ToolStore
<1>12. CASE AgentNoBlocks
  <2>1. alPc = "tools" /\ alPc' = "end" /\ alStored' = alStored /\ alCfg' = alCfg /\ alResp.uses = <<>>
    BY <1>12 DEF AgentNoBlocks, AgentReturn
  <2>2. Awaits(alStored, 0) BY <2>1, UsesLen DEF StoreInv, Responding
  <2> QED BY <2>1, <2>2, StoreFailed
<1>13. CASE TrackedCloseTools BY <1>13, CloseStore DEF TrackedCloseTools
<1>14. CASE StreamCloseTools BY <1>14, CloseStore DEF StreamCloseTools
<1>15. CASE AgentCancel \/ AgentDeadline BY <1>15 DEF AgentCancel, AgentDeadline, StoreInv
<1> QED
  BY <1>1, <1>2, <1>3, <1>4, <1>5, <1>6, <1>7, <1>8, <1>9, <1>10, <1>11, <1>12, <1>13, <1>14, <1>15 DEF AgentNext, AgentStep
-----------------------------------------------------------------------------
LEMMA AgentBegins == ASSUME AgentInit PROVE AgentIInv
<1>1. alCfg \in AgentConfigs /\ alCfg.maxTurns \in Nat
  <2>1. alCfg \in AgentConfigs BY DEF AgentInit
  <2>2. alCfg \in AgentConfigType BY <2>1, AgentConfigsTyped
  <2> QED BY <2>1, <2>2 DEF AgentConfigType
<1>2. LocalsOk(alRun)
  <2>1. alRun = AgentLocals(alCfg) BY DEF AgentInit
  <2>2. /\ alRun.turn = 0 /\ alRun.maxTurns = alCfg.maxTurns /\ alRun.continuations = 0 /\ alRun.revisions = 0
        /\ alRun.truncations = 0 /\ alRun.forceFinal = FALSE /\ alRun.lateRecovery = FALSE
    BY <2>1 DEF AgentLocals
  <2>3. DOMAIN alRun = AgentFields BY <2>1 DEF AgentLocals, AgentFields
  <2>4. Flag(alRun.forceFinal) = 0 /\ Flag(alRun.lateRecovery) = 0 BY <2>2, FlagFacts
  <2>5. /\ alRun.turn \in Nat /\ alRun.maxTurns \in Nat /\ alRun.turn <= alRun.maxTurns
        /\ alRun.continuations \in 0..1 /\ alRun.revisions \in 0..1 /\ alRun.truncations \in 0..2
    BY <1>1, <2>2
  <2>6. alRun.maxTurns <= alCfg.maxTurns + alRun.continuations + alRun.revisions + alRun.truncations
                            + Flag(alRun.forceFinal) + Flag(alRun.lateRecovery)
    BY <1>1, <2>2, <2>4
  <2>7. alRun.forceFinal \in BOOLEAN /\ alRun.lateRecovery \in BOOLEAN BY <2>2
  <2> QED BY <2>3, <2>5, <2>6, <2>7 DEF LocalsOk
<1>3. LocalsInv BY <1>1, <1>2 DEF LocalsInv
<1>4. RespInv BY DEF AgentInit, NoResponse, AgentLocals, RespInv, RespOk
<1>5. ShownInv BY DEF AgentInit, ShownInv
<1>6. alConvo \in Seq(AgentMsgType) /\ alSent \in Seq(AgentMsgType) /\ alStored \in Seq(AgentMsgType) BY SmallSeqs DEF AgentInit
<1>7. Awaits(alConvo, 0) /\ Awaits(alStored, 0)
  <2>1. \A i \in 1..Len(alConvo) : alConvo[i].uses = 0 BY TextFacts DEF AgentInit
  <2>2. Len(alStored) = 0 BY DEF AgentInit
  <2> QED BY <2>1, <2>2 DEF Awaits
<1>8. WireInv /\ PlaceInv BY <1>6, <1>7 DEF AgentInit, WireInv, PlaceInv, Asking, Responding
<1>9. SentInv BY <1>6 DEF AgentInit, SentInv, AgentWireValid, Asking, Responding
<1>10. StoreInv BY <1>6, <1>7 DEF AgentInit, StoreInv, Asking, Responding
<1> QED BY <1>3, <1>4, <1>5, <1>8, <1>9, <1>10 DEF AgentIInv

LEMMA AgentInductive == ASSUME AgentIInv, [AgentNext]_agentVars PROVE AgentIInv'
<1>1. CASE AgentNext
  <2>1. LocalsInv' /\ RespInv' /\ ShownInv' BY <1>1, LocalsStep, RespStep, ShownStep DEF AgentIInv
  <2>2. PlaceInv' BY <1>1, Places DEF AgentIInv, PlaceInv
  <2>3. WireInv' /\ SentInv' /\ StoreInv' BY <1>1, WireStep, SentStep, StoreStep DEF AgentIInv
  <2> QED BY <2>1, <2>2, <2>3 DEF AgentIInv
<1>2. CASE UNCHANGED agentVars
  <2>1. UNCHANGED <<alCfg, alPc, alRun, alConvo, alSent, alStored, alResp, alResults, alEnv>> BY <1>2 DEF agentVars
  <2>2. LocalsInv' /\ RespInv' /\ ShownInv' /\ PlaceInv'
    BY <2>1 DEF AgentIInv, LocalsInv, LocalsOk, RespInv, ShownInv, PlaceInv
  <2>3. WireInv' /\ SentInv' /\ StoreInv' BY <2>1 DEF AgentIInv, WireInv, SentInv, AgentWireValid, StoreInv
  <2> QED BY <2>2, <2>3 DEF AgentIInv
<1> QED BY <1>1, <1>2

LEMMA AgentAlways == AgentSpec => []AgentIInv
<1>1. AgentInit => AgentIInv BY AgentBegins
<1>2. AgentIInv /\ [AgentNext]_agentVars => AgentIInv' BY AgentInductive
<1> QED BY <1>1, <1>2, PTL DEF AgentSpec

LEMMA AgentImplied == ASSUME AgentIInv PROVE AgentSound
<1>1. AgentWireValid /\ AgentShownChecked BY DEF AgentIInv, SentInv, ShownInv, AgentShownChecked
<1>2. AgentTurnsBounded
  <2>1. alCfg.maxTurns \in Nat BY CfgFacts DEF AgentIInv
  <2>2. Flag(alRun.forceFinal) \in 0..1 /\ Flag(alRun.lateRecovery) \in 0..1 BY FlagFacts
  <2>3. /\ alRun.turn \in Nat /\ alRun.maxTurns \in Nat /\ alRun.turn <= alRun.maxTurns
        /\ alRun.continuations \in 0..1 /\ alRun.revisions \in 0..1 /\ alRun.truncations \in 0..2
        /\ alRun.maxTurns <= alCfg.maxTurns + alRun.continuations + alRun.revisions + alRun.truncations
                               + Flag(alRun.forceFinal) + Flag(alRun.lateRecovery)
    BY DEF AgentIInv, LocalsInv, LocalsOk
  <2> QED BY <2>1, <2>2, <2>3 DEF AgentTurnsBounded
<1>3. AgentStoreAnswered
  <2>1. SUFFICES ASSUME alPc = "end", alRun.reason \notin {"error", "cancelled", "output_limit"}, NEW i \in 1..Len(alStored), alStored[i].uses > 0
                 PROVE  i < Len(alStored) /\ alStored[i + 1].results = alStored[i].uses
    BY DEF AgentStoreAnswered
  <2>2. Awaits(alStored, 0) BY <2>1 DEF AgentIInv, StoreInv
  <2> QED BY <2>1, <2>2 DEF Awaits
<1> QED BY <1>1, <1>2, <1>3 DEF AgentSound

\* A run of the agent loop sends the provider only arrays it accepts, takes at
\* most six turns over its budget, returns normally with every stored tool call
\* answered, and shows no unchecked text under a validator: for every
\* configuration, turn budget, tool limit and response (RunTracked, RunStream).
THEOREM AgentIsSound == AgentSpec => []AgentSound
<1>1. AgentIInv => AgentSound BY AgentImplied
<1> QED BY <1>1, AgentAlways, PTL

\* Every provider call of a run extends the one before it, the turn context
\* included, so a prefix cache keeps matching (turnContextAnchor).
THEOREM CallsExtend == AgentSpec => AgentPrefixStable
<1> DEFINE Step == alSent # <<>> /\ alSent' # alSent =>
                     Len(alSent) <= Len(alSent') /\ SubSeq(alSent', 1, Len(alSent)) = alSent
<1>1. ASSUME AgentIInv, [AgentNext]_agentVars PROVE [Step]_agentVars
  <2>1. SUFFICES ASSUME AgentNext, alSent # <<>>, alSent' # alSent
                 PROVE  Len(alSent) <= Len(alSent') /\ SubSeq(alSent', 1, Len(alSent)) = alSent
    BY <1>1
  <2>2. TrackedCall \/ StreamCall BY <2>1, EndStays
  <2>3. alPc = "turn" /\ alSent' = withTurnContext(alConvo, alRun.anchor)
    BY <2>2 DEF TrackedCall, StreamCall, AgentCall
  <2>4. /\ alConvo \in Seq(AgentMsgType) /\ alRun.anchor \in 1..Len(alConvo) /\ alSent \in Seq(AgentMsgType)
        /\ Len(alSent) <= Len(alConvo) /\ Len(alSent) \in Nat /\ Len(alConvo) \in Nat
        /\ \A i \in 1..Len(alSent) : alSent[i] = IF i = alRun.anchor THEN [alConvo[i] EXCEPT !.ctx = TRUE] ELSE alConvo[i]
    BY <1>1, <2>1, <2>3 DEF AgentIInv, WireInv, SentInv, Asking, Responding
  <2>5. /\ alSent' \in Seq(AgentMsgType) /\ Len(alSent') = Len(alConvo)
        /\ \A i \in 1..Len(alConvo) : alSent'[i] = IF i = alRun.anchor THEN [alConvo[i] EXCEPT !.ctx = TRUE] ELSE alConvo[i]
    BY <2>3, <2>4, ContextFacts, ZenonT(40)
  <2>6. ASSUME NEW i \in 1..Len(alSent) PROVE alSent'[i] = alSent[i]
    <3>1. i \in 1..Len(alConvo) BY <2>4
    <3>2. CASE i = alRun.anchor BY <2>4, <2>5, <3>1, <3>2
    <3>3. CASE i # alRun.anchor BY <2>4, <2>5, <3>1, <3>3
    <3> QED BY <3>2, <3>3
  <2>7. SubSeq(alSent', 1, Len(alSent)) = alSent
    <3>1. Len(alSent) <= Len(alSent') /\ \A i \in 1..Len(alSent) : alSent'[i] = alSent[i] BY <2>4, <2>5, <2>6
    <3> QED BY ONLY <2>4, <2>5, <3>1, LeadingPart, ZenonT(40)
  <2> QED BY <2>4, <2>5, <2>7
<1>2. AgentIInv /\ [AgentNext]_agentVars => [Step]_agentVars BY <1>1
<1> QED BY <1>2, AgentAlways, PTL DEF AgentSpec, AgentPrefixStable

-----------------------------------------------------------------------------
(* The component SessionHistory                                               *)

RowType == [seq : Nat, role : {"user", "assistant"}, text : BOOLEAN, tool : {"use", "result", "none"}, cost : Nat]

LEMMA RowFields ==
  ASSUME NEW r \in RowType
  PROVE  /\ r.seq \in Nat /\ r.role \in {"user", "assistant"} /\ r.text \in BOOLEAN
         /\ r.tool \in {"use", "result", "none"} /\ r.cost \in Nat
         /\ DOMAIN r = {"seq", "role", "text", "tool", "cost"}
BY DEF RowType

LEMMA RowsIndexed ==
  ASSUME NEW rows \in Seq(RowType)
  PROVE  Len(rows) \in Nat /\ \A i \in 1..Len(rows) : rows[i] \in RowType
OBVIOUS

-----------------------------------------------------------------------------
(* Costs                                                                       *)

Costs(rows) == [i \in 1..Len(rows) |-> rows[i].cost]

LEMMA CostsFacts ==
  ASSUME NEW rows \in Seq(RowType)
  PROVE  /\ Costs(rows) \in Seq(Nat) /\ Costs(rows) \in Seq(Int) /\ Len(Costs(rows)) = Len(rows)
         /\ \A i \in 1..Len(rows) : Costs(rows)[i] = rows[i].cost
         /\ CostOf(rows) = SumOf(Costs(rows))
<1>1. Len(rows) \in Nat /\ \A i \in 1..Len(rows) : rows[i].cost \in Nat BY RowsIndexed, RowFields
<1>2. Costs(rows) \in [1..Len(rows) -> Nat] BY <1>1 DEF Costs
<1>3. Costs(rows) \in [1..Len(rows) -> Int] BY <1>2
<1>4. CostOf(rows) = SumOf(Costs(rows)) BY DEF CostOf, Costs
<1>5. \A i \in 1..Len(rows) : Costs(rows)[i] = rows[i].cost BY DEF Costs
<1>6. Costs(rows) \in Seq(Nat) /\ Costs(rows) \in Seq(Int) /\ Len(Costs(rows)) = Len(rows) BY <1>1, <1>2, <1>3
<1> QED BY <1>4, <1>5, <1>6

LEMMA CostAppend ==
  ASSUME NEW rows \in Seq(RowType), NEW row \in RowType, NEW t, t = Append(rows, row)
  PROVE  CostOf(t) = CostOf(rows) + row.cost
<1> DEFINE L == Len(rows)
<1>1. t \in Seq(RowType) /\ Len(t) = L + 1 /\ t[L + 1] = row /\ \A i \in 1..L : t[i] = rows[i] OBVIOUS
<1>2. /\ Costs(t) \in Seq(Int) /\ Len(Costs(t)) = L + 1 /\ \A i \in 1..(L + 1) : Costs(t)[i] = t[i].cost
      /\ CostOf(t) = SumOf(Costs(t))
  BY <1>1, CostsFacts
<1>3. /\ Costs(rows) \in Seq(Int) /\ Len(Costs(rows)) = L /\ \A i \in 1..L : Costs(rows)[i] = rows[i].cost
      /\ CostOf(rows) = SumOf(Costs(rows))
  BY CostsFacts
<1>4. row.cost \in Int /\ L \in Nat BY RowFields
<1>5. Costs(t) = Append(Costs(rows), row.cost)
  <2> DEFINE a == Costs(t) 
             b == Append(Costs(rows), row.cost)
  <2>1. b \in Seq(Int) /\ Len(b) = L + 1 /\ b[L + 1] = row.cost /\ \A i \in 1..L : b[i] = Costs(rows)[i] BY <1>3, <1>4
  <2>2. a \in Seq(Int) /\ Len(a) = L + 1 BY <1>2
  <2>3. ASSUME NEW i \in 1..(L + 1) PROVE a[i] = b[i]
    <3>1. CASE i = L + 1 BY <1>1, <1>2, <2>1, <3>1
    <3>2. CASE i # L + 1
      <4>1. i \in 1..L BY <1>4, <3>2
      <4> QED BY <1>1, <1>2, <1>3, <2>1, <4>1
    <3> QED BY <3>1, <3>2
  <2> HIDE DEF a, b
  <2>4. a = b BY <2>1, <2>2, <2>3
  <2> QED BY <2>4 DEF a, b
<1>6. SumOf(Costs(t)) = SumOf(Costs(rows)) + row.cost BY <1>3, <1>4, <1>5, SumAppend
<1> QED BY <1>2, <1>3, <1>6

\* The costs of leading parts are the sums so far.
LEMMA CostPrefix ==
  ASSUME NEW rows \in Seq(RowType), NEW f, Sums(Costs(rows), f), NEW k \in 0..Len(rows), NEW t, t = SubSeq(rows, 1, k)
  PROVE  CostOf(t) = f[k]
<1>1. Len(rows) \in Nat /\ k \in Nat /\ k <= Len(rows) OBVIOUS
<1>2. t \in Seq(RowType) /\ Len(t) = k /\ \A i \in 1..k : t[i] = rows[i] BY <1>1
<1>3. /\ Costs(t) \in Seq(Int) /\ Len(Costs(t)) = k /\ \A i \in 1..k : Costs(t)[i] = t[i].cost
      /\ CostOf(t) = SumOf(Costs(t))
  BY <1>2, CostsFacts
<1>4. /\ Costs(rows) \in Seq(Int) /\ Len(Costs(rows)) = Len(rows)
      /\ \A i \in 1..Len(rows) : Costs(rows)[i] = rows[i].cost
  BY CostsFacts
<1> DEFINE a == Costs(t)
           b == SubSeq(Costs(rows), 1, k)
<1>5. b \in Seq(Int) /\ Len(b) = k /\ \A i \in 1..k : b[i] = Costs(rows)[i] BY <1>1, <1>4
<1>6. \A i \in 1..k : a[i] = b[i] 
  <2> SUFFICES ASSUME NEW i \in 1..k PROVE a[i] = b[i] OBVIOUS
  <2>1. i \in 1..Len(rows) BY <1>1
  <2> QED BY <1>2, <1>3, <1>4, <1>5, <2>1
<1>7. a \in Seq(Int) /\ Len(a) = k BY <1>3
<1> HIDE DEF a, b
<1>8. a = b BY <1>5, <1>6, <1>7
<1>9. b = SubSeq(Costs(rows), 1, k) BY DEF b
<1>10. k \in 0..Len(Costs(rows)) BY <1>4
<1>11. SumOf(b) = f[k] BY <1>4, <1>9, <1>10, SumPrefix
<1> QED BY <1>3, <1>8, <1>11 DEF a

\* w is the m first of cands read backwards.
Backwards(cands, m, w) ==
  w \in Seq(RowType) /\ Len(w) = m /\ \A n \in 1..m : w[n] = cands[m - n + 1]

\* A leading part read backwards costs the same.
LEMMA CostBackwards ==
  ASSUME NEW rows \in Seq(RowType), NEW m \in 0..Len(rows), NEW w, Backwards(rows, m, w),
         NEW t, t = SubSeq(rows, 1, m)
  PROVE  CostOf(w) = CostOf(t)
<1> USE DEF Backwards
<1>1. Len(rows) \in Nat /\ m \in Nat /\ m <= Len(rows) OBVIOUS
<1>2. t \in Seq(RowType) /\ Len(t) = m /\ \A i \in 1..m : t[i] = rows[i] BY <1>1
<1>3. /\ Costs(t) \in Seq(Int) /\ Len(Costs(t)) = m /\ \A i \in 1..m : Costs(t)[i] = t[i].cost
      /\ CostOf(t) = SumOf(Costs(t))
  BY <1>2, CostsFacts
<1>4. /\ Costs(w) \in Seq(Int) /\ Len(Costs(w)) = m /\ \A i \in 1..m : Costs(w)[i] = w[i].cost
      /\ CostOf(w) = SumOf(Costs(w))
  BY CostsFacts
<1>5. ASSUME NEW n \in 1..m PROVE Costs(w)[n] = Costs(t)[m - n + 1]
  <2> DEFINE x == m - n + 1
  <2>1. x \in 1..m BY <1>1
  <2>2. w[n] = rows[x] OBVIOUS
  <2> HIDE DEF x
  <2>3. Costs(w)[n] = w[n].cost BY <1>4, Zenon
  <2>4. Costs(t)[x] = t[x].cost BY <1>3, <2>1, Zenon
  <2>5. t[x] = rows[x] BY <1>2, <2>1, Zenon
  <2>6. Costs(w)[n] = Costs(t)[x] BY ONLY <2>3, <2>4, <2>5, <2>2, Zenon
  <2> QED BY <2>6 DEF x
<1>6. SumOf(Costs(w)) = SumOf(Costs(t)) BY <1>3, <1>4, <1>5, SumReverse
<1> QED BY <1>3, <1>4, <1>6

-----------------------------------------------------------------------------
(* Dialogue windows                                                            *)

LEMMA ReverseFacts ==
  ASSUME NEW s \in Seq(RowType), NEW t, t = Reverse(s)
  PROVE  t \in Seq(RowType) /\ Len(t) = Len(s) /\ \A i \in 1..Len(s) : t[i] = s[(Len(s) - i) + 1]
<1>1. Len(s) \in Nat /\ \A i \in 1..Len(s) : s[i] \in RowType OBVIOUS
<1>2. t = [i \in 1..Len(s) |-> s[(Len(s) - i) + 1]] BY DEF Reverse
<1>3. ASSUME NEW i \in 1..Len(s) PROVE s[(Len(s) - i) + 1] \in RowType
  <2>1. (Len(s) - i) + 1 \in 1..Len(s) BY <1>1
  <2> QED BY <1>1, <2>1
<1>4. t \in [1..Len(s) -> RowType] BY <1>2, <1>3
<1>5. t \in Seq(RowType) /\ Len(t) = Len(s) BY <1>1, <1>4
<1> QED BY <1>2, <1>5

LEMMA PartFacts ==
  ASSUME NEW s \in Seq(RowType), NEW u \in 1..Len(s), NEW t, t = SubSeq(s, u, Len(s))
  PROVE  t \in Seq(RowType) /\ Len(t) = (Len(s) - u) + 1 /\ \A n \in 1..((Len(s) - u) + 1) : t[n] = s[(u + n) - 1]
<1>1. Len(s) \in Nat /\ u \in Nat /\ 1 <= u /\ u <= Len(s) OBVIOUS
<1>2. Len(t) = (Len(s) - u) + 1 BY <1>1
<1>3. t \in Seq(RowType) BY <1>1
<1>4. \A n \in 1..((Len(s) - u) + 1) : t[n] = s[(u + n) - 1] BY <1>1
<1> QED BY <1>2, <1>3, <1>4

LEMMA TrimmedWindow ==
  ASSUME NEW cands \in Seq(RowType), NEW k \in 1..Len(cands), cands[1].role = "user",
         NEW w, w = trimLeadingToUser(Reverse(SubSeq(cands, 1, k)))
  PROVE  \E m \in 1..k : Backwards(cands, m, w) /\ w[1].role = "user"
<1> DEFINE p == SubSeq(cands, 1, k)
           v == Reverse(p)
           U == {i \in 1..Len(v) : v[i].role = "user"}
           u == CHOOSE i \in U : \A j \in U : i <= j
<1>1. k \in Nat /\ 1 <= k /\ Len(cands) \in Nat /\ k <= Len(cands) OBVIOUS
<1>2. p \in Seq(RowType) /\ Len(p) = k /\ \A i \in 1..k : p[i] = cands[i] BY <1>1
<1> HIDE DEF p
<1>3. v \in Seq(RowType) /\ Len(v) = k /\ \A i \in 1..k : v[i] = p[(k - i) + 1] BY <1>2, ReverseFacts
<1>4. w = IF U = {} THEN <<>> ELSE SubSeq(v, u, Len(v)) BY DEF trimLeadingToUser, p
<1> HIDE DEF v
<1>5. k \in U
  <2>1. k \in 1..k /\ (k - k) + 1 = 1 /\ 1 \in 1..k BY <1>1
  <2>2. v[k] = cands[1] BY <1>2, <1>3, <2>1
  <2> QED BY <1>3, <2>1, <2>2
<1>6. U \in SUBSET Nat /\ U # {} BY <1>5
<1>7. u \in U BY <1>6, ChooseLeast
<1>8. w = SubSeq(v, u, Len(v)) BY <1>4, <1>5
<1>9. u \in 1..k /\ v[u].role = "user" BY <1>3, <1>7
<1> HIDE DEF U, u
<1> DEFINE m == (k - u) + 1
<1>10. m \in 1..k /\ m \in Nat BY <1>1, <1>9
<1>11. w \in Seq(RowType) /\ Len(w) = m /\ \A n \in 1..m : w[n] = v[(u + n) - 1]
  <2>1. u \in 1..Len(v) /\ v \in Seq(RowType) BY <1>3, <1>9
  <2>2. w \in Seq(RowType) /\ Len(w) = (Len(v) - u) + 1 /\ \A n \in 1..((Len(v) - u) + 1) : w[n] = v[(u + n) - 1]
    BY ONLY <1>8, <2>1, PartFacts, ZenonT(60)
  <2> QED BY <1>3, <2>2
<1>12. ASSUME NEW n \in 1..m PROVE w[n] = cands[m - n + 1]
  <2> DEFINE x == (u + n) - 1
             y == m - n + 1
  <2>1. x \in 1..k /\ (k - x) + 1 = y /\ y \in 1..k BY <1>1, <1>9
  <2>2. w[n] = v[x] BY <1>11
  <2> HIDE DEF x, y
  <2>3. v[x] = cands[y] BY <1>2, <1>3, <2>1
  <2>4. w[n] = cands[y] BY <2>2, <2>3
  <2> QED BY <2>4 DEF y
<1>13. w[1].role = "user"
  <2>1. 1 \in 1..m /\ (u + 1) - 1 = u BY <1>9, <1>10
  <2> QED BY <1>9, <1>11, <2>1
<1> HIDE DEF m
<1> QED BY <1>10, <1>11, <1>12, <1>13 DEF Backwards

\* What a window promises: it starts on a user row, ends on the row given and
\* costs no more than its budget unless it is a single row.
GoodWindow(w, seq, max) ==
  /\ w # <<>> /\ Head(w).role = "user" /\ w[Len(w)].seq = seq
  /\ CostOf(w) <= max \/ Len(w) = 1

LEMMA WindowIsGood ==
  ASSUME NEW cands \in Seq(RowType), NEW k \in 1..Len(cands), cands[1].role = "user", NEW max \in Nat,
         FitsBudget(cands, k, max) \/ k = 1,
         NEW w, w = trimLeadingToUser(Reverse(SubSeq(cands, 1, k)))
  PROVE  GoodWindow(w, cands[1].seq, max)
<1>1. PICK m \in 1..k : Backwards(cands, m, w) /\ w[1].role = "user" BY TrimmedWindow
<1>2. k \in Nat /\ m \in Nat /\ 1 <= m /\ m <= k /\ Len(cands) \in Nat /\ k <= Len(cands) OBVIOUS
<1>3. w \in Seq(RowType) /\ Len(w) = m /\ \A n \in 1..m : w[n] = cands[m - n + 1] BY <1>1 DEF Backwards
<1>4. w # <<>> /\ Head(w) = w[1] BY <1>2, <1>3
<1>5. w[Len(w)] = cands[1]
  <2>1. m \in 1..m /\ m - m + 1 = 1 BY <1>2
  <2> QED BY <1>3, <2>1
<1>6. CASE k = 1 BY <1>1, <1>2, <1>3, <1>4, <1>5, <1>6 DEF GoodWindow
<1>7. CASE FitsBudget(cands, k, max)
  <2>1. PICK f : Sums(Costs(cands), f)
    <3>1. Costs(cands) \in Seq(Int) BY CostsFacts
    <3> QED BY <3>1, SumsExist
  <2> DEFINE a == SubSeq(cands, 1, k)
             b == SubSeq(cands, 1, m)
  <2>2. k \in 0..Len(cands) /\ m \in 0..Len(cands) BY <1>2
  <2>3. CostOf(a) = f[k] /\ CostOf(b) = f[m]
    <3>1. a = SubSeq(cands, 1, k) /\ b = SubSeq(cands, 1, m) OBVIOUS
    <3> HIDE DEF a, b
    <3> QED BY <2>1, <2>2, <3>1, CostPrefix
  <2>4. CostOf(w) = CostOf(b)
    <3>1. b = SubSeq(cands, 1, m) OBVIOUS
    <3> HIDE DEF b
    <3>2. m \in 0..Len(cands) /\ Backwards(cands, m, w) BY <1>1, <2>2
    <3> QED BY ONLY cands \in Seq(RowType), <3>1, <3>2, CostBackwards, ZenonT(60)
  <2>5. CostOf(a) <= max BY <1>7 DEF FitsBudget
  <2> HIDE DEF a, b
  <2>6. Costs(cands) \in Seq(Nat) /\ Len(Costs(cands)) = Len(cands) BY CostsFacts
  <2>7. m \in 0..Len(Costs(cands)) /\ k \in 0..Len(Costs(cands)) /\ m <= k BY <1>2, <2>2, <2>6
  <2>8. f[m] <= f[k] /\ f[m] \in Nat /\ f[k] \in Nat BY <2>1, <2>6, <2>7, SumsGrow
  <2>9. CostOf(w) <= max BY <2>3, <2>4, <2>5, <2>8
  <2> QED BY <1>1, <1>4, <1>5, <2>9 DEF GoodWindow
<1> QED BY <1>6, <1>7

\* What the readers select is a leading part that fits, or one row.
Selects(cands, max, k) == k \in 1..Len(cands) /\ (FitsBudget(cands, k, max) \/ k = 1)

LEMMA EmptyFits == ASSUME NEW cands \in Seq(RowType), NEW max \in Nat PROVE FitsBudget(cands, 0, max)
<1> DEFINE t == SubSeq(cands, 1, 0)
<1>1. t = <<>> /\ t \in Seq(RowType) OBVIOUS
<1> HIDE DEF t
<1>2. Costs(t) \in Seq(Int) /\ Len(Costs(t)) = 0 /\ CostOf(t) = SumOf(Costs(t)) BY <1>1, CostsFacts
<1>3. Costs(t) = <<>> BY <1>2
<1>4. CostOf(t) = 0 BY <1>2, <1>3, SumEmpty
<1> QED BY <1>4 DEF FitsBudget, t

LEMMA BudgetSelects ==
  ASSUME NEW cands \in Seq(RowType), cands # <<>>, NEW max \in Nat
  PROVE  \E k : Selects(cands, max, k) /\ selectDialogCandidatesWithinBudget(cands, max) = SubSeq(cands, 1, k)
<1> DEFINE fit == {n \in 0..Len(cands) : FitsBudget(cands, n, max)}
           n == CHOOSE m \in fit : \A k \in fit : k <= m
           k == IF n = 0 /\ cands # <<>> THEN 1 ELSE n
<1>1. Len(cands) \in Nat /\ Len(cands) # 0 OBVIOUS
<1>2. 0 \in fit BY <1>1, EmptyFits
<1>3. n \in fit
  <2>1. fit \in SUBSET Nat /\ fit # {} /\ \A x \in fit : x <= Len(cands) BY <1>1, <1>2
  <2> HIDE DEF fit
  <2> QED BY <1>1, <2>1, ChooseGreatest
<1>4. selectDialogCandidatesWithinBudget(cands, max) = SubSeq(cands, 1, k) BY DEF selectDialogCandidatesWithinBudget
<1>5. n \in 0..Len(cands) /\ FitsBudget(cands, n, max) BY <1>3
<1> HIDE DEF n
<1>6. Selects(cands, max, k)
  <2>1. CASE n = 0 BY <1>1, <2>1 DEF Selects
  <2>2. CASE n # 0 BY <1>1, <1>5, <2>2 DEF Selects
  <2> QED BY <2>1, <2>2
<1> QED BY <1>4, <1>6

LEMMA BlockKeepBound == ASSUME NEW n \in Nat PROVE BlockKeep(n) \in Int /\ BlockKeep(n) <= n
<1> DEFINE B == dialogWindowBlock
<1>1. B \in Nat /\ B > 0 BY SessionConstants
<1>2. CASE n > B
  <2> DEFINE q == (n - B) \div B
  <2>1. n - B \in Nat BY <1>1, <1>2
  <2>2. q \in Nat BY <1>1, <2>1
  <2> HIDE DEF q
  <2>3. q * B \in Nat BY <1>1, <2>2
  <2>4. BlockKeep(n) = n - q * B BY <1>2 DEF BlockKeep, q
  <2> DEFINE z == q * B
  <2> HIDE DEF z
  <2>5. BlockKeep(n) = n - z /\ z \in Nat BY <2>3, <2>4 DEF z
  <2> QED BY <2>5
<1>3. CASE ~ (n > B) BY <1>3 DEF BlockKeep
<1> QED BY <1>2, <1>3

LEMMA BlockSelects ==
  ASSUME NEW rows, NEW max \in Nat, NEW cands \in Seq(RowType), cands = visibleDialogCandidates(rows), cands # <<>>
  PROVE  \E k : Selects(cands, max, k) /\ dialogMessagesOnBlockAnchor(rows, max).rows = trimLeadingToUser(Reverse(SubSeq(cands, 1, k)))
<1> DEFINE top == BlockKeep(Len(cands))
           keeps == {k \in 1..top : (top - k) % dialogWindowBlock = 0 /\ FitsBudget(cands, k, max)}
           c == CHOOSE k \in keeps : \A j \in keeps : j <= k
<1>1. Len(cands) \in Nat OBVIOUS
<1>2. top \in Int /\ top <= Len(cands) BY <1>1, BlockKeepBound
<1>3. dialogMessagesOnBlockAnchor(rows, max) =
        IF keeps # {} THEN Window(SubSeq(cands, 1, c), "block", max)
        ELSE Window(selectDialogCandidatesWithinBudget(cands, max), "fallback", max)
  BY DEF dialogMessagesOnBlockAnchor
<1> HIDE DEF top
<1>4. CASE keeps # {}
  <2>1. keeps \in SUBSET Nat /\ \A x \in keeps : x <= Len(cands) /\ x \in 1..Len(cands) /\ FitsBudget(cands, x, max) BY <1>1, <1>2
  <2> HIDE DEF keeps
  <2>2. c \in keeps BY <1>1, <1>4, <2>1, ChooseGreatest
  <2>3. Selects(cands, max, c) BY <2>1, <2>2 DEF Selects
  <2> HIDE DEF c
  <2>4. dialogMessagesOnBlockAnchor(rows, max).rows = trimLeadingToUser(Reverse(SubSeq(cands, 1, c))) BY <1>3, <1>4 DEF Window
  <2> QED BY <2>3, <2>4
<1>5. CASE keeps = {}
  <2> HIDE DEF keeps, c
  <2>1. PICK k : Selects(cands, max, k) /\ selectDialogCandidatesWithinBudget(cands, max) = SubSeq(cands, 1, k) BY BudgetSelects
  <2>2. dialogMessagesOnBlockAnchor(rows, max).rows = trimLeadingToUser(Reverse(SubSeq(cands, 1, k))) BY <1>3, <1>5, <2>1 DEF Window
  <2> QED BY <2>1, <2>2
<1> QED BY <1>4, <1>5

\* The visible rows, newest first: the newest is the first of them if it has text.
LEMMA VisibleFacts ==
  ASSUME NEW rows \in Seq(RowType), NEW cands, cands = visibleDialogCandidates(rows)
  PROVE  /\ cands \in Seq(RowType)
         /\ cands # <<>> => rows # <<>>
         /\ (rows # <<>> /\ rows[1].text) => cands # <<>> /\ cands[1].seq = rows[1].seq /\ cands[1].role = rows[1].role
<1> DEFINE K == {i \in 1..Len(rows) : rows[i].text}
           v == KeepAt(rows, K)
           d == [i \in 1..Len(v) |-> visibleDialogCandidate(v[i])]
<1>1. cands = applyTranslationHistoryLayout(d) BY DEF visibleDialogCandidates
<1>2. v \in Seq(RowType) /\ \E g : Kept(rows, K, v, g)
  <2>1. v = KeepAt(rows, K) OBVIOUS
  <2> HIDE DEF v, K
  <2> QED BY <2>1, KeepFacts, Zenon
<1>3. PICK g : Kept(rows, K, v, g) BY <1>2
<1>4. /\ g \in [1..Len(v) -> 1..Len(rows)] /\ \A i, j \in 1..Len(v) : i < j => g[i] < g[j]
      /\ \A i \in 1..Len(v) : v[i] = rows[g[i]] /\ g[i] \in K
      /\ \A k \in 1..Len(rows) : k \in K => \E i \in 1..Len(v) : g[i] = k
  BY <1>3, Zenon DEF Kept, KeptUpTo
<1>5. (rows # <<>> /\ rows[1].text) => v # <<>> /\ v[1] = rows[1]
  <2> SUFFICES ASSUME rows # <<>>, rows[1].text PROVE v # <<>> /\ v[1] = rows[1] OBVIOUS
  <2>1. 1 \in 1..Len(rows) /\ 1 \in K OBVIOUS
  <2> HIDE DEF v, K
  <2>2. PICK i \in 1..Len(v) : g[i] = 1 BY <1>4, <2>1
  <2>3. Len(v) \in Nat /\ 1 \in 1..Len(v) BY <1>2, <2>2
  <2>4. i = 1
    <3> SUFFICES ASSUME i # 1 PROVE FALSE OBVIOUS
    <3>1. 1 < i BY <2>3
    <3>2. g[1] < g[i] BY <1>4, <2>3, <3>1
    <3>3. g[1] \in 1..Len(rows) BY <1>4, <2>3
    <3> QED BY <2>2, <3>2, <3>3
  <2> QED BY <1>2, <1>4, <2>2, <2>3, <2>4
<1> HIDE DEF v
<1>6. Len(v) \in Nat /\ \A i \in 1..Len(v) : v[i] \in RowType BY <1>2
<1>7. \A i \in 1..Len(v) : d[i] \in RowType /\ d[i].seq = v[i].seq /\ d[i].role = v[i].role
  BY <1>6 DEF visibleDialogCandidate, RowType
<1>8. d \in Seq(RowType) /\ Len(d) = Len(v)
  <2>1. d \in [1..Len(v) -> RowType] BY <1>7
  <2> QED BY <1>6, <2>1
<1> HIDE DEF d
<1>9. cands = [i \in 1..Len(d) |-> IF shTranslation /\ i > FullRecent THEN [d[i] EXCEPT !.cost = 1] ELSE d[i]]
  BY <1>1 DEF applyTranslationHistoryLayout
<1>10. \A i \in 1..Len(d) : cands[i] \in RowType /\ cands[i].seq = v[i].seq /\ cands[i].role = v[i].role
  <2> SUFFICES ASSUME NEW i \in 1..Len(d) PROVE cands[i] \in RowType /\ cands[i].seq = v[i].seq /\ cands[i].role = v[i].role OBVIOUS
  <2>1. d[i] \in RowType /\ d[i].seq = v[i].seq /\ d[i].role = v[i].role BY <1>7, <1>8
  <2>2. [d[i] EXCEPT !.cost = 1] \in RowType /\ [d[i] EXCEPT !.cost = 1].seq = d[i].seq /\ [d[i] EXCEPT !.cost = 1].role = d[i].role
    BY <2>1 DEF RowType
  <2>3. cands[i] = d[i] \/ cands[i] = [d[i] EXCEPT !.cost = 1] BY <1>9
  <2> QED BY <2>1, <2>2, <2>3, Zenon
<1>11. cands \in Seq(RowType) /\ Len(cands) = Len(v)
  <2>1. cands \in [1..Len(v) -> RowType] BY <1>8, <1>9, <1>10
  <2> QED BY <1>6, <2>1
<1>12. ASSUME rows # <<>>, rows[1].text
       PROVE  cands # <<>> /\ cands[1].seq = rows[1].seq /\ cands[1].role = rows[1].role
  <2>1. v # <<>> /\ v[1] = rows[1] BY <1>5, <1>12
  <2>2. Len(v) # 0 /\ 1 \in 1..Len(d) BY <1>2, <1>6, <1>8, <2>1
  <2>3. cands # <<>> BY <1>11, <2>2
  <2> QED BY <1>10, <2>1, <2>2, <2>3
<1>13. ASSUME cands # <<>> PROVE rows # <<>>
  <2>1. Len(v) # 0 BY <1>11, <1>13
  <2>2. 1 \in 1..Len(v) BY <1>6, <2>1
  <2>3. g[1] \in 1..Len(rows) BY <1>4, <2>2
  <2> QED BY <2>3
<1> QED BY <1>11, <1>12, <1>13

LEMMA NewestFacts ==
  ASSUME NEW rows \in Seq(RowType), NEW R, R = NewestRows(rows)
  PROVE  /\ R \in Seq(RowType) /\ (R # <<>> <=> rows # <<>>) /\ Len(R) <= Len(rows)
         /\ \A i \in 1..Len(R) : R[i] = rows[(Len(rows) - i) + 1]
<1> DEFINE L == Len(rows)
           u == IF L > RowLimit THEN L - RowLimit + 1 ELSE 1
           p == SubSeq(rows, u, L)
<1>1. L \in Nat /\ RowLimit \in Nat /\ RowLimit > 0 BY SessionConstants
<1>2. R = Reverse(p) BY DEF NewestRows
<1>3. CASE rows = <<>>
  <2>1. L = 0 /\ u = 1 BY <1>1, <1>3
  <2>2. p = <<>> /\ p \in Seq(RowType) /\ Len(p) = 0 BY <2>1, <1>3
  <2> HIDE DEF p
  <2>3. R \in Seq(RowType) /\ Len(R) = 0 BY <1>2, <2>2, ReverseFacts
  <2> QED BY <1>3, <2>1, <2>3
<1>4. CASE rows # <<>>
  <2>1. L > 0 BY <1>1, <1>4
  <2>2. u \in 1..L BY <1>1, <2>1
  <2> HIDE DEF u
  <2> DEFINE m == (L - u) + 1
  <2>3. p \in Seq(RowType) /\ Len(p) = m /\ \A n \in 1..m : p[n] = rows[(u + n) - 1] BY <2>2, PartFacts
  <2> HIDE DEF p
  <2>4. R \in Seq(RowType) /\ Len(R) = m /\ \A i \in 1..m : R[i] = p[(m - i) + 1] BY <1>2, <2>3, ReverseFacts
  <2>5. m \in Nat /\ m >= 1 /\ m <= L BY <1>1, <2>2
  <2>6. ASSUME NEW i \in 1..m PROVE R[i] = rows[(L - i) + 1]
    <3> DEFINE x == (m - i) + 1
               y == (u + x) - 1
    <3>1. x \in 1..m BY <2>5
    <3>2. y = (L - i) + 1 BY <1>1, <2>2, <2>5
    <3>3. R[i] = p[x] BY <2>4
    <3> HIDE DEF x
    <3>4. p[x] = rows[y] BY <2>3, <3>1
    <3> HIDE DEF y
    <3> QED BY <3>2, <3>3, <3>4
  <2> HIDE DEF m
  <2>7. R # <<>> BY <2>4, <2>5
  <2> QED BY <1>4, <2>4, <2>5, <2>6, <2>7
<1> QED BY <1>3, <1>4

\* The rows are in the order of their sequence numbers.
Ordered(rows) == \A i, j \in 1..Len(rows) : i < j => rows[i].seq < rows[j].seq

LEMMA SinceFacts ==
  ASSUME NEW rows \in Seq(RowType), Ordered(rows), NEW b \in Nat, NEW t, t = RowsSince(rows, b)
  PROVE  t \in Seq(RowType) /\ (t # <<>> => rows # <<>> /\ t[Len(t)] = rows[Len(rows)])
<1> DEFINE K == {i \in 1..Len(rows) : rows[i].seq > b}
           L == Len(rows)
           M == Len(t)
<1>1. t = KeepAt(rows, K) BY DEF RowsSince
<1>2. t \in Seq(RowType) /\ \E g : Kept(rows, K, t, g)
  <2> HIDE DEF K
  <2> QED BY <1>1, KeepFacts, Zenon
<1>3. PICK g : Kept(rows, K, t, g) BY <1>2
<1>4. /\ g \in [1..Len(t) -> 1..Len(rows)] /\ \A i, j \in 1..Len(t) : i < j => g[i] < g[j]
      /\ \A i \in 1..Len(t) : t[i] = rows[g[i]] /\ g[i] \in K
      /\ \A k \in 1..Len(rows) : k \in K => \E i \in 1..Len(t) : g[i] = k
  BY <1>3, Zenon DEF Kept, KeptUpTo
<1>5. ASSUME t # <<>> PROVE rows # <<>> /\ t[Len(t)] = rows[Len(rows)]
  <2>1. M \in Nat /\ M \in 1..M BY <1>2, <1>5
  <2> DEFINE z == g[M]
  <2>2. z \in 1..L /\ z \in K /\ t[M] = rows[z] BY <1>4, <2>1
  <2> HIDE DEF z, K
  <2>3. L \in Nat /\ L \in 1..L /\ rows # <<>> BY <2>2
  <2>4. rows[z].seq \in Nat /\ rows[L].seq \in Nat BY <2>2, <2>3, RowsIndexed, RowFields
  <2>5. rows[z].seq > b BY <2>2 DEF K
  <2>6. rows[L].seq > b
    <3>1. CASE z = L BY <2>5, <3>1
    <3>2. CASE z # L
      <4>1. z < L BY <2>2, <2>3, <3>2
      <4>2. rows[z].seq < rows[L].seq BY <2>2, <2>3, <4>1 DEF Ordered
      <4> QED BY <2>4, <2>5, <4>2
    <3> QED BY <3>1, <3>2
  <2>7. L \in K BY <2>3, <2>6 DEF K
  <2>8. PICK i \in 1..M : g[i] = L BY <1>4, <2>3, <2>7
  <2>9. i = M
    <3> SUFFICES ASSUME i # M PROVE FALSE OBVIOUS
    <3>1. i < M BY <2>1
    <3>2. g[i] < g[M] BY <1>4, <2>1, <3>1
    <3>3. L < z /\ z <= L BY <2>2, <2>3, <2>8, <3>2 DEF z
    <3> QED BY <2>2, <2>3, <3>3
  <2> QED BY <2>2, <2>3, <2>8, <2>9 DEF z
<1> QED BY <1>2, <1>5

\* A window over rows whose newest is a user's turn.
LEMMA AnchoredIsGood ==
  ASSUME NEW rows \in Seq(RowType), rows # <<>>, rows[1].text, rows[1].role = "user", NEW max \in Nat
  PROVE  GoodWindow(dialogMessagesOnBlockAnchor(rows, max).rows, rows[1].seq, max)
<1> DEFINE cands == visibleDialogCandidates(rows)
<1>1. /\ cands \in Seq(RowType) /\ cands # <<>>
      /\ cands[1].seq = rows[1].seq /\ cands[1].role = "user"
  BY VisibleFacts
<1>2. cands = visibleDialogCandidates(rows) OBVIOUS
<1> HIDE DEF cands
<1> DEFINE w == dialogMessagesOnBlockAnchor(rows, max).rows
<1>3. PICK k : Selects(cands, max, k) /\ w = trimLeadingToUser(Reverse(SubSeq(cands, 1, k)))
  BY <1>1, <1>2, BlockSelects
<1>4. k \in 1..Len(cands) /\ (FitsBudget(cands, k, max) \/ k = 1) BY <1>3 DEF Selects
<1> HIDE DEF w
<1>5. GoodWindow(w, cands[1].seq, max) BY <1>1, <1>3, <1>4, WindowIsGood
<1> QED BY <1>1, <1>5 DEF w

LEMMA CompleteIsGood ==
  ASSUME NEW rows \in Seq(RowType), rows # <<>> => (rows[1].text /\ rows[1].role = "user"), NEW max \in Nat,
         NEW a, a = dialogMessagesIfComplete(rows, max), a # <<>>
  PROVE  rows # <<>> /\ GoodWindow(a[1].rows, rows[1].seq, max)
<1> DEFINE cands == visibleDialogCandidates(rows)
<1>1. /\ a = IF cands # <<>> /\ FitsBudget(cands, Len(cands), max) THEN <<Window(cands, "summary", max)>> ELSE <<>>
      /\ cands = visibleDialogCandidates(rows)
  BY DEF dialogMessagesIfComplete
<1> HIDE DEF cands
<1>2. cands # <<>> /\ FitsBudget(cands, Len(cands), max) /\ a = <<Window(cands, "summary", max)>> BY <1>1
<1>3. /\ cands \in Seq(RowType) /\ rows # <<>>
      /\ cands[1].seq = rows[1].seq /\ cands[1].role = "user"
  BY <1>1, <1>2, VisibleFacts
<1> DEFINE k == Len(cands)
           w == a[1].rows
<1>4. k \in Nat /\ k \in 1..Len(cands) BY <1>2, <1>3
<1>5. SubSeq(cands, 1, k) = cands BY <1>3
<1>6. w = trimLeadingToUser(Reverse(cands)) BY <1>2 DEF Window
<1>7. FitsBudget(cands, k, max) BY <1>2
<1> HIDE DEF k, w
<1>8. w = trimLeadingToUser(Reverse(SubSeq(cands, 1, k))) BY <1>5, <1>6
<1>9. GoodWindow(w, cands[1].seq, max) BY <1>3, <1>4, <1>7, <1>8, WindowIsGood
<1> QED BY <1>3, <1>9 DEF w

-----------------------------------------------------------------------------
(* Transcripts                                                                 *)

IsUse(rows, i) == rows[i].tool = "use"
IsResult(rows, i) == rows[i].tool = "result"
\* A result is behind its call, where a row is in front of it.
Answers(rows) == \A i \in 2..Len(rows) : IsResult(rows, i) => IsUse(rows, i - 1)

LEMMA AnswersAt ==
  ASSUME NEW rows, Answers(rows), NEW i \in 2..Len(rows), IsResult(rows, i) PROVE IsUse(rows, i - 1)
BY DEF Answers

LEMMA SelectFacts ==
  ASSUME NEW rows \in Seq(RowType), rows # <<>>, NEW max \in Nat
  PROVE  \E k \in 1..Len(rows) : selectMessagesForAPI(rows, max) = SubSeq(rows, 1, k)
<1> DEFINE fit == {n \in 0..Len(rows) : FitsBudget(rows, n, max)}
           n == CHOOSE m \in fit : \A k \in fit : k <= m
           required == latestToolResultTurnSize(rows)
           size == IF n < required THEN required ELSE n
           k == IF size = 0 THEN 1 ELSE size
<1>1. Len(rows) \in Nat /\ Len(rows) # 0 OBVIOUS
<1>2. 0 \in fit BY <1>1, EmptyFits
<1>3. n \in fit
  <2>1. fit \in SUBSET Nat /\ fit # {} /\ \A x \in fit : x <= Len(rows) BY <1>1, <1>2
  <2> HIDE DEF fit
  <2> QED BY <1>1, <2>1, ChooseGreatest
<1>4. required \in 0..Len(rows)
  <2> DEFINE asked == {i \in 2..Len(rows) : rows[i].role = "user" /\ rows[i].tool # "result"
                                     /\ \E j \in 2..(i - 1) : rows[j].tool = "use"}
             c == CHOOSE i \in asked : \A j \in asked : i <= j
  <2>1. required = IF rows[1].tool = "result" /\ asked # {} THEN c ELSE 0 BY DEF latestToolResultTurnSize
  <2>2. asked \in SUBSET Nat /\ \A x \in asked : x \in 0..Len(rows) BY <1>1
  <2> HIDE DEF asked
  <2>3. CASE asked # {}
    <3>1. c \in asked BY <2>2, <2>3, ChooseLeast
    <3> HIDE DEF c
    <3> QED BY <1>1, <2>1, <2>2, <3>1
  <2>4. CASE asked = {} BY <1>1, <2>1, <2>4
  <2> QED BY <2>3, <2>4
<1>5. selectMessagesForAPI(rows, max) = SubSeq(rows, 1, k) BY DEF selectMessagesForAPI
<1>6. n \in 0..Len(rows) BY <1>3
<1> HIDE DEF n, required
<1>7. k \in 1..Len(rows) BY <1>1, <1>4, <1>6
<1> QED BY <1>5, <1>7

\* t is the end of rows behind its first c.
EndOf(rows, c, t) ==
  c \in 0..Len(rows) /\ t \in Seq(RowType) /\ Len(t) = Len(rows) - c /\ \A n \in 1..Len(t) : t[n] = rows[c + n]

LEMMA SelectedEnd ==
  ASSUME NEW rows \in Seq(RowType), rows # <<>>, NEW max \in Nat,
         NEW t, t = Reverse(selectMessagesForAPI(NewestRows(rows), max))
  PROVE  \E c : EndOf(rows, c, t)
<1> DEFINE R == NewestRows(rows)
           L == Len(rows)
<1>1. R \in Seq(RowType) /\ R # <<>> /\ Len(R) <= L /\ \A i \in 1..Len(R) : R[i] = rows[(L - i) + 1] BY NewestFacts
<1> HIDE DEF R
<1>2. PICK k \in 1..Len(R) : selectMessagesForAPI(R, max) = SubSeq(R, 1, k) BY <1>1, SelectFacts
<1> DEFINE p == SubSeq(R, 1, k)
<1>3. L \in Nat /\ Len(R) \in Nat /\ k \in Nat /\ 1 <= k /\ k <= Len(R) /\ k <= L BY <1>1
<1>4. p \in Seq(RowType) /\ Len(p) = k /\ \A i \in 1..k : p[i] = R[i] BY <1>1, <1>3
<1>5. t = Reverse(p) BY <1>2 DEF R
<1> HIDE DEF p
<1>6. t \in Seq(RowType) /\ Len(t) = k /\ \A i \in 1..k : t[i] = p[(k - i) + 1] BY <1>4, <1>5, ReverseFacts
<1> DEFINE c == L - k
<1>7. c \in 0..L /\ L - c = k BY <1>3
<1>8. ASSUME NEW n \in 1..k PROVE t[n] = rows[c + n]
  <2> DEFINE x == (k - n) + 1
             y == (L - x) + 1
  <2>1. x \in 1..k /\ x \in 1..Len(R) BY <1>3
  <2>2. y = c + n BY <1>3
  <2>3. t[n] = p[x] BY <1>6
  <2> HIDE DEF x
  <2>4. p[x] = rows[y] BY <1>1, <1>4, <2>1
  <2> HIDE DEF y
  <2> QED BY <2>2, <2>3, <2>4
<1> HIDE DEF c
<1>9. EndOf(rows, c, t) BY <1>6, <1>7, <1>8 DEF EndOf
<1> QED BY <1>9

\* What trimOrphanedLeading leaves: results behind their calls, and none first.
Whole(t) == Answers(t) /\ (t # <<>> => ~ IsResult(t, 1))

LEMMA TrimmedWhole ==
  ASSUME NEW rows \in Seq(RowType), Answers(rows), NEW c, NEW v, EndOf(rows, c, v), NEW t, t = trimOrphanedLeading(v)
  PROVE  t \in Seq(RowType) /\ Whole(t)
<1> DEFINE S == {i \in 1..Len(v) : v[i].role = "user" /\ v[i].tool # "result"}
           u == CHOOSE i \in S : \A j \in S : i <= j
<1>1. t = IF S = {} THEN <<>> ELSE SubSeq(v, u, Len(v)) BY DEF trimOrphanedLeading
<1>2. c \in 0..Len(rows) /\ v \in Seq(RowType) /\ Len(v) = Len(rows) - c /\ \A n \in 1..Len(v) : v[n] = rows[c + n]
  BY DEF EndOf
<1>3. CASE S = {}
  <2>1. t = <<>> /\ Len(t) = 0 /\ t \in Seq(RowType) BY <1>1, <1>3
  <2>2. \A i \in 2..Len(t) : FALSE BY <2>1
  <2> QED BY <2>1, <2>2 DEF Whole, Answers
<1>4. CASE S # {}
  <2>1. S \in SUBSET Nat OBVIOUS
  <2>2. u \in S BY <1>4, <2>1, ChooseLeast
  <2>3. u \in 1..Len(v) /\ v[u].tool # "result" BY <2>2
  <2>4. t = SubSeq(v, u, Len(v)) BY <1>1, <1>4
  <2> HIDE DEF S, u
  <2>5. Len(rows) \in Nat /\ Len(v) \in Nat /\ c \in Nat /\ u \in Nat /\ 1 <= u /\ u <= Len(v) BY <1>2, <2>3
  <2> DEFINE m == (Len(v) - u) + 1
  <2>6. t \in Seq(RowType) /\ Len(t) = m /\ \A n \in 1..m : t[n] = v[(u + n) - 1]
    <3>1. v \in Seq(RowType) /\ u \in 1..Len(v) BY <1>2, <2>3
    <3> QED BY ONLY <2>4, <3>1, PartFacts, ZenonT(60)
  <2>7. m \in Nat /\ 1 \in 1..m BY <2>5
  <2>8. ~ IsResult(t, 1)
    <3>1. (u + 1) - 1 = u BY <2>5
    <3> QED BY <2>3, <2>6, <2>7, <3>1 DEF IsResult
  <2>9. ASSUME NEW n \in 1..m PROVE t[n] = rows[((c + u) + n) - 1]
    <3> DEFINE x == (u + n) - 1
               y == ((c + u) + n) - 1
    <3>1. x \in 1..Len(v) /\ c + x = y BY <2>5
    <3>2. t[n] = v[x] BY <2>6
    <3> HIDE DEF x, y
    <3>3. v[x] = rows[c + x] BY <1>2, <3>1
    <3> QED BY <3>1, <3>2, <3>3 DEF y
  <2>10. ASSUME NEW i \in 2..m, IsResult(t, i) PROVE IsUse(t, i - 1)
    <3> DEFINE x == ((c + u) + i) - 1
               y == ((c + u) + (i - 1)) - 1
    <3>1. i \in 1..m /\ i - 1 \in 1..m /\ x \in 2..Len(rows) /\ y = x - 1 BY <1>2, <2>5
    <3>2. t[i] = rows[x] /\ t[i - 1] = rows[y] BY <2>9, <3>1
    <3> HIDE DEF x, y
    <3>3. IsResult(rows, x) BY <2>10, <3>2 DEF IsResult
    <3>4. IsUse(rows, y) BY <3>1, <3>3, AnswersAt
    <3> QED BY <3>2, <3>4 DEF IsUse
  <2> HIDE DEF m
  <2>11. Answers(t) BY <2>6, <2>10 DEF Answers
  <2> QED BY <2>6, <2>8, <2>11 DEF Whole
<1> QED BY <1>3, <1>4

\* Neighbours that are both kept stay neighbours.
LEMMA KeptNeighbours ==
  ASSUME NEW s, NEW K, NEW t \in Seq(RowType), NEW g, Kept(s, K, t, g), Len(s) \in Nat,
         NEW k \in 1..Len(s), k + 1 \in 1..Len(s), k \in K, k + 1 \in K
  PROVE  \A i \in 1..Len(t) : /\ g[i] = k => i < Len(t) /\ g[i + 1] = k + 1
                              /\ g[i] = k + 1 => i > 1 /\ g[i - 1] = k
<1>1. /\ g \in [1..Len(t) -> 1..Len(s)] /\ \A i, j \in 1..Len(t) : i < j => g[i] < g[j]
      /\ \A x \in 1..Len(s) : x \in K => \E i \in 1..Len(t) : g[i] = x
  BY Zenon DEF Kept, KeptUpTo
<1>2. PICK a \in 1..Len(t) : g[a] = k BY <1>1
<1>3. PICK b \in 1..Len(t) : g[b] = k + 1 BY <1>1
<1>4. Len(t) \in Nat /\ a \in Nat /\ b \in Nat /\ k \in Nat OBVIOUS
<1>5. \A i \in 1..Len(t) : g[i] \in Nat BY <1>1
<1>6. a < b
  <2> SUFFICES ASSUME ~ (a < b) PROVE FALSE OBVIOUS
  <2>1. CASE a = b BY <1>2, <1>3, <1>4, <2>1
  <2>2. CASE b < a
    <3>1. g[b] < g[a] BY <1>1, <2>2
    <3> QED BY <1>2, <1>3, <1>4, <3>1
  <2> QED BY <1>4, <2>1, <2>2
<1>7. b = a + 1
  <2> SUFFICES ASSUME b # a + 1 PROVE FALSE OBVIOUS
  <2>1. a + 1 \in 1..Len(t) /\ a < a + 1 /\ a + 1 < b BY <1>4, <1>6
  <2>2. g[a] < g[a + 1] /\ g[a + 1] < g[b] BY <1>1, <2>1
  <2>3. g[a + 1] \in Nat BY <1>5, <2>1
  <2> QED BY <1>2, <1>3, <1>4, <2>2, <2>3
<1>8. ASSUME NEW i \in 1..Len(t), NEW j \in 1..Len(t), g[i] = g[j] PROVE i = j
  <2> SUFFICES ASSUME i # j PROVE FALSE OBVIOUS
  <2>1. i < j \/ j < i BY <1>4
  <2>2. g[i] < g[j] \/ g[j] < g[i] BY <1>1, <2>1
  <2>3. g[i] \in Nat /\ g[j] \in Nat BY <1>5
  <2> QED BY <1>8, <2>2, <2>3
<1> SUFFICES ASSUME NEW i \in 1..Len(t)
             PROVE  /\ g[i] = k => i < Len(t) /\ g[i + 1] = k + 1
                    /\ g[i] = k + 1 => i > 1 /\ g[i - 1] = k
  OBVIOUS
<1>9. ASSUME g[i] = k PROVE i < Len(t) /\ g[i + 1] = k + 1
  <2>1. i = a BY <1>2, <1>8, <1>9
  <2> QED BY <1>3, <1>4, <1>7, <2>1
<1>10. ASSUME g[i] = k + 1 PROVE i > 1 /\ g[i - 1] = k
  <2>1. i = b BY <1>3, <1>8, <1>10
  <2>2. i - 1 = a /\ i > 1 BY <1>4, <1>7, <2>1
  <2> QED BY <1>2, <2>2
<1> QED BY <1>9, <1>10

\* A transcript the provider accepts.
PairedAt(w, i) ==
  /\ w[i].tool = "result" => i > 1 /\ w[i - 1].tool = "use"
  /\ w[i].tool = "use" => i < Len(w) /\ w[i + 1].tool = "result"

LEMMA CleanedPairs ==
  ASSUME NEW t \in Seq(RowType), Whole(t), NEW w, w = sanitizeOrphanedToolUse(t)
  PROVE  \A i \in 1..Len(w) : PairedAt(w, i)
<1> DEFINE answered(i) == i < Len(t) /\ t[i + 1].tool = "result"
           c == [i \in 1..Len(t) |->
                    IF t[i].tool = "use" /\ ~answered(i) THEN [t[i] EXCEPT !.tool = "none"] ELSE t[i]]
           K == {i \in 1..Len(c) : c[i].text \/ c[i].tool # "none"}
<1>1. w = KeepAt(c, K) BY DEF sanitizeOrphanedToolUse
<1>2. Len(t) \in Nat /\ \A i \in 1..Len(t) : t[i] \in RowType OBVIOUS
<1>3. \A i \in 1..Len(t) : c[i] = IF t[i].tool = "use" /\ ~answered(i) THEN [t[i] EXCEPT !.tool = "none"] ELSE t[i]
  OBVIOUS
<1>4. \A i \in 1..Len(t) : [t[i] EXCEPT !.tool = "none"] \in RowType /\ [t[i] EXCEPT !.tool = "none"].tool = "none"
  BY <1>2 DEF RowType
<1>5. c \in Seq(RowType) /\ Len(c) = Len(t)
  <2>1. \A i \in 1..Len(t) : c[i] \in RowType BY <1>2, <1>3, <1>4
  <2>2. c \in [1..Len(t) -> RowType] BY <2>1
  <2> QED BY <1>2, <2>2
<1>6. \A i \in 1..Len(t) : IsResult(c, i) <=> IsResult(t, i)
  BY <1>3, <1>4 DEF IsResult
<1>7. \A i \in 1..Len(t) : IsUse(c, i) <=> IsUse(t, i) /\ i < Len(t) /\ IsResult(t, i + 1)
  BY <1>3, <1>4 DEF IsUse, IsResult
<1>8. \A i \in 1..Len(t) : IsUse(c, i) \/ IsResult(c, i) => i \in K
  BY <1>5 DEF IsUse, IsResult
<1> HIDE DEF c, K
<1>9. w \in Seq(RowType) /\ \E g : Kept(c, K, w, g) BY <1>1, <1>5, KeepFacts, Zenon
<1>10. PICK g : Kept(c, K, w, g) BY <1>9
<1>11. /\ g \in [1..Len(w) -> 1..Len(c)] /\ \A i \in 1..Len(w) : w[i] = c[g[i]]
  BY <1>10, Zenon DEF Kept, KeptUpTo
<1> SUFFICES ASSUME NEW i \in 1..Len(w) PROVE PairedAt(w, i) OBVIOUS
<1> DEFINE j == g[i]
<1>12. j \in 1..Len(t) /\ w[i] = c[j] BY <1>5, <1>11
<1>13. Len(w) \in Nat /\ i \in Nat /\ j \in Nat BY <1>9, <1>12
<1>14. ASSUME w[i].tool = "result" PROVE i > 1 /\ w[i - 1].tool = "use"
  <2>1. IsResult(c, j) BY <1>12, <1>14 DEF IsResult
  <2>2. IsResult(t, j) BY <1>6, <1>12, <2>1
  <2>3. j # 1
    <3> SUFFICES ASSUME j = 1 PROVE FALSE OBVIOUS
    <3>1. t # <<>> BY <1>2, <1>12
    <3> QED BY <2>2, <3>1 DEF Whole
  <2> DEFINE k == j - 1
  <2>4. j \in 2..Len(t) /\ k \in 1..Len(t) /\ k + 1 = j /\ k < Len(t) BY <1>2, <1>12, <2>3
  <2>5. IsUse(t, k) BY <2>2, <2>4, AnswersAt DEF Whole
  <2> HIDE DEF k, j
  <2>6. IsUse(c, k) BY <1>7, <2>2, <2>4, <2>5
  <2>7. k \in K /\ k + 1 \in K BY <1>8, <1>12, <2>1, <2>4, <2>6
  <2>8. k \in 1..Len(c) /\ k + 1 \in 1..Len(c) /\ Len(c) \in Nat BY <1>2, <1>5, <1>12, <2>4
  <2>9. g[i] = k + 1 BY <2>4 DEF j
  <2>10. i > 1 /\ g[i - 1] = k BY <1>9, <1>10, <2>7, <2>8, <2>9, KeptNeighbours
  <2>11. i - 1 \in 1..Len(w) BY <1>13, <2>10
  <2>12. w[i - 1] = c[k] BY <1>11, <2>10, <2>11
  <2> QED BY <2>6, <2>10, <2>12 DEF IsUse
<1>15. ASSUME w[i].tool = "use" PROVE i < Len(w) /\ w[i + 1].tool = "result"
  <2>1. IsUse(c, j) BY <1>12, <1>15 DEF IsUse
  <2>2. IsUse(t, j) /\ j < Len(t) /\ IsResult(t, j + 1) BY <1>7, <1>12, <2>1
  <2>3. j + 1 \in 1..Len(t) BY <1>2, <1>12, <1>13, <2>2
  <2>4. IsResult(c, j + 1) BY <1>6, <2>2, <2>3
  <2>5. j \in K /\ j + 1 \in K BY <1>8, <1>12, <2>1, <2>3, <2>4
  <2>6. j \in 1..Len(c) /\ j + 1 \in 1..Len(c) /\ Len(c) \in Nat BY <1>2, <1>5, <1>12, <2>3
  <2>7. g[i] = j OBVIOUS
  <2> HIDE DEF j
  <2>8. i < Len(w) /\ g[i + 1] = j + 1 BY <1>9, <1>10, <2>5, <2>6, <2>7, KeptNeighbours
  <2>9. i + 1 \in 1..Len(w) BY <1>13, <2>8
  <2>10. w[i + 1] = c[j + 1] BY <1>11, <2>8, <2>9
  <2> QED BY <2>4, <2>8, <2>10 DEF IsResult
<1> QED BY <1>14, <1>15 DEF PairedAt

-----------------------------------------------------------------------------
(* The invariant of the session store                                          *)

\* The stored rows: typed, in the order of their numbers, results behind calls.
RowsKept == shRows \in Seq(RowType) /\ Ordered(shRows) /\ Answers(shRows)
\* The next number is above every number given out.
CountAhead == shCount \in Nat /\ \A i \in 1..Len(shRows) : shRows[i].seq <= shCount
\* The boundaries of the summaries, and the one the job noted, are numbers.
BoundaryType == [upto : Nat, covers : Nat]
JobType == [phase : {"idle", "due", "summarising"}, latest : Nat, msgs : Seq(RowType)]
BoundariesNamed ==
  /\ shJob \in JobType
  /\ shSummaries \in Seq(BoundaryType)

\* What a step of the store needs of the one before it.
SessionIInv == RowsKept /\ CountAhead /\ BoundariesNamed /\ SessionCounted

LEMMA BoundaryNamed == ASSUME BoundariesNamed PROVE softSummaryBoundary \in Nat
<1>1. CASE shSummaries = <<>> BY <1>1 DEF softSummaryBoundary
<1>2. CASE shSummaries # <<>>
  <2>1. Len(shSummaries) \in 1..Len(shSummaries) BY <1>2 DEF BoundariesNamed
  <2> DEFINE e == shSummaries[Len(shSummaries)]
  <2>2. e \in BoundaryType BY <2>1 DEF BoundariesNamed
  <2>3. softSummaryBoundary = e.upto BY <1>2 DEF softSummaryBoundary
  <2> HIDE DEF e
  <2>4. e.upto \in Nat BY <2>2 DEF BoundaryType
  <2> QED BY <2>3, <2>4
<1> QED BY <1>1, <1>2

LEMMA DialogIsGood ==
  ASSUME SessionIInv, Answering, NEW max \in Nat
  PROVE  GoodWindow(DialogMessagesForAPI(max).rows, NewestRow.seq, max)
<1> DEFINE since == RowsSince(shRows, softSummaryBoundary)
           N == NewestRows(since)
           R == NewestRows(shRows)
           a == IF softSummaryBoundary = 0 THEN <<>> ELSE dialogMessagesIfComplete(N, max)
<1>1. shRows \in Seq(RowType) /\ Ordered(shRows) /\ softSummaryBoundary \in Nat
  BY BoundaryNamed DEF SessionIInv, RowsKept
<1>2. shRows # <<>> /\ NewestRow.role = "user" /\ NewestRow.text /\ NewestRow = shRows[Len(shRows)]
  BY DEF Answering, NewestRow
<1>3. DialogMessagesForAPI(max) = IF a # <<>> THEN a[1] ELSE dialogMessagesOnBlockAnchor(R, max)
  BY DEF DialogMessagesForAPI
<1>4. R \in Seq(RowType) /\ R # <<>> /\ R[1] = NewestRow
  <2>1. R \in Seq(RowType) /\ R # <<>> /\ \A i \in 1..Len(R) : R[i] = shRows[(Len(shRows) - i) + 1]
    BY <1>1, <1>2, NewestFacts
  <2>2. 1 \in 1..Len(R) /\ (Len(shRows) - 1) + 1 = Len(shRows) BY <1>1, <2>1
  <2> QED BY <1>2, <2>1, <2>2
<1>5. CASE a = <<>>
  <2>1. DialogMessagesForAPI(max) = dialogMessagesOnBlockAnchor(R, max) BY <1>3, <1>5
  <2> HIDE DEF R
  <2>2. GoodWindow(dialogMessagesOnBlockAnchor(R, max).rows, R[1].seq, max) BY <1>2, <1>4, AnchoredIsGood
  <2> QED BY <1>4, <2>1, <2>2
<1>6. CASE a # <<>>
  <2>1. DialogMessagesForAPI(max) = a[1] /\ a = dialogMessagesIfComplete(N, max) BY <1>3, <1>6
  <2>2. since \in Seq(RowType) /\ (since # <<>> => since[Len(since)] = NewestRow) BY <1>1, <1>2, SinceFacts
  <2> HIDE DEF since
  <2>3. N \in Seq(RowType) /\ (N # <<>> => N[1] = NewestRow)
    <3>1. N \in Seq(RowType) /\ (N # <<>> <=> since # <<>>) /\ \A i \in 1..Len(N) : N[i] = since[(Len(since) - i) + 1]
      BY <2>2, NewestFacts
    <3> SUFFICES ASSUME N # <<>> PROVE N[1] = NewestRow BY <3>1
    <3>2. 1 \in 1..Len(N) /\ (Len(since) - 1) + 1 = Len(since) BY <2>2, <3>1
    <3> QED BY <2>2, <3>1, <3>2
  <2> HIDE DEF N, a
  <2>4. N # <<>> /\ GoodWindow(a[1].rows, N[1].seq, max) BY <1>2, <1>6, <2>1, <2>3, CompleteIsGood
  <2> QED BY <2>1, <2>3, <2>4
<1> QED BY <1>5, <1>6

LEMMA WindowsSound == ASSUME SessionIInv PROVE WindowSound
<1> SUFFICES ASSUME Answering, NEW max \in DialogBudgets
             PROVE  LET w == DialogMessagesForAPI(max).rows IN
                    /\ w # <<>> /\ Head(w).role = "user" /\ w[Len(w)].seq = NewestRow.seq
                    /\ CostOf(w) <= max \/ Len(w) = 1
  BY DEF WindowSound
<1>1. max \in Nat BY SessionConstants
<1>2. GoodWindow(DialogMessagesForAPI(max).rows, NewestRow.seq, max) BY <1>1, DialogIsGood
<1> QED BY <1>2 DEF GoodWindow

LEMMA TranscriptsPaired == ASSUME SessionIInv PROVE TranscriptPaired
<1> SUFFICES ASSUME shRows # <<>>, NEW max \in DialogBudgets,
                    NEW i \in 1..Len(messagesForAPIFromRows(NewestRows(shRows), max))
             PROVE  PairedAt(messagesForAPIFromRows(NewestRows(shRows), max), i)
  BY DEF TranscriptPaired, PairedAt
<1>1. max \in Nat BY SessionConstants
<1>2. shRows \in Seq(RowType) /\ Answers(shRows) BY DEF SessionIInv, RowsKept
<1> DEFINE v == Reverse(selectMessagesForAPI(NewestRows(shRows), max))
           t == trimOrphanedLeading(v)
           w == sanitizeOrphanedToolUse(t)
<1>3. PICK c : EndOf(shRows, c, v) BY <1>1, <1>2, SelectedEnd
<1>4. w = messagesForAPIFromRows(NewestRows(shRows), max) BY DEF messagesForAPIFromRows
<1> HIDE DEF v
<1>5. t \in Seq(RowType) /\ Whole(t) BY <1>2, <1>3, TrimmedWhole
<1> HIDE DEF t
<1>6. \A n \in 1..Len(w) : PairedAt(w, n) BY <1>5, CleanedPairs
<1> QED BY <1>4, <1>6

-----------------------------------------------------------------------------
(* Steps                                                                       *)

LEMMA RowTyped ==
  ASSUME NEW kind \in RowKinds, NEW n \in Nat, NEW r, r = Row(kind, n)
  PROVE  r \in RowType /\ r.seq = n /\ (r.tool = "result" => kind = "result")
BY DEF Row, RowType, RowKinds

LEMMA AppendKeeps ==
  ASSUME SessionIInv, NEW kind \in RowKinds, AppendRow(kind)
  PROVE  SessionIInv'
<1> DEFINE r == Row(kind, shCount + 1)
           L == Len(shRows)
<1>1. /\ shRows \in Seq(RowType) /\ Ordered(shRows) /\ Answers(shRows)
      /\ shCount \in Nat /\ \A i \in 1..L : shRows[i].seq <= shCount
  BY DEF SessionIInv, RowsKept, CountAhead
<1>2. r \in RowType /\ r.seq = shCount + 1 /\ (r.tool = "result" => kind = "result") BY <1>1, RowTyped
<1>3. /\ shRows' = Append(shRows, r) /\ shCount' = shCount + 1
      /\ kind = "result" => shRows # <<>> /\ NewestRow.tool = "use"
      /\ shCounters' = [tokens |-> shCounters.tokens + r.cost, messages |-> shCounters.messages + 1]
      /\ UNCHANGED <<shSummaries, shJob>>
  BY DEF AppendRow
<1> HIDE DEF r
<1>4. L \in Nat /\ \A i \in 1..L : shRows[i] \in RowType /\ shRows[i].seq \in Nat BY <1>1, RowsIndexed, RowFields
<1> DEFINE t == shRows'
<1>5. t \in Seq(RowType) /\ Len(t) = L + 1 /\ t[L + 1] = r /\ \A i \in 1..L : t[i] = shRows[i] BY <1>1, <1>2, <1>3
<1>6. t = Append(shRows, r) BY <1>3
<1> HIDE DEF t
<1>7. Ordered(t)
  <2> SUFFICES ASSUME NEW i \in 1..(L + 1), NEW j \in 1..(L + 1), i < j PROVE t[i].seq < t[j].seq BY <1>5 DEF Ordered
  <2>1. i \in 1..L BY <1>4
  <2>2. CASE j = L + 1
    <3>1. t[i].seq <= shCount /\ t[i].seq \in Nat BY <1>1, <1>4, <1>5, <2>1
    <3>2. t[j].seq = shCount + 1 BY <1>2, <1>5, <2>2
    <3> QED BY <1>1, <3>1, <3>2
  <2>3. CASE j # L + 1
    <3>1. j \in 1..L BY <1>4, <2>3
    <3> QED BY <1>1, <1>5, <2>1, <3>1 DEF Ordered
  <2> QED BY <2>2, <2>3
<1>8. Answers(t)
  <2> SUFFICES ASSUME NEW i \in 2..(L + 1), IsResult(t, i) PROVE IsUse(t, i - 1) BY <1>5 DEF Answers
  <2>1. CASE i = L + 1
    <3>1. r.tool = "result" BY <1>5, <2>1 DEF IsResult
    <3>2. shRows # <<>> /\ NewestRow.tool = "use" BY <1>2, <1>3, <3>1
    <3>3. L \in 1..L /\ i - 1 = L BY <1>4, <2>1
    <3>4. t[i - 1] = NewestRow BY <1>5, <3>3 DEF NewestRow
    <3> QED BY <3>2, <3>4 DEF IsUse
  <2>2. CASE i # L + 1
    <3>1. i \in 2..L /\ i \in 1..L /\ i - 1 \in 1..L BY <1>4, <2>2
    <3>2. t[i] = shRows[i] /\ t[i - 1] = shRows[i - 1] BY <1>5, <3>1
    <3>3. IsResult(shRows, i) BY <3>2 DEF IsResult
    <3>4. IsUse(shRows, i - 1) BY <1>1, <3>1, <3>3, AnswersAt
    <3> QED BY <3>2, <3>4 DEF IsUse
  <2> QED BY <2>1, <2>2
<1>9. RowsKept' BY <1>5, <1>7, <1>8 DEF RowsKept, t, Ordered, Answers, IsUse, IsResult
<1>10. CountAhead'
  <2>1. ASSUME NEW i \in 1..(L + 1) PROVE t[i].seq <= shCount + 1
    <3>1. CASE i = L + 1 BY <1>1, <1>2, <1>5, <3>1
    <3>2. CASE i # L + 1
      <4>1. i \in 1..L BY <1>4, <3>2
      <4>2. t[i].seq <= shCount /\ t[i].seq \in Nat BY <1>1, <1>4, <1>5, <4>1
      <4> QED BY <1>1, <4>2
    <3> QED BY <3>1, <3>2
  <2> QED BY <1>1, <1>3, <1>5, <2>1 DEF CountAhead, t
<1>11. BoundariesNamed' BY <1>3 DEF SessionIInv, BoundariesNamed
<1>12. SessionCounted'
  <2>1. CostOf(t) = CostOf(shRows) + r.cost BY <1>1, <1>2, <1>6, CostAppend
  <2>2. shCounters.tokens = CostOf(shRows) /\ shCounters.messages = L BY DEF SessionIInv, SessionCounted
  <2>3. shCounters' = [tokens |-> CostOf(t), messages |-> Len(t)] BY <1>3, <1>5, <2>1, <2>2
  <2> QED BY <2>3 DEF SessionCounted, t, CostOf
<1> QED BY <1>9, <1>10, <1>11, <1>12 DEF SessionIInv

\* The cut of a compaction leaves a row at least.
LEMMA CutBound ==
  ASSUME NEW rows \in Seq(RowType)
  PROVE  Compact(rows) = 0 \/ Compact(rows) \in 1..(Len(rows) - 1)
<1> DEFINE L == Len(rows)
           cut == SplitByTokens(rows, CompactKeep)
           base == IF cut > 0 /\ cut < Len(rows) THEN SplitOffTools(rows, cut) ELSE cut
           users == {i \in base..(Len(rows) - 1) : rows[i + 1].role = "user"}
           c == CHOOSE i \in users : \A j \in users : i <= j
<1>1. L \in Nat OBVIOUS
<1>2. cut \in Nat
  <2> DEFINE over == {i \in 1..Len(rows) : CostOf(SubSeq(rows, i, Len(rows))) >= CompactKeep}
             d == CHOOSE i \in over : \A j \in over : j <= i
  <2>1. cut = IF over = {} THEN Len(rows) ELSE d - 1 BY DEF SplitByTokens
  <2>2. over \in SUBSET Nat /\ \A x \in over : x <= L /\ x >= 1 BY <1>1
  <2> HIDE DEF over
  <2>3. CASE over = {} BY <1>1, <2>1, <2>3
  <2>4. CASE over # {}
    <3>1. d \in over BY <1>1, <2>2, <2>4, ChooseGreatest
    <3> HIDE DEF d
    <3> QED BY <2>1, <2>2, <2>4, <3>1
  <2> QED BY <2>3, <2>4
<1> HIDE DEF cut
<1>3. base \in Nat
  <2>1. CASE cut > 0 /\ cut < Len(rows)
    <3> DEFINE back == IF rows[cut + 1].tool = "result" THEN cut - 1 ELSE cut
               call == IF rows[back + 1].tool = "use" /\ back + 1 < Len(rows) THEN back + 1 ELSE back
    <3>1. base = IF call > back /\ rows[call + 1].tool = "result" THEN call + 1 ELSE call BY <2>1 DEF SplitOffTools
    <3>2. back \in Nat BY <1>2, <2>1
    <3> HIDE DEF back
    <3>3. call \in Nat BY <3>2
    <3> HIDE DEF call
    <3> QED BY <3>1, <3>3
  <2>2. CASE ~ (cut > 0 /\ cut < Len(rows)) BY <1>2, <2>2
  <2> QED BY <2>1, <2>2
<1>4. findSplitPoint(rows, CompactKeep) = IF users = {} THEN 0 ELSE c BY DEF findSplitPoint, cut
<1> HIDE DEF base
<1>5. findSplitPoint(rows, CompactKeep) = 0 \/ findSplitPoint(rows, CompactKeep) \in 1..(L - 1)
  <2>1. CASE users = {} BY <1>4, <2>1
  <2>2. CASE users # {}
    <3>1. users \in SUBSET Nat /\ \A x \in users : x <= L - 1 BY <1>1, <1>3
    <3> HIDE DEF users
    <3>2. c \in users BY <2>2, <3>1, ChooseLeast
    <3>3. findSplitPoint(rows, CompactKeep) = c BY <1>4, <2>2
    <3> HIDE DEF c
    <3>4. c \in Nat /\ c <= L - 1 BY <3>1, <3>2
    <3> QED BY <1>1, <3>3, <3>4
  <2> QED BY <2>1, <2>2
<1> QED BY <1>5 DEF Compact

LEMMA CompactKeeps == ASSUME SessionIInv, CompactTask PROVE SessionIInv'
<1> DEFINE cut == Compact(shRows)
           L == Len(shRows)
           t == shRows'
<1>1. /\ shRows \in Seq(RowType) /\ Ordered(shRows) /\ Answers(shRows)
      /\ shCount \in Nat /\ \A i \in 1..L : shRows[i].seq <= shCount
  BY DEF SessionIInv, RowsKept, CountAhead
<1>2. /\ cut > 0 /\ shRows' = SubSeq(shRows, cut + 1, L)
      /\ shCounters' = [tokens |-> CostOf(shRows'), messages |-> Len(shRows')]
      /\ UNCHANGED <<shCount, shSummaries, shJob>>
  BY DEF CompactTask, CostOf
<1>3. cut \in 1..(L - 1) BY <1>1, <1>2, CutBound
<1> HIDE DEF cut
<1>4. L \in Nat /\ cut \in Nat /\ cut + 1 \in 1..L BY <1>1, <1>3
<1> DEFINE m == L - cut
<1>5. t \in Seq(RowType) /\ Len(t) = m /\ \A n \in 1..m : t[n] = shRows[cut + n]
  <2> DEFINE u == cut + 1
  <2>1. u \in 1..L /\ (L - u) + 1 = m /\ \A n \in 1..m : (u + n) - 1 = cut + n BY <1>3, <1>4
  <2>2. t = SubSeq(shRows, u, L) BY <1>2
  <2> HIDE DEF u, t
  <2>3. t \in Seq(RowType) /\ Len(t) = (L - u) + 1 /\ \A n \in 1..((L - u) + 1) : t[n] = shRows[(u + n) - 1]
    BY <1>1, <2>1, <2>2, PartFacts
  <2>4. t \in Seq(RowType) /\ Len(t) = m BY <2>1, <2>3
  <2>5. \A n \in 1..m : t[n] = shRows[cut + n] BY <2>1, <2>3
  <2> QED BY <2>4, <2>5
<1>6. m \in Nat /\ \A n \in 1..m : cut + n \in 1..L BY <1>3, <1>4
<1> HIDE DEF t, m
<1>7. Ordered(t)
  <2> SUFFICES ASSUME NEW i \in 1..m, NEW j \in 1..m, i < j PROVE t[i].seq < t[j].seq BY <1>5 DEF Ordered
  <2>1. cut + i \in 1..L /\ cut + j \in 1..L /\ cut + i < cut + j BY <1>4, <1>6
  <2>2. shRows[cut + i].seq < shRows[cut + j].seq BY <1>1, <2>1 DEF Ordered
  <2> QED BY <1>5, <2>2
<1>8. Answers(t)
  <2> SUFFICES ASSUME NEW i \in 2..m, IsResult(t, i) PROVE IsUse(t, i - 1) BY <1>5 DEF Answers
  <2> DEFINE x == cut + i
             y == cut + (i - 1)
  <2>1. i \in 1..m /\ i - 1 \in 1..m BY <1>6
  <2>2. x \in 2..L /\ y = x - 1 BY <1>4, <1>6, <2>1
  <2>3. t[i] = shRows[x] /\ t[i - 1] = shRows[y] BY <1>5, <2>1
  <2> HIDE DEF x, y
  <2>4. IsResult(shRows, x) BY <2>3 DEF IsResult
  <2>5. IsUse(shRows, y) BY <1>1, <2>2, <2>4, AnswersAt
  <2> QED BY <2>3, <2>5 DEF IsUse
<1>9. RowsKept' BY <1>5, <1>7, <1>8 DEF RowsKept, t, Ordered, Answers, IsUse, IsResult
<1>10. CountAhead'
  <2>1. \A i \in 1..m : t[i].seq <= shCount BY <1>1, <1>5, <1>6
  <2> QED BY <1>1, <1>2, <1>5, <2>1 DEF CountAhead, t
<1>11. BoundariesNamed' BY <1>2 DEF SessionIInv, BoundariesNamed
<1>12. SessionCounted' BY <1>2 DEF SessionCounted, CostOf
<1> QED BY <1>9, <1>10, <1>11, <1>12 DEF SessionIInv

LEMMA RowsStay ==
  ASSUME SessionIInv, UNCHANGED <<shRows, shCount, shCounters>> PROVE RowsKept' /\ CountAhead' /\ SessionCounted'
BY DEF SessionIInv, RowsKept, CountAhead, SessionCounted, Ordered, Answers, IsUse, IsResult, CostOf

LEMMA JobFacts ==
  ASSUME NEW j \in JobType
  PROVE  /\ j.latest \in Nat /\ j.msgs \in Seq(RowType)
         /\ NoJob \in JobType
         /\ \A n \in Nat : [NoJob EXCEPT !.phase = "due", !.latest = n] \in JobType
         /\ \A rows \in Seq(RowType) : [j EXCEPT !.phase = "summarising", !.msgs = rows] \in JobType
<1>1. <<>> \in Seq(RowType) OBVIOUS
<1> DEFINE R == Seq(RowType)
<1>2. <<>> \in R BY <1>1
<1>3. j \in [phase : {"idle", "due", "summarising"}, latest : Nat, msgs : R] BY DEF JobType
<1> HIDE DEF R
<1> QED BY <1>2, <1>3 DEF JobType, NoJob, R

LEMMA SummaryCheckKeeps == ASSUME SessionIInv, SummaryCheck PROVE SessionIInv'
<1>1. /\ UNCHANGED <<shRows, shCount, shCounters, shSummaries>> /\ shRows # <<>>
      /\ shJob' = [NoJob EXCEPT !.phase = "due", !.latest = NewestRow.seq]
  BY DEF SummaryCheck
<1>2. NewestRow.seq \in Nat
  <2>1. shRows \in Seq(RowType) BY DEF SessionIInv, RowsKept
  <2>2. Len(shRows) \in 1..Len(shRows) BY <1>1, <2>1
  <2> QED BY <2>1, <2>2, RowsIndexed, RowFields DEF NewestRow
<1>3. shJob' \in JobType BY <1>1, <1>2, JobFacts DEF SessionIInv, BoundariesNamed
<1>4. BoundariesNamed' BY <1>1, <1>3 DEF SessionIInv, BoundariesNamed
<1> QED BY <1>1, <1>4, RowsStay DEF SessionIInv

LEMMA SummaryLoadKeeps == ASSUME SessionIInv, SummaryLoad PROVE SessionIInv'
<1>1. UNCHANGED <<shRows, shCount, shCounters, shSummaries>> BY DEF SummaryLoad
<1>2. shJob \in JobType /\ shRows \in Seq(RowType) BY DEF SessionIInv, BoundariesNamed, RowsKept
<1>3. shJob' = NoJob \/ shJob' = [shJob EXCEPT !.phase = "summarising", !.msgs = shRows] BY DEF SummaryLoad
<1>4. shJob' \in JobType BY <1>2, <1>3, JobFacts
<1>5. BoundariesNamed' BY <1>1, <1>4 DEF SessionIInv, BoundariesNamed
<1> QED BY <1>1, <1>5, RowsStay DEF SessionIInv

LEMMA SummaryStoreKeeps == ASSUME SessionIInv, SummaryStore PROVE SessionIInv'
<1> DEFINE e == [upto |-> shJob.latest, covers |-> Compact(shJob.msgs)]
<1>1. /\ UNCHANGED <<shRows, shCount, shCounters>> /\ shJob' = NoJob
      /\ shSummaries' = shSummaries \/ shSummaries' = Append(shSummaries, e)
  BY DEF SummaryStore
<1>2. shSummaries \in Seq(BoundaryType) /\ shJob \in JobType BY DEF SessionIInv, BoundariesNamed
<1>3. shJob.latest \in Nat /\ shJob.msgs \in Seq(RowType) /\ NoJob \in JobType BY <1>2, JobFacts
<1>4. Compact(shJob.msgs) \in Nat
  <2>1. Compact(shJob.msgs) = 0 \/ Compact(shJob.msgs) \in 1..(Len(shJob.msgs) - 1) BY <1>3, CutBound
  <2> QED BY <2>1
<1>5. e \in BoundaryType BY <1>3, <1>4 DEF BoundaryType
<1> HIDE DEF e
<1>6. shSummaries' \in Seq(BoundaryType) BY <1>1, <1>2, <1>5
<1>7. BoundariesNamed' BY <1>1, <1>3, <1>6 DEF BoundariesNamed
<1> QED BY <1>1, <1>7, RowsStay DEF SessionIInv

LEMMA SessionStarts == ASSUME SessionInit PROVE SessionIInv
<1>1. /\ shRows = <<>> /\ shCount = 0 /\ shSummaries = <<>> /\ shJob = NoJob
      /\ shCounters = [tokens |-> 0, messages |-> 0]
  BY DEF SessionInit
<1>2. Len(shRows) = 0 /\ shRows \in Seq(RowType) BY <1>1
<1>3. \A i \in 1..Len(shRows) : FALSE BY <1>2
<1>4. \A i \in 2..Len(shRows) : FALSE BY <1>2
<1>5. RowsKept BY <1>2, <1>3, <1>4 DEF RowsKept, Ordered, Answers
<1>6. CountAhead BY <1>1, <1>3 DEF CountAhead
<1>7. shSummaries \in Seq(BoundaryType) BY <1>1
<1>8. BoundariesNamed
  <2>1. <<>> \in Seq(RowType) OBVIOUS
  <2>2. NoJob \in JobType BY <2>1 DEF NoJob, JobType
  <2> QED BY <1>1, <1>7, <2>2 DEF BoundariesNamed
<1>9. CostOf(shRows) = 0
  <2>1. Costs(shRows) \in Seq(Int) /\ Len(Costs(shRows)) = 0 /\ CostOf(shRows) = SumOf(Costs(shRows)) BY <1>2, CostsFacts
  <2>2. Costs(shRows) = <<>> BY <2>1
  <2> QED BY <2>1, <2>2, SumEmpty
<1>10. SessionCounted BY <1>1, <1>2, <1>9 DEF SessionCounted
<1> QED BY <1>5, <1>6, <1>8, <1>10 DEF SessionIInv

LEMMA SessionStep == ASSUME SessionIInv, [SessionNext]_sessionVars PROVE SessionIInv'
<1>1. CASE \E kind \in RowKinds : AppendRow(kind) BY <1>1, AppendKeeps
<1>2. CASE CompactTask BY <1>2, CompactKeeps
<1>3. CASE SummaryCheck BY <1>3, SummaryCheckKeeps
<1>4. CASE SummaryLoad BY <1>4, SummaryLoadKeeps
<1>5. CASE SummaryStore BY <1>5, SummaryStoreKeeps
<1>6. CASE UNCHANGED sessionVars
  <2>1. UNCHANGED <<shRows, shCount, shCounters, shSummaries, shJob>> BY <1>6 DEF sessionVars
  <2>2. BoundariesNamed' BY <2>1 DEF SessionIInv, BoundariesNamed
  <2> QED BY <2>1, <2>2, RowsStay DEF SessionIInv
<1> QED BY <1>1, <1>2, <1>3, <1>4, <1>5, <1>6 DEF SessionNext

\* Whatever is appended, in whatever order turns, crashes, the summarising job and
\* compactions come, the session's counters are those of its rows, a dialogue
\* window starts on a user row, ends on the turn being answered and keeps to its
\* budget, and every transcript pairs its calls with their results.
THEOREM SessionIsSound == SessionSpec => []SessionSound
<1>1. SessionInit => SessionIInv BY SessionStarts
<1>2. SessionIInv /\ [SessionNext]_sessionVars => SessionIInv' BY SessionStep
<1>3. SessionIInv => SessionSound BY WindowsSound, TranscriptsPaired DEF SessionSound, SessionIInv
<1> QED BY <1>1, <1>2, <1>3, PTL DEF SessionSpec

-----------------------------------------------------------------------------
(* The component AgentPrompt                                                  *)

-----------------------------------------------------------------------------
(* Budgets                                                                     *)

\* What the budget decisions use of a case.
CaseNumbers(c) ==
  /\ c.budgets.explicit \in Nat /\ c.budgets.model \in Nat /\ c.budgets.config \in Nat
  /\ c.budgets.window \in Nat /\ c.budgets.minimum \in Nat
  /\ c.lane \in Nat /\ c.system \in Nat /\ c.schema \in Nat /\ c.lines \in Seq(Nat)

LEMMA CaseFacts == ASSUME NEW c \in PromptCases PROVE CaseNumbers(c)
<1> DEFINE LS == Seq(Nat)
           BS == [explicit : Nat, model : Nat, config : Nat, window : Nat, minimum : Nat]
           SS == SUBSET STRING
<1>1. c \in [budgets : BS, lane : Nat, system : Nat, schema : Nat, lines : LS, felt : Nat, extra : Nat,
             override : SS, allowed : SS, denied : SS, expansion : SS, strict : BOOLEAN]
  BY PromptConstants DEF PromptCaseType
<1> HIDE DEF LS, BS, SS
<1>2. /\ c.budgets \in BS /\ c.lane \in Nat /\ c.system \in Nat /\ c.schema \in Nat /\ c.lines \in LS
  BY <1>1
<1> DEFINE b == c.budgets
<1>3. b \in BS BY <1>2
<1> HIDE DEF b
<1>4. b.explicit \in Nat /\ b.model \in Nat /\ b.config \in Nat /\ b.window \in Nat /\ b.minimum \in Nat
  BY <1>3 DEF BS
<1> QED BY <1>2, <1>4 DEF CaseNumbers, b, LS

LEMMA ResolvedBudget == ASSUME NEW c, CaseNumbers(c) PROVE ResolveMessageBudget(c) \in Int
<1> DEFINE k == calculatedMessageBudget(c)
           q == <<c.budgets.explicit, c.budgets.model, c.budgets.config, k, DefaultMessageBudget>>
           S == {i \in 1..5 : q[i] > 0}
<1>1. k \in Int BY DEF CaseNumbers, calculatedMessageBudget
<1> HIDE DEF k
<1>2. \A i \in 1..5 : q[i] \in Int
  <2> DEFINE x == c.budgets.explicit
             y == c.budgets.model
             z == c.budgets.config
  <2>1. x \in Int /\ y \in Int /\ z \in Int BY DEF CaseNumbers
  <2>2. q = <<x, y, z, k, 6>> BY DEF DefaultMessageBudget
  <2> HIDE DEF x, y, z, q
  <2>3. q \in Seq(Int) /\ Len(q) = 5 BY <1>1, <2>1, <2>2
  <2>4. \A i \in 1..Len(q) : q[i] \in Int BY <2>3, IntsIndexed
  <2> QED BY <2>3, <2>4
<1>3. 5 \in S BY DEF DefaultMessageBudget
<1>4. ResolveMessageBudget(c) = q[CHOOSE i \in 1..5 : q[i] > 0 /\ \A j \in 1..(i - 1) : q[j] <= 0]
  BY DEF ResolveMessageBudget, k
<1> HIDE DEF q
<1>5. PICK m \in S : \A j \in S : m <= j
  <2>1. S \in SUBSET Nat /\ S # {} BY <1>3
  <2> HIDE DEF S
  <2> QED BY <2>1, LeastExists
<1>6. m \in 1..5 /\ q[m] > 0 /\ \A j \in 1..(m - 1) : q[j] <= 0
  <2>1. m \in 1..5 /\ q[m] > 0 OBVIOUS
  <2>2. ASSUME NEW j \in 1..(m - 1) PROVE q[j] <= 0
    <3>1. j \in 1..5 /\ ~ (m <= j) BY <2>1
    <3>2. ~ (q[j] > 0) BY <1>5, <3>1
    <3> QED BY <1>2, <3>1, <3>2
  <2> QED BY <2>1, <2>2
<1> DEFINE n == CHOOSE i \in 1..5 : q[i] > 0 /\ \A j \in 1..(i - 1) : q[j] <= 0
<1>7. n \in 1..5 BY <1>6, Zenon
<1> QED BY <1>2, <1>4, <1>7

LEMMA LinesTyped ==
  ASSUME NEW lines \in Seq(Nat)
  PROVE  /\ lines \in Seq(Int) /\ SumOf(lines) \in Int /\ ContextCost(lines) \in Int
         /\ ContextCost(<<>>) = 0
<1>1. lines \in Seq(Int) OBVIOUS
<1>2. SumOf(lines) \in Int BY <1>1, SumType
<1> QED BY <1>1, <1>2 DEF ContextCost, EnvelopeCost

\* What trimContextToBudget keeps fits the allowance.
LEMMA TrimmedFits ==
  ASSUME NEW lines \in Seq(Nat), NEW allowance \in Nat
  PROVE  ContextCost(trimContextToBudget(lines, allowance)) \in Int
         /\ ContextCost(trimContextToBudget(lines, allowance)) <= allowance
<1> DEFINE L == Len(lines)
           fits(k) == EnvelopeCost + SumOf(SubSeq(lines, 1, k)) + MarkerCost <= allowance
           cut == CHOOSE k \in 0..L : (\A j \in 1..k : fits(j)) /\ (k = L \/ ~fits(k + 1))
           S == {k \in 0..L : \A j \in 1..k : fits(j)}
           t == trimContextToBudget(lines, allowance)
<1>1. L \in Nat /\ ContextCost(<<>>) = 0 BY LinesTyped
<1>2. t = IF allowance <= 0 \/ cut = 0 THEN <<>>
          ELSE IF cut = L THEN lines ELSE Append(SubSeq(lines, 1, cut), MarkerCost)
  BY DEF trimContextToBudget
<1>3. ASSUME NEW k \in 0..L
      PROVE  SubSeq(lines, 1, k) \in Seq(Nat) /\ SumOf(SubSeq(lines, 1, k)) \in Int
  <2>1. SubSeq(lines, 1, k) \in Seq(Nat) BY <1>1
  <2> QED BY <2>1, LinesTyped
<1> HIDE DEF fits
<1>4. \E k \in 0..L : (\A j \in 1..k : fits(j)) /\ (k = L \/ ~fits(k + 1))
  <2>1. 0 \in S BY <1>1
  <2>2. S \in SUBSET Nat /\ S # {} /\ \A x \in S : x <= L BY <1>1, <2>1
  <2> HIDE DEF S
  <2>3. PICK m \in S : \A y \in S : y <= m BY <1>1, <2>2, GreatestExists
  <2>4. m \in 0..L /\ \A j \in 1..m : fits(j) BY <2>3 DEF S
  <2>5. m = L \/ ~fits(m + 1)
    <3> SUFFICES ASSUME m # L, fits(m + 1) PROVE FALSE OBVIOUS
    <3>1. m + 1 \in 0..L /\ m \in Nat BY <1>1, <2>4
    <3>2. \A j \in 1..(m + 1) : fits(j)
      <4> SUFFICES ASSUME NEW j \in 1..(m + 1) PROVE fits(j) OBVIOUS
      <4>1. j \in 1..m \/ j = m + 1 BY <3>1
      <4> QED BY <2>4, <4>1
    <3>3. m + 1 \in S BY <3>1, <3>2 DEF S
    <3>4. m + 1 <= m BY <2>3, <3>3
    <3> QED BY <3>1, <3>4
  <2> QED BY <2>4, <2>5
<1>5. cut \in 0..L /\ \A j \in 1..cut : fits(j) BY <1>4, Zenon
<1> HIDE DEF cut, t
<1>6. CASE t = <<>> BY <1>1, <1>6 DEF t
<1>7. CASE t # <<>>
  <2>1. cut # 0 /\ t = IF cut = L THEN lines ELSE Append(SubSeq(lines, 1, cut), MarkerCost) BY <1>2, <1>7
  <2>2. cut \in 1..cut BY <1>5, <2>1
  <2>3. fits(cut) BY <1>5, <2>2
  <2> DEFINE p == SubSeq(lines, 1, cut)
             z == SumOf(p)
  <2>4. p \in Seq(Nat) /\ z \in Int BY <1>3, <1>5
  <2>5. 1 + z + 1 <= allowance BY <2>3 DEF fits, EnvelopeCost, MarkerCost
  <2>6. CASE cut = L
    <3>1. p = lines BY <2>6
    <3>2. t = lines BY <2>1, <2>6
    <3>3. ContextCost(t) = 1 + z BY <1>7, <3>1, <3>2 DEF ContextCost, EnvelopeCost
    <3> HIDE DEF z
    <3> QED BY <2>4, <2>5, <3>3 DEF t
  <2>7. CASE cut # L
    <3>1. t = Append(p, 1) BY <2>1, <2>7 DEF MarkerCost
    <3>2. p \in Seq(Int) BY <2>4
    <3> HIDE DEF p
    <3>3. SumOf(t) = z + 1
      <4>1. 1 \in Int OBVIOUS
      <4>2. SumOf(Append(p, 1)) = SumOf(p) + 1 BY <3>2, <4>1, SumAppend, Zenon
      <4> QED BY <3>1, <4>2
    <3>4. ContextCost(t) = 1 + (z + 1) BY <1>7, <3>3 DEF ContextCost, EnvelopeCost
    <3> HIDE DEF z
    <3> QED BY <2>4, <2>5, <3>4 DEF t
  <2> QED BY <2>6, <2>7
<1> QED BY <1>6, <1>7

\* The promise of a decision.
Keeps(d, total, fixed) ==
  d.mode \in {"lane", "total_prompt"} => fixed + ContextCost(d.lines) + d.dialog <= total /\ d.dialog >= 1

LEMMA DecisionKeeps ==
  ASSUME NEW total \in Int, NEW lane \in Nat, NEW fixed \in Nat, NEW lines \in Seq(Nat)
  PROVE  Keeps(effectiveDialogBudgetDecisionLane(total, lane, fixed, lines), total, fixed)
<1> DEFINE laneEff == IF fixed + lane > total THEN total - fixed ELSE lane
           allowance == total - fixed - laneEff
           kept == IF ContextCost(lines) > allowance THEN trimContextToBudget(lines, allowance) ELSE lines
           d == effectiveDialogBudgetDecisionLane(total, lane, fixed, lines)
           o == fixed + ContextCost(lines)
<1>1. ContextCost(lines) \in Int BY LinesTyped
<1>2. d = IF lane <= 0 THEN effectiveDialogBudgetDecision(total, fixed, lines)
          ELSE IF laneEff < 1 THEN Decision(total, fixed, "fallback", lines)
          ELSE Decision(laneEff, fixed + ContextCost(kept), "lane", kept)
  BY DEF effectiveDialogBudgetDecisionLane
<1>3. effectiveDialogBudgetDecision(total, fixed, lines) =
        IF o >= total THEN Decision(total, o, "fallback", lines) ELSE Decision(total - o, o, "total_prompt", lines)
  BY DEF effectiveDialogBudgetDecision
<1> HIDE DEF d
<1>4. CASE lane <= 0
  <2>1. CASE o >= total BY <1>2, <1>3, <1>4, <2>1 DEF Keeps, Decision, d
  <2>2. CASE ~ (o >= total)
    <3>1. d = Decision(total - o, o, "total_prompt", lines) BY <1>2, <1>3, <1>4, <2>2
    <3>2. d.lines = lines /\ d.dialog = total - o BY <3>1 DEF Decision
    <3> DEFINE z == ContextCost(lines)
    <3>3. z \in Int /\ d.dialog = total - (fixed + z) /\ ~ (fixed + z >= total) BY <1>1, <2>2, <3>2
    <3>4. fixed + ContextCost(d.lines) + d.dialog = fixed + z + d.dialog BY <3>2
    <3> HIDE DEF z
    <3>5. fixed + z + d.dialog <= total /\ d.dialog >= 1 BY <3>3
    <3> QED BY <3>4, <3>5 DEF Keeps, d
  <2> QED BY <2>1, <2>2
<1>5. CASE ~ (lane <= 0) /\ laneEff < 1 BY <1>2, <1>5 DEF Keeps, Decision, d
<1>6. CASE ~ (lane <= 0) /\ ~ (laneEff < 1)
  <2>1. d.lines = kept /\ d.dialog = laneEff BY <1>2, <1>6 DEF Decision
  <2>2. laneEff \in Nat /\ laneEff >= 1 /\ allowance \in Nat /\ fixed + allowance + laneEff = total BY <1>6
  <2> HIDE DEF laneEff, allowance
  <2> DEFINE z == ContextCost(kept)
  <2>3. z \in Int /\ z <= allowance
    <3>1. CASE ContextCost(lines) > allowance
      <4>1. kept = trimContextToBudget(lines, allowance) BY <3>1
      <4> QED BY <2>2, <4>1, TrimmedFits
    <3>2. CASE ~ (ContextCost(lines) > allowance)
      <4>1. kept = lines BY <3>2
      <4> HIDE DEF kept
      <4>2. z = ContextCost(lines) BY <4>1
      <4> HIDE DEF z
      <4> QED BY <1>1, <2>2, <3>2, <4>2
    <3> QED BY <3>1, <3>2
  <2>4. fixed + ContextCost(d.lines) + d.dialog = fixed + z + laneEff BY <2>1
  <2> HIDE DEF z
  <2>5. fixed + z + laneEff <= total BY <2>2, <2>3
  <2> QED BY <2>1, <2>2, <2>4, <2>5 DEF Keeps, d
<1> QED BY <1>4, <1>5, <1>6

-----------------------------------------------------------------------------
(* Markers                                                                     *)

MarkKinds == {"none", "date", "time"}
EntryType == [at : Nat, kind : {"none", "date", "time", "message"}]
Annotated(times, i) ==
  IF MarkerAt(times, i) = "none" THEN <<[at |-> times[i], kind |-> "message"]>>
  ELSE <<[at |-> times[i], kind |-> MarkerAt(times, i)], [at |-> times[i], kind |-> "message"]>>

LEMMA MarkerKind == ASSUME NEW times, NEW i PROVE MarkerAt(times, i) \in MarkKinds
BY DEF MarkerAt, MarkKinds

LEMMA AnnotatedTyped ==
  ASSUME NEW times \in Seq(Nat), NEW i \in 1..Len(times) PROVE Annotated(times, i) \in Seq(EntryType)
<1>1. times[i] \in Nat /\ MarkerAt(times, i) \in MarkKinds BY MarkerKind
<1> DEFINE a == [at |-> times[i], kind |-> "message"]
           b == [at |-> times[i], kind |-> MarkerAt(times, i)]
<1>2. a \in EntryType /\ b \in EntryType BY <1>1 DEF EntryType, MarkKinds
<1>3. Annotated(times, i) = IF MarkerAt(times, i) = "none" THEN <<a>> ELSE <<b, a>> BY DEF Annotated
<1> HIDE DEF a, b
<1>4. <<a>> \in Seq(EntryType) /\ <<b, a>> \in Seq(EntryType) BY <1>2
<1> QED BY <1>3, <1>4

LEMMA AnnotationIs ==
  ASSUME NEW times \in Seq(Nat), NEW s, s = [i \in 1..Len(times) |-> Annotated(times, i)]
  PROVE  /\ annotateDialogDays(times) = FlattenSeq(s)
         /\ s \in Seq(Seq(EntryType)) /\ Len(s) = Len(times)
         /\ \A i \in 1..Len(times) : s[i] = Annotated(times, i)
<1>1. annotateDialogDays(times) = FlattenSeq(s) BY DEF annotateDialogDays, Annotated
<1>2. Len(times) \in Nat OBVIOUS
<1>3. s \in [1..Len(times) -> Seq(EntryType)] BY AnnotatedTyped
<1>4. \A i \in 1..Len(times) : s[i] = Annotated(times, i) OBVIOUS
<1> QED BY <1>1, <1>2, <1>3, <1>4

\* A marker looks only at the messages up to its own.
LEMMA MarkerLocal ==
  ASSUME NEW d \in Seq(Nat), NEW t \in Nat, NEW e, e = Append(d, t), NEW i \in 1..Len(d)
  PROVE  MarkerAt(e, i) = MarkerAt(d, i)
<1> DEFINE D == {j \in 1..(i - 1) : d[j] > 0}
           E == {j \in 1..(i - 1) : e[j] > 0}
           pd == CHOOSE j \in D : \A k \in D : k <= j
           pe == CHOOSE j \in E : \A k \in E : k <= j
<1>1. Len(d) \in Nat /\ i \in Nat /\ \A j \in 1..Len(d) : e[j] = d[j] OBVIOUS
<1>2. D = E
  <2>1. \A j \in 1..(i - 1) : e[j] = d[j] BY <1>1
  <2> QED BY <2>1
<1>3. D # {} => pd \in 1..Len(d)
  <2> SUFFICES ASSUME D # {} PROVE pd \in 1..Len(d) OBVIOUS
  <2>1. D \in SUBSET Nat /\ \A x \in D : x <= Len(d) /\ x \in 1..Len(d) BY <1>1
  <2> HIDE DEF D
  <2>2. pd \in D BY <1>1, <2>1, ChooseGreatest
  <2> QED BY <2>1, <2>2
<1>4. MarkerAt(d, i) = IF d[i] <= 0 THEN "none"
     ELSE IF D = {} \/ d[i] \div DayLength # d[pd] \div DayLength THEN "date"
     ELSE IF d[i] - d[pd] >= dialogGapMarkerAfter THEN "time" ELSE "none"
  BY DEF MarkerAt
<1>5. MarkerAt(e, i) = IF e[i] <= 0 THEN "none"
     ELSE IF E = {} \/ e[i] \div DayLength # e[pe] \div DayLength THEN "date"
     ELSE IF e[i] - e[pe] >= dialogGapMarkerAfter THEN "time" ELSE "none"
  BY DEF MarkerAt
<1>6. pe = pd BY <1>2
<1>7. e[i] = d[i] BY <1>1
<1> HIDE DEF D, E, pd, pe
<1>8. CASE D = {} BY <1>2, <1>4, <1>5, <1>7, <1>8, Zenon
<1>9. CASE D # {}
  <2>1. e[pe] = d[pd] BY <1>1, <1>3, <1>6, <1>9
  <2> QED BY <1>2, <1>4, <1>5, <1>7, <2>1, Zenon
<1> QED BY <1>8, <1>9

LEMMA MarkersGrow ==
  ASSUME NEW d \in Seq(Nat), NEW t \in Nat, NEW e, e = Append(d, t)
  PROVE  LET old == annotateDialogDays(d) new == annotateDialogDays(e)
         IN Len(old) <= Len(new) /\ SubSeq(new, 1, Len(old)) = old
<1> DEFINE L == Len(d)
           p == [i \in 1..Len(d) |-> Annotated(d, i)]
           q == [i \in 1..Len(e) |-> Annotated(e, i)]
           x == Annotated(e, L + 1)
<1>1. L \in Nat /\ e \in Seq(Nat) /\ Len(e) = L + 1 /\ e[L + 1] = t /\ \A j \in 1..L : e[j] = d[j] OBVIOUS
<1>2. /\ annotateDialogDays(d) = FlattenSeq(p) /\ p \in Seq(Seq(EntryType)) /\ Len(p) = L
      /\ \A i \in 1..L : p[i] = Annotated(d, i)
  BY AnnotationIs
<1>3. /\ annotateDialogDays(e) = FlattenSeq(q) /\ q \in Seq(Seq(EntryType)) /\ Len(q) = L + 1
      /\ \A i \in 1..(L + 1) : q[i] = Annotated(e, i)
  BY <1>1, AnnotationIs
<1>4. x \in Seq(EntryType)
  <2>1. L + 1 \in 1..Len(e) BY <1>1
  <2> QED BY <1>1, <2>1, AnnotatedTyped
<1> HIDE DEF p, q, x
<1>5. ASSUME NEW i \in 1..L PROVE Annotated(e, i) = Annotated(d, i)
  <2>1. MarkerAt(e, i) = MarkerAt(d, i) BY MarkerLocal
  <2>2. e[i] = d[i] BY <1>1
  <2> QED BY <2>1, <2>2 DEF Annotated
<1>6. q = Append(p, x)
  <2> DEFINE r == Append(p, x)
  <2>1. r \in Seq(Seq(EntryType)) /\ Len(r) = L + 1 /\ r[L + 1] = x /\ \A i \in 1..L : r[i] = p[i] BY <1>2, <1>4
  <2>2. ASSUME NEW i \in 1..(L + 1) PROVE q[i] = r[i]
    <3>1. CASE i = L + 1 BY <1>3, <2>1, <3>1 DEF x
    <3>2. CASE i # L + 1
      <4>1. i \in 1..L BY <1>1, <3>2
      <4> QED BY <1>2, <1>3, <1>5, <2>1, <4>1
    <3> QED BY <3>1, <3>2
  <2> HIDE DEF r
  <2>3. q = r BY <1>3, <2>1, <2>2
  <2> QED BY <2>3 DEF r
<1>7. FlattenSeq(p) \in Seq(EntryType) /\ FlattenSeq(q) = FlattenSeq(p) \o x 
  <2>1. Extends(EntryType, p, x, q) BY <1>2, <1>4, <1>6 DEF Extends
  <2>2. FlatExtends(EntryType, p, x, q) BY <2>1, FlattenGrows
  <2> QED BY <2>2 DEF FlatExtends
<1> DEFINE a == FlattenSeq(p)
           b == FlattenSeq(q)
<1>8. a \in Seq(EntryType) /\ b = a \o x BY <1>7
<1> HIDE DEF a, b
<1>9. Len(a) <= Len(b) /\ SubSeq(b, 1, Len(a)) = a BY <1>4, <1>8, JoinedPrefix
<1> QED BY <1>2, <1>3, <1>9 DEF a, b

-----------------------------------------------------------------------------
(* Tool results                                                                *)

LEMMA NatsAreInts == ASSUME NEW s \in Seq(Nat) PROVE s \in Seq(Int) /\ Len(s) \in Nat
OBVIOUS

LEMMA KeptFields ==
  ASSUME NEW fields \in Seq(Nat)
  PROVE  ShortFields(fields) \in Seq(Nat) /\ LongFields(fields) \in Seq(Nat)
<1> DEFINE K == {i \in 1..Len(fields) : fields[i] <= LongField}
           M == {i \in 1..Len(fields) : fields[i] > LongField}
<1>1. ShortFields(fields) = KeepAt(fields, K) /\ LongFields(fields) = KeepAt(fields, M) BY DEF ShortFields, LongFields
<1> HIDE DEF K, M
<1>2. KeepAt(fields, K) \in Seq(Nat) BY KeepFacts, Zenon
<1>3. KeepAt(fields, M) \in Seq(Nat) BY KeepFacts, Zenon
<1> QED BY <1>1, <1>2, <1>3

LEMMA ShortenedObject ==
  ASSUME NEW fields \in Seq(Nat), NEW max \in Nat
  PROVE  LET o == compactJSONObjectForPrompt(fields, max)
         IN o.size > 0 => o.size \in Int /\ o.size <= 2 * max /\ o.short = Len(ShortFields(fields))
<1> DEFINE long == LongFields(fields)
           used == SumOf(ShortFields(fields)) + Len(ShortFields(fields)) * FieldOverhead
           share == IF long = <<>> THEN max - used ELSE (max - used) \div Len(long)
           clipped == [i \in 1..Len(long) |-> (IF share <= 0 THEN 1 ELSE truncateMiddle(long[i], share)) + FieldOverhead]
           out == used + SumOf(clipped)
           o == compactJSONObjectForPrompt(fields, max)
<1>1. o = IF fields = <<>> \/ used >= max \/ out > 2 * max THEN [short |-> 0, size |-> 0]
          ELSE [short |-> Len(ShortFields(fields)), size |-> out]
  BY DEF compactJSONObjectForPrompt
<1>2. ShortFields(fields) \in Seq(Nat) /\ long \in Seq(Nat) BY KeptFields
<1> DEFINE sf == ShortFields(fields)
<1>3. sf \in Seq(Int) /\ Len(sf) \in Nat /\ Len(long) \in Nat /\ \A i \in 1..Len(long) : long[i] \in Nat BY <1>2
<1>4. used \in Int
  <2>1. SumOf(sf) \in Int BY <1>3, SumType
  <2> QED BY <1>3, <2>1 DEF FieldOverhead
<1> HIDE DEF used
<1>5. share \in Int
  <2>1. CASE long = <<>> BY <1>4, <2>1
  <2>2. CASE long # <<>>
    <3>1. Len(long) > 0 BY <1>2, <1>3, <2>2
    <3> DEFINE n == Len(long)
               z == max - used
    <3>2. n \in Nat /\ n > 0 /\ z \in Int BY <1>3, <1>4, <3>1
    <3>3. share = z \div n BY <2>2
    <3> HIDE DEF n, z
    <3>4. z \div n \in Int BY <3>2
    <3> QED BY <3>3, <3>4
  <2> QED BY <2>1, <2>2
<1> HIDE DEF share, long
<1>6. clipped \in Seq(Int)
  <2>1. ASSUME NEW i \in 1..Len(long) PROVE (IF share <= 0 THEN 1 ELSE truncateMiddle(long[i], share)) + FieldOverhead \in Int
    BY <1>3, <1>5 DEF truncateMiddle, FieldOverhead
  <2>2. clipped \in [1..Len(long) -> Int] BY <2>1
  <2> QED BY <1>3, <2>2
<1> HIDE DEF clipped
<1>7. out \in Int
  <2>1. SumOf(clipped) \in Int BY <1>6, SumType
  <2> QED BY <1>4, <2>1
<1> HIDE DEF out, o
<1>8. ASSUME o.size > 0 PROVE o.size \in Int /\ o.size <= 2 * max /\ o.short = Len(sf)
  <2>1. o # [short |-> 0, size |-> 0] BY <1>8
  <2>2. ~ (out > 2 * max) /\ o = [short |-> Len(sf), size |-> out] BY <1>1, <2>1
  <2>3. o.size = out /\ o.short = Len(sf) BY <2>2
  <2> QED BY <1>7, <2>2, <2>3
<1> QED BY <1>8 DEF o

LEMMA ResultBounded == ASSUME apResult \in ResultType PROVE ResultsBounded
<1> DEFINE max == IF apResult.error THEN MaxErrorResult ELSE MaxResult
           object == compactJSONObjectForPrompt(apResult.fields, max)
           size == ResultSize(apResult)
           out == compactToolResultForPrompt(apResult)
<1>1. apResult.fields \in Seq(Nat)
  <2> DEFINE F == Seq(Nat)
  <2>1. apResult \in [fields : F, error : BOOLEAN] BY DEF ResultType
  <2> HIDE DEF F
  <2>2. apResult.fields \in F BY <2>1
  <2> QED BY <2>2 DEF F
<1>2. max \in Nat /\ max <= 8 BY DEF MaxErrorResult, MaxResult
<1>3. size \in Int
  <2>1. SumOf(apResult.fields) \in Int /\ Len(apResult.fields) \in Nat BY <1>1, NatsAreInts, SumType
  <2> QED BY <2>1 DEF ResultSize, FieldOverhead
<1>4. object.size > 0 => object.size \in Int /\ object.size <= 2 * max /\ object.short = Len(ShortFields(apResult.fields))
  BY <1>1, <1>2, ShortenedObject
<1>5. out = IF size <= max THEN [short |-> Len(ShortFields(apResult.fields)), size |-> size, how |-> "whole"]
            ELSE IF object.size > 0 THEN [short |-> object.short, size |-> object.size, how |-> "fields"]
            ELSE [short |-> 0, size |-> truncateMiddle(size, max), how |-> "cut"]
  BY DEF compactToolResultForPrompt
<1> HIDE DEF max, object, size, out
<1>6. CASE size <= max
  <2>1. out.size = size /\ out.how = "whole" BY <1>5, <1>6
  <2>2. out.size <= 16 BY <1>2, <1>3, <1>6, <2>1
  <2> QED BY <2>1, <2>2 DEF ResultsBounded, MaxResult, out
<1>7. CASE ~ (size <= max) /\ object.size > 0
  <2>1. out.size = object.size /\ out.short = object.short BY <1>5, <1>7
  <2>2. out.size <= 16 BY <1>2, <1>4, <1>7, <2>1
  <2> QED BY <1>4, <1>7, <2>1, <2>2 DEF ResultsBounded, MaxResult, out
<1>8. CASE ~ (size <= max) /\ ~ (object.size > 0)
  <2>1. out.size = max /\ out.how = "cut" BY <1>5, <1>8 DEF truncateMiddle
  <2>2. out.size <= 16 BY <1>2, <2>1
  <2> QED BY <2>1, <2>2 DEF ResultsBounded, MaxResult, out
<1> QED BY <1>6, <1>7, <1>8

-----------------------------------------------------------------------------
(* The invariant of prompt assembly                                            *)

\* What a step of prompt assembly needs of the one before it.
PromptIInv ==
  /\ apCase \in PromptCases /\ apDialog \in Seq(Nat) /\ apResult \in ResultType
  /\ BudgetSound /\ ToolsAllowed

LEMMA PromptStarts == ASSUME PromptInit PROVE PromptIInv
<1>1. apCase \in PromptCases /\ apDialog = <<>> /\ apResult = [fields |-> <<>>, error |-> FALSE] BY DEF PromptInit
<1>2. apResult \in ResultType
  <2>1. <<>> \in Seq(Nat) OBVIOUS
  <2> QED BY <1>1, <2>1 DEF ResultType
<1>3. BudgetSound
  <2>1. apDecision.mode = "none" BY DEF PromptInit, Decision
  <2> QED BY <2>1 DEF BudgetSound
<1>4. ToolsAllowed
  <2>1. apTools = withToolboxTool(apCase, selectTools(apCase, apCase.override)) BY DEF PromptInit
  <2>2. ToolboxToolName \notin apCase.override BY <1>1, PromptConstants
  <2> HIDE DEF ToolboxToolName
  <2> QED BY <2>1, <2>2 DEF ToolsAllowed, withToolboxTool, selectTools
<1> QED BY <1>1, <1>2, <1>3, <1>4 DEF PromptIInv

LEMMA BudgetStays == ASSUME BudgetSound, UNCHANGED <<apCase, apDecision>> PROVE BudgetSound'
BY DEF BudgetSound, Fixed, ContextCost, ResolveMessageBudget, calculatedMessageBudget

LEMMA DecideKeeps == ASSUME PromptIInv, DecideBudget PROVE PromptIInv'
<1>1. /\ apCase \in PromptCases /\ UNCHANGED <<apCase, apTools, apDialog, apResult>>
      /\ apDecision' = effectiveDialogBudgetDecisionLane(ResolveMessageBudget(apCase), apCase.lane, Fixed, apCase.lines)
  BY DEF PromptIInv, DecideBudget
<1>2. CaseNumbers(apCase) BY <1>1, CaseFacts
<1> DEFINE total == ResolveMessageBudget(apCase)
<1>3. total \in Int BY <1>2, ResolvedBudget
<1>4. apCase.lane \in Nat /\ Fixed \in Nat /\ apCase.lines \in Seq(Nat) BY <1>2 DEF CaseNumbers, Fixed
<1> HIDE DEF total
<1>5. apDecision' = effectiveDialogBudgetDecisionLane(total, apCase.lane, Fixed, apCase.lines) BY <1>1 DEF total
<1>6. Keeps(apDecision', total, Fixed) BY <1>3, <1>4, <1>5, DecisionKeeps
<1>7. apDecision'.mode \in {"lane", "total_prompt"} =>
        Fixed + ContextCost(apDecision'.lines) + apDecision'.dialog <= total /\ apDecision'.dialog >= 1
  BY <1>6 DEF Keeps
<1>8. total = ResolveMessageBudget(apCase') /\ Fixed' = Fixed BY <1>1 DEF total, Fixed
<1>9. BudgetSound' BY <1>1, <1>7, <1>8 DEF BudgetSound, total
<1>10. ToolsAllowed' BY <1>1 DEF ToolsAllowed, PromptIInv
<1> QED BY <1>1, <1>9, <1>10 DEF PromptIInv

LEMMA PromptStep == ASSUME PromptIInv, [PromptNext]_promptVars PROVE PromptIInv'
<1>1. CASE DecideBudget BY <1>1, DecideKeeps
<1>2. CASE SendPrompt
  <2>1. UNCHANGED <<apCase, apTools, apDecision, apDialog, apResult>> BY <1>2 DEF SendPrompt
  <2> QED BY <2>1, BudgetStays DEF PromptIInv, ToolsAllowed
<1>3. CASE UnlockToolbox
  <2>1. /\ UNCHANGED <<apCase, apDecision, apDialog, apResult>>
        /\ ToolboxToolName \in apTools /\ apTools' = selectTools(apCase, apCase.expansion)
    BY <1>3 DEF UnlockToolbox, toolboxTools
  <2>2. ToolsAllowed'
    <3>1. ~ apCase.strict BY <2>1 DEF PromptIInv, ToolsAllowed
    <3> QED BY <2>1, <3>1 DEF ToolsAllowed, selectTools
  <2> QED BY <2>1, <2>2, BudgetStays DEF PromptIInv
<1>4. CASE ToolAnswers
  <2>1. UNCHANGED <<apCase, apTools, apDecision, apDialog>> /\ apResult' \in ResultType
    BY <1>4, PromptConstants DEF ToolAnswers
  <2> QED BY <2>1, BudgetStays DEF PromptIInv, ToolsAllowed
<1>5. CASE \E t \in MessageTimes : LoadMessage(t)
  <2>1. PICK t \in MessageTimes : LoadMessage(t) BY <1>5
  <2>2. UNCHANGED <<apCase, apTools, apDecision, apResult>> /\ apDialog' = Append(apDialog, t) BY <2>1 DEF LoadMessage
  <2>3. t \in Nat BY PromptConstants
  <2>4. apDialog' \in Seq(Nat) BY <2>2, <2>3 DEF PromptIInv
  <2> QED BY <2>2, <2>4, BudgetStays DEF PromptIInv, ToolsAllowed
<1>6. CASE UNCHANGED promptVars
  <2>1. UNCHANGED <<apCase, apTools, apDecision, apDialog, apResult>> BY <1>6 DEF promptVars
  <2> QED BY <2>1, BudgetStays DEF PromptIInv, ToolsAllowed
<1> QED BY <1>1, <1>2, <1>3, <1>4, <1>5, <1>6 DEF PromptNext

\* For every case, every message and every tool result: the parts of a prompt fit
\* the budget decided for it, no tool outside the allowlist is offered, the day
\* markers already sent never change, and a shortened result keeps to its limit.
THEOREM PromptIsSound == PromptSpec => []PromptSound
<1>1. PromptInit => PromptIInv BY PromptStarts
<1>2. PromptIInv /\ [PromptNext]_promptVars => PromptIInv' BY PromptStep
<1>3. PromptIInv => PromptSound
  <2> SUFFICES ASSUME PromptIInv PROVE PromptSound OBVIOUS
  <2>1. MarkersStable
    <3> SUFFICES ASSUME NEW t \in MessageTimes
                 PROVE  LET old == annotateDialogDays(apDialog) new == annotateDialogDays(Append(apDialog, t))
                        IN Len(old) <= Len(new) /\ SubSeq(new, 1, Len(old)) = old
      BY DEF MarkersStable
    <3>1. t \in Nat /\ apDialog \in Seq(Nat) BY PromptConstants DEF PromptIInv
    <3> QED BY <3>1, MarkersGrow
  <2>2. ResultsBounded BY ResultBounded DEF PromptIInv
  <2> QED BY <2>1, <2>2 DEF PromptIInv, PromptSound
<1> QED BY <1>1, <1>2, <1>3, PTL DEF PromptSpec
=============================================================================
