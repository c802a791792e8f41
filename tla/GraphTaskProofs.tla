--------------------------- MODULE GraphTaskProofs ---------------------------
(***************************************************************************)
(* Proofs about GraphTask for every set of processes, every graph of steps *)
(* and every budget.                                                       *)
(***************************************************************************)
EXTENDS GraphTask, TLAPS

\* Checkpoints an effect may be claimed with: untouched, or past its tool loop.
Claimable == {"none", "candidate", "verified", "marked"}

\* A row that waits for a worker, or whose worker has not begun, is claimable.
NotBegun ==
    /\ \A s \in Step : Effectful(s) /\ st[s] = "pending" => cp[s] \in Claimable
    /\ \A p \in Proc, s \in Step :
         Effectful(s) /\ wk[p][s] = "begin" /\ stepRun[s] = p => cp[s] \in Claimable

\* The checkpoint remembers that the tool loop of an effect was started.
LoopsSaved ==
    \A s \in Step : Effectful(s) => loops[s] <= 1 /\ (cp[s] = "none" => loops[s] = 0)

\* It remembers a call from before the call is made.
CallsSaved ==
    /\ \A p \in Proc, s \in Step : wk[p][s] \in {"call", "answer"} =>
         Effectful(s) /\ cp[s] \notin {"none", "executing"}
    /\ \A s \in Step : calls[s] > 0 => Effectful(s) /\ cp[s] \notin {"none", "executing"}

\* A receipt is of a call, a verified action has one, and what is about to be
\* completed was verified or marked.
ReceiptsReal ==
    /\ \A p \in Proc, s \in Step : wk[p][s] = "answer" => calls[s] > 0
    /\ \A s \in receipts : calls[s] > 0
    /\ \A s \in Step : Kind[s] = "action" /\ cp[s] = "verified" => s \in receipts
    /\ \A p \in Proc, s \in Step :
         wk[p][s] = "complete" /\ stepRun[s] = p => cp[s] \in {"verified", "marked"}

\* A done step has a result.
DoneHasResult == \A s \in Step : st[s] = "done" => result[s] # "none"

Core ==
    /\ NotBegun
    /\ LoopsSaved
    /\ CallsSaved
    /\ ReceiptsReal
    /\ DoneHasResult
    /\ AcceptedWasPerformed
    /\ DependenciesConfirmed
    /\ EffectsExclusive

\* TypeOK in three parts.
TaskOK ==
    /\ status \in Live \cup Terminal
    /\ outcome \in Outcomes
    /\ holder \in Proc \cup {None}
    /\ planTries \in 0 .. MaxPlans
    /\ checks \in 0 .. MaxChecks
    /\ faults \in 0 .. MaxFaults

FlagsOK ==
    /\ overdue \in BOOLEAN /\ lease \in BOOLEAN /\ due \in BOOLEAN
    /\ planned \in BOOLEAN /\ restarted \in BOOLEAN
    /\ stepLease \in [Step -> BOOLEAN]
    /\ stepDue \in [Step -> BOOLEAN]

StepsOK ==
    /\ st \in [Step -> States]
    /\ tries \in [Step -> 0 .. MaxAttempts]
    /\ stepRun \in [Step -> Proc \cup {None}]
    /\ result \in [Step -> {"none", "accepted", "unverified"}]
    /\ cp \in [Step -> Phases]
    /\ receipts \in SUBSET Step
    /\ co \in [Proc -> Stages]
    /\ wk \in [Proc -> [Step -> Places]]
    /\ loops \in [Step -> Nat]
    /\ calls \in [Step -> Nat]

\* TypeOK splits into its three parts.
LEMMA TypeParts ==
  /\ TaskOK /\ FlagsOK /\ StepsOK => TypeOK
  /\ TaskOK' /\ FlagsOK' /\ StepsOK' => TypeOK'
  BY Zenon DEF TypeOK, TaskOK, FlagsOK, StepsOK

IInv == TypeOK /\ Core

-----------------------------------------------------------------------------
(* What a step may do to the rows. *)

\* Worker q of step t is where it was, except that p left s for place "to".
Moved(p, s, to) ==
    \A q \in Proc, t \in Step : wk'[q][t] = IF q = p /\ t = s THEN to ELSE wk[q][t]

\* Put moves one worker.
LEMMA PutMoves ==
  ASSUME TypeOK, NEW p \in Proc, NEW s \in Step, NEW to \in Places, Put(p, s, to)
  PROVE  Moved(p, s, to) /\ wk' \in [Proc -> [Step -> Places]]
  BY DEF TypeOK, Put, Moved

\* Steps that only give rows up: nothing is recorded, running rows may return
\* to the queue if they are safe to repeat, workers may end.
Relinquish ==
    /\ UNCHANGED <<cp, receipts, loops, calls, result, tries, stepRun>>
    /\ \A s \in Step :
         \/ st'[s] = st[s]
         \/ /\ st[s] = "running"
            /\ st'[s] \in {"pending", "blocked", "reconciliation"}
            /\ st'[s] = "pending" => ~NeedsReconciliation(s)
    /\ \A p \in Proc, s \in Step : wk'[p][s] = wk[p][s] \/ wk'[p][s] = "none"

\* They preserve every part of Core.
LEMMA RelinquishCore == Core /\ Relinquish => Core'
<1> SUFFICES ASSUME Core, Relinquish PROVE Core'
  OBVIOUS
<1>1. NotBegun' BY DEF Core, NotBegun, Relinquish, Claimable, NeedsReconciliation, Effectful
<1>2. LoopsSaved' BY DEF Core, LoopsSaved, Relinquish, Effectful
<1>3. CallsSaved' BY DEF Core, CallsSaved, Relinquish, Effectful
<1>4. ReceiptsReal' BY DEF Core, ReceiptsReal, Relinquish
<1>5. DoneHasResult' BY DEF Core, DoneHasResult, Relinquish
<1>6. AcceptedWasPerformed' BY DEF Core, AcceptedWasPerformed, Relinquish
<1>7. DependenciesConfirmed'
  BY DepsAssumption DEF Core, DependenciesConfirmed, Relinquish
<1>8. EffectsExclusive' BY DEF Core, EffectsExclusive, Relinquish, Read
<1> QED BY <1>1, <1>2, <1>3, <1>4, <1>5, <1>6, <1>7, <1>8 DEF Core

\* What Unfinished returns.
LEMMA UnfinishedKinds ==
  ASSUME NEW s \in Step, NEW retry \in BOOLEAN
  PROVE  /\ Unfinished(s, retry) \in {"pending", "blocked", "reconciliation"}
         /\ Unfinished(s, retry) = "pending" => ~NeedsReconciliation(s)
  BY DEF Unfinished

\* FailRow gives up the row it holds.
LEMMA FailRowRows ==
  ASSUME TypeOK, NEW p \in Proc, NEW s \in Step, NEW retry \in BOOLEAN, FailRow(p, s, retry)
  PROVE  /\ UNCHANGED <<tries, stepRun, result>>
         /\ st' \in [Step -> States]
         /\ \A t \in Step :
              \/ st'[t] = st[t]
              \/ /\ st[t] = "running"
                 /\ st'[t] \in {"pending", "blocked", "reconciliation"}
                 /\ st'[t] = "pending" => ~NeedsReconciliation(t)
<1> USE DEF States
<1>1. CASE Held(p, s)
  <2>1. PICK u : u = Unfinished(s, retry)
    OBVIOUS
  <2>2. u \in {"pending", "blocked", "reconciliation"} /\ (u = "pending" => ~NeedsReconciliation(s))
    BY <2>1, UnfinishedKinds
  <2>3. st[s] = "running" BY <1>1 DEF Held, StepClaim
  <2>4. st' = [st EXCEPT ![s] = u] BY <1>1, <2>1 DEF FailRow
  <2>5. UNCHANGED <<tries, stepRun, result>> BY <1>1 DEF FailRow
  <2>6. st \in [Step -> States] BY DEF TypeOK
  <2> QED BY <2>2, <2>3, <2>4, <2>5, <2>6
<1>2. CASE ~Held(p, s)
  BY <1>2 DEF TypeOK, FailRow, stepRow
<1> QED BY <1>1, <1>2

\* A worker that ends after FailRow only relinquishes.
LEMMA FailRelinquishes ==
  ASSUME TypeOK, NEW p \in Proc, NEW s \in Step, NEW retry \in BOOLEAN,
         FailRow(p, s, retry), Put(p, s, "none"), UNCHANGED <<saved, effect>>
  PROVE  Relinquish
<1>1. Moved(p, s, "none") BY PutMoves DEF Places
<1> QED BY <1>1, FailRowRows DEF Relinquish, Moved, saved, effect

\* A refused write only relinquishes.
LEMMA ClaimLostRelinquishes ==
  ASSUME TypeOK, NEW p \in Proc, NEW s \in Step, ClaimLost(p, s), UNCHANGED effect
  PROVE  Relinquish
  BY FailRelinquishes DEF ClaimLost

\* A checkpoint that the store accepts: what it says and where the worker goes
\* must fit what was saved before.
Wrote(p, s, phase, to) ==
    /\ Writable(p, s)
    /\ cp' = [cp EXCEPT ![s] = phase]
    /\ Moved(p, s, to)
    /\ UNCHANGED <<stepRow, calls>>
    /\ phase # "none"
    /\ phase = "executing" /\ Effectful(s) => cp[s] = "none"
    /\ to \notin {"begin", "answer"}
    /\ to = "call" => Effectful(s) /\ phase # "executing"
    /\ to = "complete" => phase \in {"verified", "marked"}
    /\ \A t \in receipts : t \in receipts'
    /\ \A t \in receipts' : calls[t] > 0
    /\ phase = "verified" /\ Kind[s] = "action" => s \in receipts
    /\ \A t \in Step : t # s => loops'[t] = loops[t]
    /\ Effectful(s) => loops'[s] <= 1

\* Such a checkpoint preserves Core.
LEMMA WroteCore ==
  ASSUME IInv, NEW p \in Proc, NEW s \in Step, NEW phase \in Phases, NEW to \in Places,
         Wrote(p, s, phase, to)
  PROVE  Core'
<1>1. /\ st[s] = "running" /\ stepRun[s] = p
      /\ UNCHANGED <<st, tries, stepRun, result, calls>>
  BY DEF Wrote, Writable, Held, StepClaim, stepRow
<1>2. \A t \in Step : cp'[t] = IF t = s THEN phase ELSE cp[t]
  BY DEF Wrote, IInv, TypeOK
<1>3. NotBegun'
  BY <1>1, <1>2 DEF IInv, Core, NotBegun, Wrote, Moved, Effectful
<1>4. LoopsSaved'
  BY <1>1, <1>2 DEF IInv, Core, LoopsSaved, Wrote, Effectful
<1>5. CallsSaved'
  BY <1>1, <1>2 DEF IInv, Core, CallsSaved, Wrote, Moved, Effectful
<1>6. ReceiptsReal'
  BY <1>1, <1>2 DEF IInv, TypeOK, Core, ReceiptsReal, Wrote, Moved
<1>7. DoneHasResult' BY <1>1 DEF IInv, Core, DoneHasResult
<1>8. AcceptedWasPerformed' BY <1>1 DEF IInv, Core, AcceptedWasPerformed, Wrote
<1>9. DependenciesConfirmed' BY <1>1 DEF IInv, Core, DependenciesConfirmed
<1>10. EffectsExclusive' BY <1>1 DEF IInv, Core, EffectsExclusive, Read
<1> QED BY <1>3, <1>4, <1>5, <1>6, <1>7, <1>8, <1>9, <1>10 DEF Core

\* Either a checkpoint is written or the worker gives up.
LEMMA CheckpointCases ==
  ASSUME TypeOK, NEW p \in Proc, NEW s \in Step, NEW phase \in Phases, NEW to \in Places,
         Checkpoint(p, s, phase, to), UNCHANGED calls
  PROVE  \/ ClaimLost(p, s)
         \/ /\ Writable(p, s)
            /\ cp' = [cp EXCEPT ![s] = phase]
            /\ Moved(p, s, to)
            /\ UNCHANGED <<stepRow, calls, receipts>>
<1>1. CASE Writable(p, s)
  <2>1. Put(p, s, to) BY <1>1 DEF Checkpoint
  <2>2. Moved(p, s, to) BY <2>1, PutMoves
  <2> QED BY <1>1, <2>2 DEF Checkpoint
<1>2. CASE ~Writable(p, s)
  BY <1>2 DEF Checkpoint
<1> QED BY <1>1, <1>2

\* Checkpoints without a new loop or receipt.
LEMMA PlainCheckpointCore ==
  ASSUME IInv, NEW p \in Proc, NEW s \in Step, NEW phase \in Phases, NEW to \in Places,
         Checkpoint(p, s, phase, to), UNCHANGED effect,
         phase \notin {"none", "executing"}, to \notin {"begin", "answer"},
         to = "call" => Effectful(s),
         to = "complete" => phase \in {"verified", "marked"},
         phase = "verified" /\ Kind[s] = "action" => s \in receipts
  PROVE  Core'
<1>1. CASE ClaimLost(p, s)
  BY <1>1, ClaimLostRelinquishes, RelinquishCore DEF IInv
<1>2. CASE /\ Writable(p, s)
           /\ cp' = [cp EXCEPT ![s] = phase]
           /\ Moved(p, s, to)
           /\ UNCHANGED <<stepRow, calls, receipts>>
  <2>1. \A t \in receipts : calls[t] > 0 BY DEF IInv, Core, ReceiptsReal
  <2>2. Effectful(s) => loops[s] <= 1 BY DEF IInv, Core, LoopsSaved
  <2>3. Wrote(p, s, phase, to) BY <1>2, <2>1, <2>2 DEF Wrote, effect
  <2> QED BY <2>3, WroteCore
<1>3. UNCHANGED calls BY DEF effect
<1> QED BY <1>1, <1>2, <1>3, CheckpointCases DEF IInv

-----------------------------------------------------------------------------
(* The actions of a worker preserve Core. *)

\* Every step of a worker preserves Core.
LEMMA WorkerCore ==
  ASSUME IInv, NEW p \in Proc, NEW s \in Step, WorkerStep(p, s)
  PROVE  Core'
<1> USE DEF Phases, Places
<1>1. CASE ResumeCandidate(p, s)
  <2>1. PICK to \in {"review", "complete"} :
          /\ Put(p, s, to)
          /\ to = "complete" => cp[s] \in {"verified", "marked"}
    BY <1>1 DEF ResumeCandidate
  <2>2. Moved(p, s, to) BY <2>1, PutMoves DEF IInv
  <2>3. UNCHANGED <<cp, receipts, loops, calls, result, tries, stepRun, st>>
    BY <1>1 DEF ResumeCandidate, stepRow, saved, effect
  <2>4. NotBegun' BY <2>1, <2>2, <2>3 DEF IInv, Core, NotBegun, Moved, Effectful
  <2>5. CallsSaved' BY <2>1, <2>2, <2>3 DEF IInv, Core, CallsSaved, Moved, Effectful
  <2>6. ReceiptsReal' BY <2>1, <2>2, <2>3 DEF IInv, Core, ReceiptsReal, Moved
  <2>7. LoopsSaved' /\ DoneHasResult' /\ AcceptedWasPerformed'
    BY <2>3 DEF IInv, Core, LoopsSaved, DoneHasResult, AcceptedWasPerformed, Effectful
  <2>8. DependenciesConfirmed' /\ EffectsExclusive'
    BY <2>3 DEF IInv, Core, DependenciesConfirmed, EffectsExclusive, Read
  <2> QED BY <2>4, <2>5, <2>6, <2>7, <2>8 DEF Core
<1>2. CASE StartLoop(p, s)
  <2>1. CASE ClaimLost(p, s) /\ ~Writable(p, s)
    <3>1. UNCHANGED effect BY <1>2, <2>1 DEF StartLoop, effect
    <3> QED BY <2>1, <3>1, ClaimLostRelinquishes, RelinquishCore DEF IInv
  <2>2. CASE Writable(p, s)
    <3>1. Put(p, s, "loop") BY <1>2, <2>2 DEF StartLoop, Checkpoint
    <3>2. Moved(p, s, "loop") BY <3>1, PutMoves DEF IInv
    <3>3. wk[p][s] = "begin" /\ stepRun[s] = p
      BY <1>2, <2>2 DEF StartLoop, Writable, Held, StepClaim
    <3>4. Effectful(s) => cp[s] = "none"
      BY <1>2, <3>3 DEF StartLoop, Reloop, IInv, Core, NotBegun, Claimable
    <3>5. Effectful(s) => loops[s] = 0 BY <3>4 DEF IInv, Core, LoopsSaved
    <3>6. loops' = [loops EXCEPT ![s] = @ + 1] BY <1>2, <2>2 DEF StartLoop
    <3>7. \A t \in receipts : calls[t] > 0 BY DEF IInv, Core, ReceiptsReal
    <3>8. loops \in [Step -> Nat] BY DEF IInv, TypeOK
    <3>9. (\A t \in Step : t # s => loops'[t] = loops[t]) /\ (Effectful(s) => loops'[s] <= 1)
      BY <3>5, <3>6, <3>8
    <3>10. /\ cp' = [cp EXCEPT ![s] = "executing"]
           /\ UNCHANGED <<stepRow, calls, receipts>>
      BY <1>2, <2>2 DEF StartLoop, Checkpoint
    <3>11. Wrote(p, s, "executing", "loop")
      BY <2>2, <3>2, <3>4, <3>7, <3>9, <3>10 DEF Wrote
    <3> QED BY <3>11, WroteCore
  <2> QED BY <1>2, <2>1, <2>2 DEF StartLoop, Checkpoint
<1>3. CASE ToolStarted(p, s)
  <2>1. Checkpoint(p, s, "calling", "call") /\ Effectful(s) /\ UNCHANGED effect
    BY <1>3 DEF ToolStarted
  <2> QED BY <2>1, PlainCheckpointCore
<1>4. CASE CallTool(p, s)
  <2>1. Put(p, s, "answer") BY <1>4 DEF CallTool
  <2>2. Moved(p, s, "answer") BY <2>1, PutMoves DEF IInv
  <2>3. UNCHANGED <<cp, receipts, loops, result, tries, stepRun, st>>
    BY <1>4 DEF CallTool, stepRow, saved
  <2>4. wk[p][s] = "call" /\ calls' = [calls EXCEPT ![s] = @ + 1] BY <1>4 DEF CallTool
  <2>5. calls \in [Step -> Nat] /\ receipts \subseteq Step BY DEF IInv, TypeOK
  <2>6. calls'[s] > 0 /\ (\A t \in Step : t # s => calls'[t] = calls[t]) BY <2>4, <2>5
  <2>7. NotBegun' BY <2>2, <2>3 DEF IInv, Core, NotBegun, Moved, Effectful
  <2>8. CallsSaved' BY <2>2, <2>3, <2>4, <2>6 DEF IInv, Core, CallsSaved, Moved, Effectful
  <2>9. ReceiptsReal' BY <2>2, <2>3, <2>5, <2>6 DEF IInv, Core, ReceiptsReal, Moved
  <2>10. LoopsSaved' /\ DoneHasResult'
    BY <2>3 DEF IInv, Core, LoopsSaved, DoneHasResult, Effectful
  <2>11. AcceptedWasPerformed' BY <2>3, <2>6 DEF IInv, Core, AcceptedWasPerformed
  <2>12. DependenciesConfirmed' /\ EffectsExclusive'
    BY <2>3 DEF IInv, Core, DependenciesConfirmed, EffectsExclusive, Read
  <2> QED BY <2>7, <2>8, <2>9, <2>10, <2>11, <2>12 DEF Core
<1>5. CASE ToolCompleted(p, s)
  <2>1. CASE Writable(p, s)
    <3>1. Put(p, s, "loop") BY <1>5, <2>1 DEF ToolCompleted
    <3>2. Moved(p, s, "loop") BY <3>1, PutMoves DEF IInv
    <3>3. /\ wk[p][s] = "answer" /\ receipts' = receipts \cup {s}
          /\ cp' = [cp EXCEPT ![s] = "called"]
          /\ UNCHANGED <<stepRow, calls, loops>>
      BY <1>5, <2>1 DEF ToolCompleted, effect
    <3>4. \A t \in receipts' : calls[t] > 0 BY <3>3 DEF IInv, Core, ReceiptsReal
    <3>5. Effectful(s) => loops[s] <= 1 BY DEF IInv, Core, LoopsSaved
    <3>6. Wrote(p, s, "called", "loop") BY <2>1, <3>2, <3>3, <3>4, <3>5 DEF Wrote
    <3> QED BY <3>6, WroteCore
  <2>2. CASE ~Writable(p, s)
    <3>1. ClaimLost(p, s) /\ UNCHANGED effect BY <1>5, <2>2 DEF ToolCompleted
    <3> QED BY <3>1, ClaimLostRelinquishes, RelinquishCore DEF IInv
  <2> QED BY <2>1, <2>2
<1>6. CASE ToolErred(p, s)
  <2>1. Checkpoint(p, s, "failed", "refused") /\ UNCHANGED effect BY <1>6 DEF ToolErred
  <2> QED BY <2>1, PlainCheckpointCore
<1>7. CASE SaveCandidate(p, s)
  <2>1. Checkpoint(p, s, "candidate", "review") /\ UNCHANGED effect BY <1>7 DEF SaveCandidate
  <2> QED BY <2>1, PlainCheckpointCore
<1>8. CASE ReviewAccepted(p, s)
  <2>1. Checkpoint(p, s, "verified", "complete") /\ Credible(s) /\ UNCHANGED effect
    BY <1>8 DEF ReviewAccepted
  <2> QED BY <2>1, PlainCheckpointCore DEF Credible
<1>9. CASE ReviewMarked(p, s)
  <2>1. Checkpoint(p, s, "marked", "complete") /\ UNCHANGED effect BY <1>9 DEF ReviewMarked
  <2> QED BY <2>1, PlainCheckpointCore
<1>10. CASE ReviewRejected(p, s)
  <2>1. Checkpoint(p, s, "rejected", "refused") /\ UNCHANGED effect BY <1>10 DEF ReviewRejected
  <2> QED BY <2>1, PlainCheckpointCore
<1>11. CASE CompleteTaskStep(p, s)
  <2>1. Put(p, s, "none") BY <1>11 DEF CompleteTaskStep
  <2>2. Moved(p, s, "none") BY <2>1, PutMoves DEF IInv
  <2>3. UNCHANGED <<cp, receipts, loops, calls>>
    BY <1>11 DEF CompleteTaskStep, saved, effect
  <2>4. CASE Writable(p, s)
    <3>1. PICK r : r = IF cp[s] = "marked" THEN "unverified" ELSE "accepted"
      OBVIOUS
    <3>2. /\ wk[p][s] = "complete" /\ stepRun[s] = p /\ st[s] = "running"
          /\ st' = [st EXCEPT ![s] = "done"]
          /\ result' = [result EXCEPT ![s] = r]
          /\ UNCHANGED <<tries, stepRun>>
      BY <1>11, <2>4, <3>1 DEF CompleteTaskStep, Writable, Held, StepClaim
    <3>3. r # "none" /\ (r = "accepted" => cp[s] = "verified")
      BY <3>1, <3>2 DEF IInv, Core, ReceiptsReal
    <3>4. st \in [Step -> States] /\ result \in [Step -> {"none", "accepted", "unverified"}]
      BY DEF IInv, TypeOK
    <3>5. NotBegun' BY <2>2, <2>3, <3>2, <3>4 DEF IInv, Core, NotBegun, Moved, Effectful
    <3>6. LoopsSaved' /\ CallsSaved'
      BY <2>2, <2>3 DEF IInv, Core, LoopsSaved, CallsSaved, Moved, Effectful
    <3>7. ReceiptsReal' BY <2>2, <2>3, <3>2 DEF IInv, Core, ReceiptsReal, Moved
    <3>8. DoneHasResult' BY <3>2, <3>3, <3>4 DEF IInv, Core, DoneHasResult
    <3>9. AcceptedWasPerformed'
      BY <2>3, <3>2, <3>3, <3>4 DEF IInv, Core, AcceptedWasPerformed, ReceiptsReal
    <3>10. DependenciesConfirmed'
      BY <3>2, <3>3, <3>4, DepsAssumption DEF IInv, Core, DependenciesConfirmed
    <3>11. EffectsExclusive' BY <3>2, <3>4 DEF IInv, Core, EffectsExclusive, Read
    <3> QED BY <3>5, <3>6, <3>7, <3>8, <3>9, <3>10, <3>11 DEF Core
  <2>5. CASE ~Writable(p, s)
    <3>1. UNCHANGED stepRow BY <1>11, <2>5 DEF CompleteTaskStep
    <3>2. Relinquish BY <2>2, <2>3, <3>1 DEF Relinquish, Moved, stepRow
    <3> QED BY <3>2, RelinquishCore DEF IInv
  <2> QED BY <2>4, <2>5
<1>12. ASSUME NEW retry \in BOOLEAN, FailTaskStepAfter(p, s, retry) PROVE Core'
  <2>1. FailRow(p, s, retry) /\ Put(p, s, "none") /\ UNCHANGED <<saved, effect>>
    BY <1>12 DEF FailTaskStepAfter
  <2> QED BY <2>1, FailRelinquishes, RelinquishCore DEF IInv
<1>13. CASE HeartbeatError(p, s)
  <2>1. FailRow(p, s, TRUE) /\ Put(p, s, "none") /\ UNCHANGED <<saved, effect>>
    BY <1>13 DEF HeartbeatError
  <2> QED BY <2>1, FailRelinquishes, RelinquishCore DEF IInv
<1> QED
  BY <1>1, <1>2, <1>3, <1>4, <1>5, <1>6, <1>7, <1>8, <1>9, <1>10, <1>11, <1>12, <1>13
  DEF WorkerStep

-----------------------------------------------------------------------------
(* The other actions preserve Core. *)

\* Rows, checkpoints, workers and effects are left alone.
Aside == UNCHANGED <<st, tries, stepRun, result, cp, receipts, wk, loops, calls>>

\* Such a step preserves Core.
LEMMA AsideCore == Core /\ Aside => Core'
<1>1. Aside => Relinquish BY DEF Aside, Relinquish
<1> QED BY <1>1, RelinquishCore

\* Taking over a task preserves Core: only safe rows return to the queue.
LEMMA ClaimCore ==
  ASSUME IInv, NEW p \in Proc, NEW ok \in BOOLEAN, ClaimGraphTask(p, ok)
  PROVE  Core'
<1>1. st' = [s \in Step |-> IF st[s] = "running" THEN Unfinished(s, TRUE) ELSE st[s]]
  BY DEF ClaimGraphTask
<1>2. UNCHANGED <<cp, receipts, loops, calls, result, tries, stepRun, wk>>
  BY DEF ClaimGraphTask, saved, effect
<1>3. Relinquish BY <1>1, <1>2, UnfinishedKinds DEF Relinquish
<1> QED BY <1>3, RelinquishCore DEF IInv

\* Every step of a coordinator preserves Core.
LEMMA CoordinatorCore ==
  ASSUME IInv, NEW p \in Proc, CoordinatorStep(p)
  PROVE  Core'
<1> USE DEF stepRow, saved, effect
<1>1. ASSUME \/ LoadPlan(p) \/ StartPlan(p) \/ SaveTaskSteps(p) \/ DeferPlan(p)
             \/ LeaveExecutor(p) \/ YieldForRetry(p) \/ StartValidation(p)
             \/ DeferValidation(p) \/ NoticeLost(p) \/ GiveUp(p)
             \/ \E o \in {"partial", "blocked"} : FinishPartial(p, o)
             \/ \E o \in {"completed", "partial"} : FinishValidated(p, o)
      PROVE Core'
  <2>1. Aside
    BY <1>1 DEF Aside, LoadPlan, StartPlan, SaveTaskSteps, DeferPlan, LeaveExecutor,
                YieldForRetry, StartValidation, DeferValidation, NoticeLost, GiveUp,
                FinishPartial, FinishValidated, FinishGraph, Yield
  <2> QED BY <2>1, AsideCore DEF IInv
<1>2. ASSUME NEW s \in Step, ClaimTaskStep(p, s) PROVE Core'
  <2>1. Put(p, s, "begin") BY <1>2 DEF ClaimTaskStep
  <2>2. Moved(p, s, "begin") BY <2>1, PutMoves DEF IInv, Places
  <2>3. UNCHANGED <<cp, receipts, loops, calls, result>> BY <1>2 DEF ClaimTaskStep
  <2>4. /\ st' = [st EXCEPT ![s] = "running"]
        /\ tries' = [tries EXCEPT ![s] = @ + 1]
        /\ stepRun' = [stepRun EXCEPT ![s] = p]
        /\ wk[p][s] = "none"
    BY <1>2 DEF ClaimTaskStep
  <2>5. st[s] = "pending" /\ ~ConflictingPeers(s) /\ ConfirmedDeps(s)
    BY <1>2 DEF ClaimTaskStep, StepReady
  <2>6. /\ st \in [Step -> States] /\ stepRun \in [Step -> Proc \cup {None}]
        /\ tries \in [Step -> 0 .. MaxAttempts]
    BY DEF IInv, TypeOK
  <2>7. NotBegun' BY <2>2, <2>3, <2>4, <2>5, <2>6 DEF IInv, Core, NotBegun, Moved, Effectful
  <2>8. LoopsSaved' /\ CallsSaved'
    BY <2>2, <2>3 DEF IInv, Core, LoopsSaved, CallsSaved, Moved, Effectful
  <2>9. ReceiptsReal' BY <2>2, <2>3, <2>4, <2>6 DEF IInv, Core, ReceiptsReal, Moved
  <2>10. DoneHasResult' /\ AcceptedWasPerformed'
    BY <2>3, <2>4, <2>6 DEF IInv, Core, DoneHasResult, AcceptedWasPerformed
  <2>11. DependenciesConfirmed'
    <3>1. \A d \in Deps[s] : st[d] = "done" /\ d \in Step
      BY <2>5, DepsAssumption DEF ConfirmedDeps
    <3>2. \A d \in Step : st[d] = "done" => st'[d] = "done" /\ result'[d] # "none"
      BY <2>3, <2>4, <2>5, <2>6 DEF IInv, Core, DoneHasResult
    <3>3. \A t \in Step : t # s => tries'[t] = tries[t] BY <2>4, <2>6
    <3> QED BY <3>1, <3>2, <3>3, DepsAssumption DEF IInv, Core, DependenciesConfirmed
  <2>12. EffectsExclusive'
    BY <2>4, <2>5, <2>6 DEF IInv, Core, EffectsExclusive, ConflictingPeers, Read
  <2> QED BY <2>7, <2>8, <2>9, <2>10, <2>11, <2>12 DEF Core
<1>3. CASE ResolveStuckTaskSteps(p)
  <2>1. UNCHANGED <<cp, receipts, loops, calls, tries, stepRun, wk>>
    BY <1>3 DEF ResolveStuckTaskSteps
  <2>2. /\ st' = [s \in Step |-> IF Stuck(s) THEN "done" ELSE st[s]]
        /\ result' = [s \in Step |-> IF Stuck(s) THEN "unverified" ELSE result[s]]
    BY <1>3 DEF ResolveStuckTaskSteps
  <2>3. NotBegun' BY <2>1, <2>2 DEF IInv, Core, NotBegun, Effectful
  <2>4. LoopsSaved' /\ CallsSaved' /\ ReceiptsReal'
    BY <2>1 DEF IInv, Core, LoopsSaved, CallsSaved, ReceiptsReal, Effectful
  <2>5. DoneHasResult' BY <2>2 DEF IInv, Core, DoneHasResult
  <2>6. AcceptedWasPerformed' BY <2>1, <2>2 DEF IInv, Core, AcceptedWasPerformed
  <2>7. DependenciesConfirmed'
    BY <2>1, <2>2, DepsAssumption DEF IInv, Core, DependenciesConfirmed, Stuck
  <2>8. EffectsExclusive' BY <2>2 DEF IInv, Core, EffectsExclusive, Read
  <2> QED BY <2>3, <2>4, <2>5, <2>6, <2>7, <2>8 DEF Core
<1> QED BY <1>1, <1>2, <1>3 DEF CoordinatorStep

\* Faults preserve Core.
LEMMA FaultCore ==
  ASSUME IInv, Fault
  PROVE  Core'
<1> USE DEF stepRow, saved, effect
<1>1. CASE MissHeartbeat
  BY <1>1, AsideCore DEF IInv, Aside, MissHeartbeat
<1>2. ASSUME NEW s \in Step, MissStepHeartbeat(s) PROVE Core'
  BY <1>2, AsideCore DEF IInv, Aside, MissStepHeartbeat
<1>3. ASSUME NEW p \in Proc, NEW s \in Step, FailNotStored(p, s) PROVE Core'
  <2>1. Moved(p, s, "none") BY <1>3, PutMoves DEF FailNotStored, IInv, Places
  <2>2. Relinquish BY <1>3, <2>1 DEF FailNotStored, Relinquish, Moved
  <2> QED BY <2>2, RelinquishCore DEF IInv
<1>4. ASSUME NEW p \in Proc, Crash(p) PROVE Core'
  <2>1. \A q \in Proc, s \in Step : wk'[q][s] = wk[q][s] \/ wk'[q][s] = "none"
    BY <1>4 DEF Crash, IInv, TypeOK
  <2>2. Relinquish BY <1>4, <2>1 DEF Crash, Relinquish
  <2> QED BY <2>2, RelinquishCore DEF IInv
<1>5. ASSUME NEW p \in Proc, StepsUnreadable(p) PROVE Core'
  BY <1>5, AsideCore DEF IInv, Aside, StepsUnreadable
<1> QED BY <1>1, <1>2, <1>3, <1>4, <1>5 DEF Fault

\* Every step preserves Core.
LEMMA NextCore == IInv /\ [Next]_vars => Core'
<1> SUFFICES ASSUME IInv, [Next]_vars PROVE Core'
  OBVIOUS
<1>1. CASE Claim BY <1>1, ClaimCore DEF Claim
<1>2. ASSUME NEW p \in Proc, CoordinatorStep(p) PROVE Core' BY <1>2, CoordinatorCore
<1>3. ASSUME NEW p \in Proc, NEW s \in Step, WorkerStep(p, s) PROVE Core' BY <1>3, WorkerCore
<1>4. ASSUME \/ Cancel \/ Restart \/ RetryTimeComes \/ LeaseRunsOut \/ DeadlinePasses
             \/ \E s \in Step : StepTimeComes(s)
      PROVE Core'
  <2>1. Aside
    BY <1>4 DEF Aside, Cancel, Restart, RetryTimeComes, LeaseRunsOut, DeadlinePasses,
                StepTimeComes, stepRow, saved, effect
  <2> QED BY <2>1, AsideCore DEF IInv
<1>5. CASE Fault BY <1>5, FaultCore
<1>6. CASE UNCHANGED vars
  <2>1. Aside BY <1>6 DEF Aside, vars, stepRow, saved, effect
  <2> QED BY <2>1, AsideCore DEF IInv
<1> QED BY <1>1, <1>2, <1>3, <1>4, <1>5, <1>6 DEF Next

\* Core holds of a new task.
LEMMA InitCore == Init => Core
<1> SUFFICES ASSUME Init PROVE Core
  OBVIOUS
<1>1. NotBegun BY DEF Init, NotBegun, Claimable
<1>2. LoopsSaved /\ CallsSaved BY DEF Init, LoopsSaved, CallsSaved
<1>3. ReceiptsReal BY DEF Init, ReceiptsReal
<1>4. DoneHasResult /\ AcceptedWasPerformed /\ DependenciesConfirmed /\ EffectsExclusive
  BY DEF Init, DoneHasResult, AcceptedWasPerformed, DependenciesConfirmed, EffectsExclusive
<1> QED BY <1>1, <1>2, <1>3, <1>4 DEF Core

-----------------------------------------------------------------------------
(* Types. *)

\* Failing a row keeps its types.
LEMMA FailRowType ==
  ASSUME TypeOK, NEW p \in Proc, NEW s \in Step, NEW retry \in BOOLEAN, FailRow(p, s, retry)
  PROVE  /\ stepLease' \in [Step -> BOOLEAN] /\ stepDue' \in [Step -> BOOLEAN]
         /\ st' \in [Step -> States]
         /\ UNCHANGED <<tries, stepRun, result>>
<1>1. st' \in [Step -> States] /\ UNCHANGED <<tries, stepRun, result>> BY FailRowRows
<1>2. stepLease' \in [Step -> BOOLEAN] /\ stepDue' \in [Step -> BOOLEAN]
  BY DEF TypeOK, FailRow, stepRow
<1> QED BY <1>1, <1>2

\* Go moves one coordinator.
LEMMA GoType ==
  ASSUME TypeOK, NEW p \in Proc, NEW to \in Stages, Go(p, to)
  PROVE  co' \in [Proc -> Stages]
  BY DEF TypeOK, Go

\* The store's rows after a refused write.
LEMMA ClaimLostType ==
  ASSUME TypeOK, NEW p \in Proc, NEW s \in Step, ClaimLost(p, s)
  PROVE  /\ stepLease' \in [Step -> BOOLEAN] /\ stepDue' \in [Step -> BOOLEAN]
         /\ st' \in [Step -> States]
         /\ co' \in [Proc -> Stages] /\ wk' \in [Proc -> [Step -> Places]]
         /\ UNCHANGED <<tries, stepRun, result, cp, receipts>>
<1>1. FailRow(p, s, FALSE) /\ Put(p, s, "none") /\ Go(p, "lost") /\ UNCHANGED saved
  BY DEF ClaimLost
<1>2. co' \in [Proc -> Stages] BY <1>1, GoType DEF Stages
<1>3. wk' \in [Proc -> [Step -> Places]] BY <1>1, PutMoves DEF Places
<1>4. UNCHANGED <<cp, receipts>> BY <1>1 DEF saved
<1> QED BY <1>1, <1>2, <1>3, <1>4, FailRowType

\* A checkpoint keeps the types.
LEMMA CheckpointType ==
  ASSUME TypeOK, NEW p \in Proc, NEW s \in Step, NEW phase \in Phases, NEW to \in Places,
         Checkpoint(p, s, phase, to), UNCHANGED <<taskRow, runRow, progress, rest, calls>>,
         loops' \in [Step -> Nat]
  PROVE  TypeOK'
<1>1. TaskOK' BY DEF TypeOK, TaskOK, taskRow, runRow, progress, rest
<1>2. CASE Writable(p, s)
  <2>1. Put(p, s, to) BY <1>2 DEF Checkpoint
  <2>2. wk' \in [Proc -> [Step -> Places]] BY <2>1, PutMoves
  <2>3. StepsOK' BY <1>2, <2>2 DEF TypeOK, StepsOK, Checkpoint, stepRow
  <2>4. FlagsOK' BY <1>2 DEF TypeOK, FlagsOK, Checkpoint, stepRow, runRow, progress, rest
  <2> QED BY <1>1, <2>3, <2>4, TypeParts
<1>3. CASE ~Writable(p, s)
  <2>1. ClaimLost(p, s) BY <1>3 DEF Checkpoint
  <2>2. StepsOK' BY <2>1, ClaimLostType DEF TypeOK, StepsOK
  <2>3. FlagsOK' BY <2>1, ClaimLostType DEF TypeOK, FlagsOK, runRow, progress, rest
  <2> QED BY <1>1, <2>2, <2>3, TypeParts
<1> QED BY <1>2, <1>3

\* Every step of a worker keeps the types.
LEMMA WorkerType ==
  ASSUME TypeOK, NEW p \in Proc, NEW s \in Step, WorkerStep(p, s)
  PROVE  TypeOK'
<1> USE DEF Phases, Places
<1>1. CASE ResumeCandidate(p, s)
  <2>1. PICK to \in {"review", "complete"} : Put(p, s, to) BY <1>1 DEF ResumeCandidate
  <2>2. wk' \in [Proc -> [Step -> Places]] BY <2>1, PutMoves
  <2>3. TaskOK' BY <1>1 DEF TypeOK, TaskOK, ResumeCandidate, taskRow, runRow, progress, rest
  <2>4. FlagsOK' BY <1>1 DEF TypeOK, FlagsOK, ResumeCandidate, stepRow, runRow, progress, rest
  <2>5. StepsOK' BY <1>1, <2>2 DEF TypeOK, StepsOK, ResumeCandidate, stepRow, saved, effect
  <2> QED BY <2>3, <2>4, <2>5, TypeParts
<1>2. CASE StartLoop(p, s)
  <2>1. loops' \in [Step -> Nat] BY <1>2 DEF StartLoop, TypeOK
  <2>2. Checkpoint(p, s, "executing", "loop") /\ UNCHANGED <<taskRow, runRow, progress, rest, calls>>
    BY <1>2 DEF StartLoop
  <2> QED BY <2>1, <2>2, CheckpointType
<1>3. CASE ToolStarted(p, s)
  <2>1. /\ Checkpoint(p, s, "calling", "call")
        /\ UNCHANGED <<taskRow, runRow, progress, rest, calls, loops>>
    BY <1>3 DEF ToolStarted, effect
  <2> QED BY <2>1, CheckpointType DEF TypeOK
<1>6. CASE ToolErred(p, s)
  <2>1. /\ Checkpoint(p, s, "failed", "refused")
        /\ UNCHANGED <<taskRow, runRow, progress, rest, calls, loops>>
    BY <1>6 DEF ToolErred, effect
  <2> QED BY <2>1, CheckpointType DEF TypeOK
<1>7. CASE SaveCandidate(p, s)
  <2>1. /\ Checkpoint(p, s, "candidate", "review")
        /\ UNCHANGED <<taskRow, runRow, progress, rest, calls, loops>>
    BY <1>7 DEF SaveCandidate, effect
  <2> QED BY <2>1, CheckpointType DEF TypeOK
<1>8. CASE ReviewAccepted(p, s)
  <2>1. /\ Checkpoint(p, s, "verified", "complete")
        /\ UNCHANGED <<taskRow, runRow, progress, rest, calls, loops>>
    BY <1>8 DEF ReviewAccepted, effect
  <2> QED BY <2>1, CheckpointType DEF TypeOK
<1>9. CASE ReviewMarked(p, s)
  <2>1. /\ Checkpoint(p, s, "marked", "complete")
        /\ UNCHANGED <<taskRow, runRow, progress, rest, calls, loops>>
    BY <1>9 DEF ReviewMarked, effect
  <2> QED BY <2>1, CheckpointType DEF TypeOK
<1>10. CASE ReviewRejected(p, s)
  <2>1. /\ Checkpoint(p, s, "rejected", "refused")
        /\ UNCHANGED <<taskRow, runRow, progress, rest, calls, loops>>
    BY <1>10 DEF ReviewRejected, effect
  <2> QED BY <2>1, CheckpointType DEF TypeOK
<1>4. CASE CallTool(p, s)
  <2>1. wk' \in [Proc -> [Step -> Places]] BY <1>4, PutMoves DEF CallTool
  <2>2. calls' \in [Step -> Nat] BY <1>4 DEF CallTool, TypeOK
  <2>3. TaskOK' BY <1>4 DEF TypeOK, TaskOK, CallTool, taskRow, runRow, progress, rest
  <2>4. FlagsOK' BY <1>4 DEF TypeOK, FlagsOK, CallTool, stepRow, runRow, progress, rest
  <2>5. StepsOK' BY <1>4, <2>1, <2>2 DEF TypeOK, StepsOK, CallTool, stepRow, saved
  <2> QED BY <2>3, <2>4, <2>5, TypeParts
<1>5. CASE ToolCompleted(p, s)
  <2>1. TaskOK' BY <1>5 DEF TypeOK, TaskOK, ToolCompleted, taskRow, runRow, progress, rest
  <2>2. CASE Writable(p, s)
    <3>1. wk' \in [Proc -> [Step -> Places]] BY <1>5, <2>2, PutMoves DEF ToolCompleted
    <3>2. FlagsOK' BY <1>5, <2>2 DEF TypeOK, FlagsOK, ToolCompleted, stepRow, runRow, progress, rest
    <3>3. StepsOK' BY <1>5, <2>2, <3>1, SMTT(30) DEF TypeOK, StepsOK, ToolCompleted, stepRow, effect
    <3> QED BY <2>1, <3>2, <3>3, TypeParts
  <2>3. CASE ~Writable(p, s)
    <3>1. ClaimLost(p, s) BY <1>5, <2>3 DEF ToolCompleted
    <3>2. FlagsOK' BY <1>5, <3>1, ClaimLostType DEF TypeOK, FlagsOK, ToolCompleted, runRow, progress, rest
    <3>3. StepsOK' BY <1>5, <3>1, ClaimLostType DEF TypeOK, StepsOK, ToolCompleted, effect
    <3> QED BY <2>1, <3>2, <3>3, TypeParts
  <2> QED BY <2>2, <2>3
<1>11. CASE CompleteTaskStep(p, s)
  <2>1. TaskOK' BY <1>11 DEF TypeOK, TaskOK, CompleteTaskStep, taskRow, runRow, progress, rest
  <2>2. wk' \in [Proc -> [Step -> Places]] BY <1>11, PutMoves DEF CompleteTaskStep
  <2>3. CASE Writable(p, s)
    <3>1. FlagsOK' BY <1>11, <2>3 DEF TypeOK, FlagsOK, CompleteTaskStep, runRow, progress, rest
    <3>2. StepsOK'
      BY <1>11, <2>2, <2>3 DEF TypeOK, StepsOK, CompleteTaskStep, saved, effect, States
    <3> QED BY <2>1, <3>1, <3>2, TypeParts
  <2>4. CASE ~Writable(p, s)
    <3>1. Go(p, "lost") /\ UNCHANGED stepRow BY <1>11, <2>4 DEF CompleteTaskStep
    <3>2. co' \in [Proc -> Stages] BY <3>1, GoType DEF Stages
    <3>3. FlagsOK' BY <1>11, <3>1 DEF TypeOK, FlagsOK, CompleteTaskStep, stepRow, runRow, progress, rest
    <3>4. StepsOK'
      BY <1>11, <2>2, <3>1, <3>2 DEF TypeOK, StepsOK, CompleteTaskStep, stepRow, saved, effect
    <3> QED BY <2>1, <3>3, <3>4, TypeParts
  <2> QED BY <2>3, <2>4
<1>12. ASSUME NEW retry \in BOOLEAN, NEW deferred \in BOOLEAN,
              FailRow(p, s, retry), Put(p, s, "none"), Go(p, AfterFailure(p, s, deferred)),
              UNCHANGED <<taskRow, runRow, progress, saved, effect, rest>>
       PROVE TypeOK'
  <2>1. AfterFailure(p, s, deferred) \in Stages BY DEF AfterFailure, Stages, TypeOK
  <2>2. co' \in [Proc -> Stages] BY <1>12, <2>1, GoType
  <2>3. wk' \in [Proc -> [Step -> Places]] BY <1>12, PutMoves
  <2>4. TaskOK' BY <1>12 DEF TypeOK, TaskOK, taskRow, runRow, progress, rest
  <2>5. FlagsOK' BY <1>12, FailRowType DEF TypeOK, FlagsOK, runRow, progress, rest
  <2>6. StepsOK' BY <1>12, <2>2, <2>3, FailRowType DEF TypeOK, StepsOK, saved, effect
  <2> QED BY <2>4, <2>5, <2>6, TypeParts
<1>13. ASSUME NEW retry \in BOOLEAN, FailTaskStepAfter(p, s, retry) PROVE TypeOK'
  BY <1>12, <1>13 DEF FailTaskStepAfter
<1>14. CASE HeartbeatError(p, s)
  BY <1>12, <1>14 DEF HeartbeatError
<1> QED
  BY <1>1, <1>2, <1>3, <1>4, <1>5, <1>6, <1>7, <1>8, <1>9, <1>10, <1>11, <1>13, <1>14
  DEF WorkerStep

\* Taking over a task keeps the types.
LEMMA ClaimType ==
  ASSUME TypeOK, NEW p \in Proc, NEW ok \in BOOLEAN, ClaimGraphTask(p, ok)
  PROVE  TypeOK'
<1>1. PICK to \in Stages : Go(p, to) BY DEF ClaimGraphTask, Stages
<1>2. co' \in [Proc -> Stages] BY <1>1, GoType
<1>3. TaskOK' BY BoundsAssumption DEF TypeOK, TaskOK, ClaimGraphTask, progress, Live
<1>4. FlagsOK' BY DEF TypeOK, FlagsOK, ClaimGraphTask, progress
<1>5. st' \in [Step -> States]
  BY UnfinishedKinds DEF TypeOK, ClaimGraphTask, States
<1>6. StepsOK' BY <1>2, <1>5 DEF TypeOK, StepsOK, ClaimGraphTask, saved, effect
<1> QED BY <1>3, <1>4, <1>6, TypeParts

\* The coordinator moves and rewrites its run, no row.
LEMMA CoordinatorRowsType ==
  ASSUME TypeOK, NEW p \in Proc, NEW to \in Stages, Go(p, to), TaskOK', FlagsOK',
         UNCHANGED <<stepRow, saved, wk, effect>>
  PROVE  TypeOK'
<1>1. co' \in [Proc -> Stages] BY GoType
<1>2. StepsOK' BY <1>1 DEF TypeOK, StepsOK, stepRow, saved, effect
<1> QED BY <1>2, TypeParts

\* Every step of a coordinator keeps the types.
LEMMA CoordinatorType ==
  ASSUME TypeOK, NEW p \in Proc, CoordinatorStep(p)
  PROVE  TypeOK'
<1> USE DEF Stages
<1>0. ASSUME NEW to \in Stages, Go(p, to),
             UNCHANGED <<taskRow, runRow, progress, stepRow, saved, wk, effect, rest>>
      PROVE TypeOK'
  <2>1. TaskOK' BY <1>0 DEF TypeOK, TaskOK, taskRow, runRow, progress, rest
  <2>2. FlagsOK' BY <1>0 DEF TypeOK, FlagsOK, stepRow, runRow, progress, rest
  <2> QED BY <1>0, <2>1, <2>2, CoordinatorRowsType
<1>1. CASE LoadPlan(p)
  <2>1. Go(p, "exec") /\ UNCHANGED <<taskRow, runRow, progress, stepRow, saved, wk, effect, rest>>
    BY <1>1 DEF LoadPlan
  <2> QED BY <2>1, <1>0
<1>2. CASE LeaveExecutor(p)
  <2>1. Go(p, "after") /\ UNCHANGED <<taskRow, runRow, progress, stepRow, saved, wk, effect, rest>>
    BY <1>2 DEF LeaveExecutor
  <2> QED BY <2>1, <1>0
<1>3. CASE StartValidation(p)
  <2>1. Go(p, "validate") /\ UNCHANGED <<taskRow, runRow, progress, stepRow, saved, wk, effect, rest>>
    BY <1>3 DEF StartValidation
  <2> QED BY <2>1, <1>0
<1>4. CASE NoticeLost(p)
  <2>1. Go(p, "lost") /\ UNCHANGED <<taskRow, runRow, progress, stepRow, saved, wk, effect, rest>>
    BY <1>4 DEF NoticeLost
  <2> QED BY <2>1, <1>0
<1>5. CASE GiveUp(p)
  <2>1. Go(p, "idle") /\ UNCHANGED <<taskRow, runRow, progress, stepRow, saved, wk, effect, rest>>
    BY <1>5 DEF GiveUp
  <2> QED BY <2>1, <1>0
<1>6. CASE StartPlan(p)
  <2>1. TaskOK' BY <1>6, MaxPlansAssumption DEF TypeOK, TaskOK, StartPlan, taskRow, runRow, rest
  <2>2. FlagsOK' BY <1>6 DEF TypeOK, FlagsOK, StartPlan, stepRow, runRow, rest
  <2> QED BY <1>6, <2>1, <2>2, CoordinatorRowsType DEF StartPlan
<1>7. CASE SaveTaskSteps(p)
  <2>1. TaskOK' BY <1>7 DEF TypeOK, TaskOK, SaveTaskSteps, taskRow, runRow, rest
  <2>2. FlagsOK' BY <1>7 DEF TypeOK, FlagsOK, SaveTaskSteps, stepRow, runRow, rest
  <2> QED BY <1>7, <2>1, <2>2, CoordinatorRowsType DEF SaveTaskSteps
<1>8. CASE DeferPlan(p) \/ YieldForRetry(p)
  <2>1. Yield(p) /\ UNCHANGED progress BY <1>8 DEF DeferPlan, YieldForRetry
  <2>2. TaskOK' BY <2>1 DEF TypeOK, TaskOK, Yield, progress, rest, Live
  <2>3. FlagsOK' BY <2>1 DEF TypeOK, FlagsOK, Yield, progress, stepRow, rest
  <2> QED BY <2>1, <2>2, <2>3, CoordinatorRowsType DEF Yield
<1>9. CASE DeferValidation(p)
  <2>1. Yield(p) /\ UNCHANGED <<planned, planTries>> BY <1>9 DEF DeferValidation
  <2>2. TaskOK' BY <1>9, <2>1, BoundsAssumption DEF TypeOK, TaskOK, DeferValidation, Yield, rest, Live
  <2>3. FlagsOK' BY <2>1 DEF TypeOK, FlagsOK, Yield, stepRow, rest
  <2> QED BY <2>1, <2>2, <2>3, CoordinatorRowsType DEF Yield
<1>10. ASSUME NEW o \in {"completed", "partial", "blocked"}, FinishGraph(p, o) PROVE TypeOK'
  <2>1. TaskOK'
    BY <1>10 DEF TypeOK, TaskOK, FinishGraph, FinalizeTask, TaskTerminalStatus, Terminal,
                 Outcomes, runRow, progress, rest
  <2>2. FlagsOK' BY <1>10 DEF TypeOK, FlagsOK, FinishGraph, stepRow, runRow, progress, rest
  <2> QED BY <1>10, <2>1, <2>2, CoordinatorRowsType DEF FinishGraph
<1>11. ASSUME NEW s \in Step, ClaimTaskStep(p, s) PROVE TypeOK'
  <2>1. wk' \in [Proc -> [Step -> Places]] BY <1>11, PutMoves DEF ClaimTaskStep, Places
  <2>2. TaskOK' BY <1>11 DEF TypeOK, TaskOK, ClaimTaskStep, taskRow, runRow, progress, rest
  <2>3. FlagsOK' BY <1>11 DEF TypeOK, FlagsOK, ClaimTaskStep, runRow, progress, rest
  <2>4. tries' \in [Step -> 0 .. MaxAttempts]
    BY <1>11, MaxAttemptsAssumption DEF TypeOK, ClaimTaskStep, StepReady
  <2>5. st' \in [Step -> States] /\ stepRun' \in [Step -> Proc \cup {None}]
    BY <1>11 DEF TypeOK, ClaimTaskStep, States
  <2>6. UNCHANGED <<result, cp, receipts, co, loops, calls>>
    BY <1>11 DEF ClaimTaskStep, saved, effect
  <2>7. StepsOK' BY <2>1, <2>4, <2>5, <2>6 DEF TypeOK, StepsOK
  <2> QED BY <2>2, <2>3, <2>7, TypeParts
<1>12. CASE ResolveStuckTaskSteps(p)
  <2>1. co' \in [Proc -> Stages] BY <1>12, GoType DEF ResolveStuckTaskSteps
  <2>2. TaskOK' BY <1>12 DEF TypeOK, TaskOK, ResolveStuckTaskSteps, taskRow, runRow, progress, rest
  <2>3. FlagsOK' BY <1>12 DEF TypeOK, FlagsOK, ResolveStuckTaskSteps, runRow, progress, rest
  <2>4. StepsOK'
    BY <1>12, <2>1 DEF TypeOK, StepsOK, ResolveStuckTaskSteps, saved, effect, States
  <2> QED BY <2>2, <2>3, <2>4, TypeParts
<1>13. \A o \in {"partial", "blocked"} : FinishPartial(p, o) => FinishGraph(p, o)
  BY DEF FinishPartial
<1>14. \A o \in {"completed", "partial"} : FinishValidated(p, o) => FinishGraph(p, o)
  BY DEF FinishValidated
<1> QED
  BY <1>1, <1>2, <1>3, <1>4, <1>5, <1>6, <1>7, <1>8, <1>9, <1>10, <1>11, <1>12, <1>13, <1>14
  DEF CoordinatorStep

\* Faults keep the types.
LEMMA FaultType ==
  ASSUME TypeOK, Fault
  PROVE  TypeOK'
<1> USE DEF taskRow, runRow, progress, saved, effect, rest
<1>1. TaskOK'
  BY BoundsAssumption DEF TypeOK, TaskOK, Fault, MissHeartbeat, MissStepHeartbeat, FailNotStored,
     Crash, StepsUnreadable
<1>2. CASE MissHeartbeat
  <2>1. FlagsOK' BY <1>2 DEF TypeOK, FlagsOK, MissHeartbeat, stepRow
  <2>2. StepsOK' BY <1>2 DEF TypeOK, StepsOK, MissHeartbeat, stepRow
  <2> QED BY <1>1, <2>1, <2>2, TypeParts
<1>3. ASSUME NEW s \in Step, MissStepHeartbeat(s) PROVE TypeOK'
  <2>1. FlagsOK' BY <1>3 DEF TypeOK, FlagsOK, MissStepHeartbeat
  <2>2. StepsOK' BY <1>3 DEF TypeOK, StepsOK, MissStepHeartbeat
  <2> QED BY <1>1, <2>1, <2>2, TypeParts
<1>4. ASSUME NEW p \in Proc, NEW s \in Step, FailNotStored(p, s) PROVE TypeOK'
  <2>1. PICK to \in Stages : Go(p, to) BY <1>4 DEF FailNotStored, Stages, TypeOK
  <2>2. co' \in [Proc -> Stages] BY <2>1, GoType
  <2>3. wk' \in [Proc -> [Step -> Places]] BY <1>4, PutMoves DEF FailNotStored, Places
  <2>4. FlagsOK' BY <1>4 DEF TypeOK, FlagsOK, FailNotStored, stepRow
  <2>5. StepsOK' BY <1>4, <2>2, <2>3 DEF TypeOK, StepsOK, FailNotStored, stepRow
  <2> QED BY <1>1, <2>4, <2>5, TypeParts
<1>5. ASSUME NEW p \in Proc, Crash(p) PROVE TypeOK'
  <2>1. co' \in [Proc -> Stages] BY <1>5, GoType DEF Crash, Stages
  <2>2. wk' \in [Proc -> [Step -> Places]] BY <1>5 DEF Crash, TypeOK, Places
  <2>3. FlagsOK' BY <1>5 DEF TypeOK, FlagsOK, Crash, stepRow
  <2>4. StepsOK' BY <1>5, <2>1, <2>2 DEF TypeOK, StepsOK, Crash, stepRow
  <2> QED BY <1>1, <2>3, <2>4, TypeParts
<1>6. ASSUME NEW p \in Proc, StepsUnreadable(p) PROVE TypeOK'
  <2>1. co' \in [Proc -> Stages] BY <1>6, GoType DEF StepsUnreadable, Stages
  <2>2. FlagsOK' BY <1>6 DEF TypeOK, FlagsOK, StepsUnreadable, stepRow
  <2>3. StepsOK' BY <1>6, <2>1 DEF TypeOK, StepsOK, StepsUnreadable, stepRow
  <2> QED BY <1>1, <2>2, <2>3, TypeParts
<1> QED BY <1>2, <1>3, <1>4, <1>5, <1>6 DEF Fault

\* Every step keeps the types.
LEMMA NextType == TypeOK /\ [Next]_vars => TypeOK'
<1> SUFFICES ASSUME TypeOK, [Next]_vars PROVE TypeOK'
  OBVIOUS
<1> USE DEF taskRow, runRow, progress, stepRow, saved, effect, rest
<1>1. CASE Claim BY <1>1, ClaimType DEF Claim
<1>2. ASSUME NEW p \in Proc, CoordinatorStep(p) PROVE TypeOK' BY <1>2, CoordinatorType
<1>3. ASSUME NEW p \in Proc, NEW s \in Step, WorkerStep(p, s) PROVE TypeOK' BY <1>3, WorkerType
<1>4. CASE Fault BY <1>4, FaultType
<1>5. CASE Cancel
  BY <1>5 DEF TypeOK, Cancel, FinalizeTask, TaskTerminalStatus, Terminal, Outcomes
<1>6. CASE Restart BY <1>6 DEF TypeOK, Restart
<1>7. CASE RetryTimeComes BY <1>7 DEF TypeOK, RetryTimeComes
<1>8. ASSUME NEW s \in Step, StepTimeComes(s) PROVE TypeOK' BY <1>8 DEF TypeOK, StepTimeComes
<1>9. CASE LeaseRunsOut BY <1>9 DEF TypeOK, LeaseRunsOut
<1>10. CASE DeadlinePasses
  <2>1. TaskOK' BY <1>10, BoundsAssumption DEF TypeOK, TaskOK, DeadlinePasses
  <2>2. FlagsOK' BY <1>10 DEF TypeOK, FlagsOK, DeadlinePasses
  <2>3. StepsOK' BY <1>10 DEF TypeOK, StepsOK, DeadlinePasses
  <2> QED BY <2>1, <2>2, <2>3, TypeParts
<1>11. CASE UNCHANGED vars BY <1>11 DEF TypeOK, vars
<1> QED BY <1>1, <1>2, <1>3, <1>4, <1>5, <1>6, <1>7, <1>8, <1>9, <1>10, <1>11 DEF Next

\* A new task has the types.
LEMMA InitType == Init => TypeOK
<1> SUFFICES ASSUME Init PROVE TypeOK
  OBVIOUS
<1>1. TaskOK
  BY BoundsAssumption, MaxPlansAssumption DEF Init, TaskOK, Live, Outcomes
<1>2. FlagsOK BY DEF Init, FlagsOK
<1>3. StepsOK BY MaxAttemptsAssumption DEF Init, StepsOK, States, Phases, Stages, Places
<1> QED BY <1>1, <1>2, <1>3, TypeParts

-----------------------------------------------------------------------------
(* What single steps may do. *)

\* A done step keeps its status and its result.
DoneKept == \A s \in Step : st[s] = "done" => st'[s] = "done" /\ result'[s] = result[s]

\* The record of the task and of its steps is left alone.
RecordKept == UNCHANGED <<taskRow, st, tries, result, saved, progress>>

\* A write of a worker: kept entirely when the worker does not hold the row.
LEMMA WorkerRecord ==
  ASSUME TypeOK, NEW p \in Proc, NEW s \in Step, WorkerStep(p, s)
  PROVE  DoneKept /\ (~Held(p, s) => RecordKept)
<1> USE DEF stepRow, saved
<1>1. ASSUME NEW retry \in BOOLEAN, FailRow(p, s, retry), UNCHANGED <<taskRow, progress, saved>>
      PROVE  DoneKept /\ (~Held(p, s) => RecordKept)
  <2>1. DoneKept BY <1>1, FailRowRows DEF DoneKept
  <2>2. ~Held(p, s) => RecordKept BY <1>1 DEF FailRow, RecordKept
  <2> QED BY <2>1, <2>2
<1>2. ASSUME NEW phase, NEW to, Checkpoint(p, s, phase, to), UNCHANGED <<taskRow, progress>>
      PROVE  DoneKept /\ (~Held(p, s) => RecordKept)
  <2>1. CASE Writable(p, s)
    BY <1>2, <2>1 DEF Checkpoint, DoneKept, Writable
  <2>2. CASE ~Writable(p, s)
    BY <1>1, <1>2, <2>2 DEF Checkpoint, ClaimLost
  <2> QED BY <2>1, <2>2
<1>3. CASE ResumeCandidate(p, s) BY <1>3 DEF ResumeCandidate, DoneKept, RecordKept
<1>4. CASE StartLoop(p, s) BY <1>2, <1>4 DEF StartLoop
<1>5. CASE ToolStarted(p, s) BY <1>2, <1>5 DEF ToolStarted
<1>6. CASE CallTool(p, s) BY <1>6 DEF CallTool, DoneKept, RecordKept
<1>7. CASE ToolCompleted(p, s)
  <2>1. CASE Writable(p, s) BY <1>7, <2>1 DEF ToolCompleted, DoneKept, Writable
  <2>2. CASE ~Writable(p, s) BY <1>1, <1>7, <2>2 DEF ToolCompleted, ClaimLost
  <2> QED BY <2>1, <2>2
<1>8. CASE ToolErred(p, s) BY <1>2, <1>8 DEF ToolErred
<1>9. CASE SaveCandidate(p, s) BY <1>2, <1>9 DEF SaveCandidate
<1>10. CASE ReviewAccepted(p, s) BY <1>2, <1>10 DEF ReviewAccepted
<1>11. CASE ReviewMarked(p, s) BY <1>2, <1>11 DEF ReviewMarked
<1>12. CASE ReviewRejected(p, s) BY <1>2, <1>12 DEF ReviewRejected
<1>13. CASE CompleteTaskStep(p, s)
  <2>1. CASE Writable(p, s)
    BY <1>13, <2>1 DEF CompleteTaskStep, DoneKept, Writable, Held, StepClaim, TypeOK
  <2>2. CASE ~Writable(p, s) BY <1>13, <2>2 DEF CompleteTaskStep, DoneKept, RecordKept
  <2> QED BY <2>1, <2>2
<1>14. ASSUME NEW retry \in BOOLEAN, FailTaskStepAfter(p, s, retry)
       PROVE  DoneKept /\ (~Held(p, s) => RecordKept)
  BY <1>1, <1>14 DEF FailTaskStepAfter
<1>15. CASE HeartbeatError(p, s) BY <1>1, <1>15 DEF HeartbeatError
<1> QED
  BY <1>3, <1>4, <1>5, <1>6, <1>7, <1>8, <1>9, <1>10, <1>11, <1>12, <1>13, <1>14, <1>15
  DEF WorkerStep

\* A write of a coordinator: kept entirely without a current run or once the
\* task has ended.
LEMMA CoordinatorRecord ==
  ASSUME TypeOK, NEW p \in Proc, CoordinatorStep(p)
  PROVE  DoneKept /\ (~Current(p) \/ status \in Terminal => RecordKept)
<1> USE DEF stepRow, saved, Terminal
<1>1. ASSUME LoadPlan(p) \/ LeaveExecutor(p) \/ StartValidation(p) \/ NoticeLost(p) \/ GiveUp(p)
      PROVE  DoneKept /\ RecordKept
  BY <1>1 DEF LoadPlan, LeaveExecutor, StartValidation, NoticeLost, GiveUp, DoneKept, RecordKept
<1>2. ASSUME StartPlan(p) \/ SaveTaskSteps(p) \/ DeferPlan(p) \/ YieldForRetry(p)
             \/ DeferValidation(p)
      PROVE  DoneKept /\ Current(p) /\ status = "running"
  BY <1>2 DEF StartPlan, SaveTaskSteps, DeferPlan, YieldForRetry, DeferValidation, Yield,
              LockedInTime, Locked, DoneKept
<1>3. ASSUME NEW o, FinishGraph(p, o)
      PROVE  DoneKept /\ Current(p) /\ status \in Live
  BY <1>3 DEF FinishGraph, FinalizeTask, DoneKept
<1>4. ASSUME NEW s \in Step, ClaimTaskStep(p, s)
      PROVE  DoneKept /\ Current(p) /\ status = "running"
  BY <1>4 DEF ClaimTaskStep, StepReady, LockedInTime, Locked, DoneKept, TypeOK
<1>5. ASSUME ResolveStuckTaskSteps(p)
      PROVE  DoneKept /\ Current(p) /\ status = "running"
  BY <1>5 DEF ResolveStuckTaskSteps, Locked, DoneKept, Stuck
<1>6. \A o : FinishPartial(p, o) \/ FinishValidated(p, o) => FinishGraph(p, o)
  BY DEF FinishPartial, FinishValidated
<1>7. Live \cap Terminal = {} BY DEF Live
<1> QED BY <1>1, <1>2, <1>3, <1>4, <1>5, <1>6, <1>7 DEF CoordinatorStep

\* A new run only returns running rows to the queue.
LEMMA ClaimRecord ==
  ASSUME TypeOK, NEW p \in Proc, NEW ok \in BOOLEAN, ClaimGraphTask(p, ok)
  PROVE  DoneKept /\ status \in Live /\ Current(p)'
  BY DEF ClaimGraphTask, DoneKept, Current

\* The person, time and faults leave the steps alone; only a cancel ends the
\* task.
LEMMA OtherRecord ==
  ASSUME \/ Cancel \/ Restart \/ RetryTimeComes \/ LeaseRunsOut \/ DeadlinePasses \/ Fault
         \/ (\E s \in Step : StepTimeComes(s)) \/ UNCHANGED vars
  PROVE  DoneKept /\ (RecordKept \/ (Cancel /\ status \in Live))
<1> USE DEF stepRow, saved, DoneKept, RecordKept
<1>1. CASE Cancel BY <1>1 DEF Cancel, FinalizeTask
<1>2. CASE Fault
  BY <1>2 DEF Fault, MissHeartbeat, MissStepHeartbeat, FailNotStored, Crash, StepsUnreadable
<1>3. CASE Restart \/ RetryTimeComes \/ LeaseRunsOut \/ DeadlinePasses
  BY <1>3 DEF Restart, RetryTimeComes, LeaseRunsOut, DeadlinePasses
<1>4. CASE (\E s \in Step : StepTimeComes(s)) \/ UNCHANGED vars
  BY <1>4 DEF StepTimeComes, vars
<1> QED BY <1>1, <1>2, <1>3, <1>4

-----------------------------------------------------------------------------
(* Theorems. *)

\* Every reachable state has the types and keeps what the checkpoints remember.
THEOREM Invariance == Spec => []IInv
<1>1. Init => IInv BY InitType, InitCore DEF IInv
<1>2. IInv /\ [Next]_vars => IInv' BY NextType, NextCore DEF IInv
<1> QED BY <1>1, <1>2, PTL DEF Spec

\* Type correctness, for every graph.
THEOREM TypeCorrect == Spec => []TypeOK
<1>1. IInv => TypeOK BY DEF IInv
<1> QED BY <1>1, Invariance, PTL

\* No crash, lost lease or retry ever replays an external effect.
THEOREM EffectsNeverReplayed == Spec => []EffectLoopOnce
<1>1. IInv => EffectLoopOnce BY DEF IInv, Core, LoopsSaved, EffectLoopOnce
<1> QED BY <1>1, Invariance, PTL

\* Every external call was recorded before it was made.
THEOREM CallsAreAnnounced == Spec => []EffectsAnnounced
<1>1. IInv => EffectsAnnounced BY DEF IInv, Core, CallsSaved, EffectsAnnounced
<1> QED BY <1>1, Invariance, PTL

\* An action with an accepted result was performed.
THEOREM AcceptedIsTruthful == Spec => []AcceptedWasPerformed
<1>1. IInv => AcceptedWasPerformed BY DEF IInv, Core
<1> QED BY <1>1, Invariance, PTL

\* Steps run on confirmed inputs only, and effects run alone.
THEOREM StepsAreOrdered == Spec => [](DependenciesConfirmed /\ EffectsExclusive)
<1>1. IInv => DependenciesConfirmed /\ EffectsExclusive BY DEF IInv, Core
<1> QED BY <1>1, Invariance, PTL

\* A confirmed step stays confirmed with the same result.
THEOREM ConfirmedStepsAreFinal == Spec => StepDoneIsFinal
<1>1. TypeOK /\ [Next]_vars => DoneKept
  BY WorkerRecord, CoordinatorRecord, ClaimRecord, OtherRecord DEF Next, Claim
<1>2. TypeOK /\ [Next]_vars =>
        [\A s \in Step : st[s] = "done" => st'[s] = "done" /\ result'[s] = result[s]]_vars
  BY <1>1 DEF DoneKept
<1> QED BY <1>2, TypeCorrect, PTL DEF Spec, StepDoneIsFinal

\* Nothing is written after the terminal report.
THEOREM NothingAfterReport == Spec => FrozenAfterEnd
<1>1. TypeOK /\ [Next]_vars /\ status \in Terminal => RecordKept
  <2> SUFFICES ASSUME TypeOK, [Next]_vars, status \in Terminal PROVE RecordKept
    OBVIOUS
  <2>1. status \notin Live /\ status # "running" BY DEF Live, Terminal
  <2>2. \A p \in Proc, s \in Step : ~Held(p, s) BY <2>1 DEF Held, Locked
  <2>3. ~Claim BY <2>1 DEF Claim, ClaimGraphTask
  <2> QED BY <2>1, <2>2, <2>3, WorkerRecord, CoordinatorRecord, OtherRecord DEF Next
<1>2. TypeOK /\ [Next]_vars =>
        [(status \in Terminal) => UNCHANGED <<taskRow, st, tries, result, saved, progress>>]_vars
  BY <1>1 DEF RecordKept
<1> QED BY <1>2, TypeCorrect, PTL DEF Spec, FrozenAfterEnd

\* A step of process q moves no other process.
LEMMA OthersStay ==
  ASSUME TypeOK, NEW q \in Proc, NEW p \in Proc, p # q,
         \/ CoordinatorStep(q) \/ (\E s \in Step : WorkerStep(q, s))
         \/ (\E ok \in BOOLEAN : ClaimGraphTask(q, ok))
  PROVE  <<co[p], wk[p]>>' = <<co[p], wk[p]>>
<1> USE DEF TypeOK, Go, Put
<1>1. CASE CoordinatorStep(q)
  BY <1>1, ZenonT(40) DEF CoordinatorStep, LoadPlan, StartPlan, SaveTaskSteps, DeferPlan, ClaimTaskStep,
     LeaveExecutor, ResolveStuckTaskSteps, YieldForRetry, StartValidation, DeferValidation,
     FinishPartial, FinishValidated, FinishGraph, NoticeLost, GiveUp, Yield
<1>2. ASSUME NEW s \in Step, WorkerStep(q, s) PROVE <<co[p], wk[p]>>' = <<co[p], wk[p]>>
  BY <1>2 DEF WorkerStep, ResumeCandidate, StartLoop, ToolStarted, CallTool, ToolCompleted,
     ToolErred, SaveCandidate, ReviewAccepted, ReviewMarked, ReviewRejected, CompleteTaskStep,
     FailTaskStepAfter, HeartbeatError, Checkpoint, ClaimLost
<1>3. CASE \E ok \in BOOLEAN : ClaimGraphTask(q, ok)
  BY <1>3 DEF ClaimGraphTask
<1> QED BY <1>1, <1>2, <1>3

\* A run whose lease is gone writes nothing any more.
THEOREM StaleRunsAreSilent == Spec => StaleRunSilent
<1>1. ASSUME TypeOK, [Next]_vars, NEW p \in Proc, ~Current(p), ~Current(p)',
             <<co[p], wk[p]>>' # <<co[p], wk[p]>>
      PROVE  RecordKept
  <2>1. ASSUME NEW q \in Proc, CoordinatorStep(q) PROVE RecordKept
    BY <1>1, <2>1, OthersStay, CoordinatorRecord
  <2>2. ASSUME NEW q \in Proc, NEW s \in Step, WorkerStep(q, s) PROVE RecordKept
    BY <1>1, <2>2, OthersStay, WorkerRecord DEF Held, Locked
  <2>3. ~Claim
    BY <1>1, OthersStay, ClaimRecord DEF Claim
  <2>4. ~Cancel BY <1>1 DEF Cancel
  <2> QED BY <1>1, <2>1, <2>2, <2>3, <2>4, OtherRecord DEF Next
<1>2. TypeOK /\ [Next]_vars =>
        [\A p \in Proc :
           ~Current(p) /\ ~Current(p)' /\ <<co[p], wk[p]>>' # <<co[p], wk[p]>>
             => UNCHANGED <<taskRow, st, tries, result, saved, progress>>]_vars
  BY <1>1 DEF RecordKept
<1> QED BY <1>2, TypeCorrect, PTL DEF Spec, StaleRunSilent

\* Types, single execution, announcement and order of effects together, for
\* every graph, number of daemons and number of faults.
THEOREM GraphIsSound == Spec => []GraphSound
  BY TypeCorrect, EffectsNeverReplayed, CallsAreAnnounced, StepsAreOrdered, PTL
  DEF GraphSound

\* An accepted action was performed, and effects ran alone.
THEOREM EffectsAreHonest == Spec => []EffectsHonest
  BY AcceptedIsTruthful, StepsAreOrdered, PTL DEF EffectsHonest
=============================================================================
