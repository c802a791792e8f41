------------------------- MODULE TaskLifecycleProofs -------------------------
(***************************************************************************)
(* Proofs about TaskLifecycle for every set of processes, every subset of  *)
(* the kinds and defects and every iteration budget.                       *)
(***************************************************************************)
EXTENDS TaskLifecycle, FiniteSetTheorems, TLAPS

\* Only periodic work reaches the unfenced end of a run, only recurring work
\* the unguarded reset.
EndOfRun ==
    \A p \in Proc : /\ pc[p] \in {"finish", "reset"} => ~OneShot
                    /\ pc[p] = "reset" => kind = "recurring"

\* What a one-shot row and its artifact say of each other.
Verdict ==
    OneShot => /\ report # "none" => status \in Terminal
               /\ status = "done" => report = "completed"
               /\ status = "canceled" => report = "cancelled"

\* A reviewer that still owns the row has read every review put off so far.
ReviewsRead ==
    /\ reviews <= MaxReviews
    /\ \A p \in Proc : (OneShot /\ Owns(p) /\ pc[p] = "judge") => reviews <= held[p]

\* TypeOK in three parts: Boolean columns, other columns, workers.
RowOK ==
    /\ kind \in AllKinds
    /\ defect \in {"none", "dispatcher", "tools"}
    /\ status \in Live \cup Terminal
    /\ age \in 0 .. 2
    /\ iteration \in Nat
    /\ report \in Reports
    /\ reviews \in Nat
    /\ crashes \in 0 .. MaxCrashes
    /\ wrote \in Nat

FlagsOK ==
    /\ stamped \in BOOLEAN
    /\ due \in BOOLEAN
    /\ overdue \in BOOLEAN
    /\ saved \in BOOLEAN
    /\ reviewDue \in BOOLEAN

WorkersOK ==
    /\ snap \in [Proc -> BOOLEAN]
    /\ booted \in [Proc -> BOOLEAN]
    /\ pc \in [Proc -> Places]
    /\ held \in [Proc -> Nat]
    /\ fence \in SUBSET Proc
    /\ sent \in [Proc -> BOOLEAN]

\* TypeOK splits into its three parts.
LEMMA TypeParts == TypeOK <=> RowOK /\ FlagsOK /\ WorkersOK
  BY Zenon DEF TypeOK, RowOK, FlagsOK, WorkersOK

IInv == TypeOK /\ EndOfRun /\ Verdict /\ ReviewsRead

USE DEF task, row, clock, sub, loop, worker, Live, Terminal, Reports, Places,
        AllKinds, OneShot, MaxReviews

-----------------------------------------------------------------------------

\* IInv holds of a new row.
LEMMA InitIInv == Init => IInv
<1> SUFFICES ASSUME Init PROVE IInv
  OBVIOUS
<1>1. RowOK BY KindsAssumption, DefectsAssumption, MaxCrashesAssumption DEF Init, RowOK
<1>2. WorkersOK BY DEF Init, WorkersOK
<1>3. FlagsOK BY Zenon DEF Init, FlagsOK
<1>4. EndOfRun /\ Verdict /\ ReviewsRead BY DEF Init, EndOfRun, Verdict, ReviewsRead, Owns
<1> QED BY <1>1, <1>2, <1>3, <1>4, TypeParts DEF IInv

\* A stuttering step preserves IInv.
LEMMA StutterIInv == IInv /\ UNCHANGED vars => IInv'
  BY DEF IInv, TypeOK, EndOfRun, Verdict, ReviewsRead, Owns, vars

\* The dispatch loop preserves IInv.
LEMMA LoopStepIInv ==
  ASSUME IInv, NEW p \in Proc, LoopStep(p)
  PROVE  IInv'
<1>1. ASSUME NEW ok \in BOOLEAN, ReapOrphansAtBoot(p, ok) PROVE IInv'
  <2>1. TypeOK' BY <1>1 DEF IInv, TypeOK, ReapOrphansAtBoot, Owns
  <2>2. EndOfRun' BY <1>1 DEF IInv, TypeOK, EndOfRun, ReapOrphansAtBoot, Owns
  <2>3. Verdict' BY <1>1 DEF IInv, TypeOK, EndOfRun, Verdict, ReapOrphansAtBoot, Owns
  <2>4. ReviewsRead' BY <1>1 DEF IInv, TypeOK, ReviewsRead, ReapOrphansAtBoot, Owns
  <2> QED BY <2>1, <2>2, <2>3, <2>4 DEF IInv
<1>2. CASE PendingTasks(p)
  <2>1. TypeOK' BY <1>2 DEF IInv, TypeOK, PendingTasks, Owns
  <2>2. EndOfRun' BY <1>2 DEF IInv, TypeOK, EndOfRun, PendingTasks, Owns
  <2>3. Verdict' BY <1>2 DEF IInv, TypeOK, EndOfRun, Verdict, PendingTasks, Owns
  <2>4. ReviewsRead' BY <1>2 DEF IInv, TypeOK, ReviewsRead, PendingTasks, Owns
  <2> QED BY <2>1, <2>2, <2>3, <2>4 DEF IInv
<1>3. CASE Dispatch(p)
  <2>1. TypeOK' BY <1>3 DEF IInv, TypeOK, Dispatch, Goto, Owns
  <2>2. EndOfRun' BY <1>3 DEF IInv, TypeOK, EndOfRun, Dispatch, Goto, Owns
  <2>3. Verdict' BY <1>3 DEF IInv, TypeOK, EndOfRun, Verdict, Dispatch, Goto, Owns
  <2>4. ReviewsRead' BY <1>3 DEF IInv, TypeOK, ReviewsRead, Dispatch, Goto, Owns
  <2> QED BY <2>1, <2>2, <2>3, <2>4 DEF IInv
<1>4. CASE SkipTask(p)
  <2>1. TypeOK' BY <1>4 DEF IInv, TypeOK, SkipTask, Owns
  <2>2. EndOfRun' BY <1>4 DEF IInv, TypeOK, EndOfRun, SkipTask, Owns
  <2>3. Verdict' BY <1>4 DEF IInv, TypeOK, EndOfRun, Verdict, SkipTask, Owns
  <2>4. ReviewsRead' BY <1>4 DEF IInv, TypeOK, ReviewsRead, SkipTask, Owns
  <2> QED BY <2>1, <2>2, <2>3, <2>4 DEF IInv
<1>5. CASE FailUndispatchable(p)
  <2>1. TypeOK' BY <1>5 DEF IInv, TypeOK, FailUndispatchable, Owns
  <2>2. EndOfRun' BY <1>5 DEF IInv, TypeOK, EndOfRun, FailUndispatchable, Owns
  <2>3. Verdict' BY <1>5 DEF IInv, TypeOK, EndOfRun, Verdict, FailUndispatchable, Owns
  <2>4. ReviewsRead' BY <1>5 DEF IInv, TypeOK, ReviewsRead, FailUndispatchable, Owns
  <2> QED BY <2>1, <2>2, <2>3, <2>4 DEF IInv
<1> QED BY <1>1, <1>2, <1>3, <1>4, <1>5 DEF LoopStep

\* Claiming and loading preserve IInv.
LEMMA ClaimStepIInv ==
  ASSUME IInv, NEW p \in Proc, ClaimStep(p)
  PROVE  IInv'
<1>1. CASE GiveUp(p)
  <2>1. TypeOK' BY <1>1 DEF IInv, TypeOK, GiveUp, Leave, Owns
  <2>2. EndOfRun' BY <1>1 DEF IInv, TypeOK, EndOfRun, GiveUp, Leave, Owns
  <2>3. Verdict' BY <1>1 DEF IInv, TypeOK, EndOfRun, Verdict, GiveUp, Leave, Owns
  <2>4. ReviewsRead' BY <1>1 DEF IInv, TypeOK, ReviewsRead, GiveUp, Leave, Owns
  <2> QED BY <2>1, <2>2, <2>3, <2>4 DEF IInv
<1>2. CASE ExpireByWorker(p)
  <2>1. TypeOK' BY <1>2 DEF IInv, TypeOK, ExpireByWorker, FinalizeTask, Leave, Owns, TaskTerminalStatus
  <2>2. EndOfRun' BY <1>2 DEF IInv, TypeOK, EndOfRun, ExpireByWorker, FinalizeTask, Leave, Owns, TaskTerminalStatus
  <2>3. Verdict' BY <1>2 DEF IInv, TypeOK, EndOfRun, Verdict, ExpireByWorker, FinalizeTask, Leave, Owns, TaskTerminalStatus
  <2>4. ReviewsRead' BY <1>2 DEF IInv, TypeOK, ReviewsRead, ExpireByWorker, FinalizeTask, Leave, Owns, TaskTerminalStatus
  <2> QED BY <2>1, <2>2, <2>3, <2>4 DEF IInv
<1>3. ASSUME NEW ok \in BOOLEAN, TrySetRunning(p, ok) PROVE IInv'
  <2>1. TypeOK'
    <3>1. RowOK' BY <1>3 DEF IInv, TypeOK, RowOK, TrySetRunning, Claimable, IntervalElapsed, Owns
    <3>2. WorkersOK' BY <1>3 DEF IInv, TypeOK, WorkersOK, TrySetRunning, Claimable, Goto, IntervalElapsed, Owns
    <3>3. FlagsOK' BY Zenon, <1>3 DEF IInv, TypeOK, FlagsOK, TrySetRunning, Claimable, IntervalElapsed, Owns
    <3> QED BY Zenon, <3>1, <3>2, <3>3 DEF TypeOK, RowOK, FlagsOK, WorkersOK
  <2>2. EndOfRun' BY <1>3 DEF IInv, TypeOK, EndOfRun, TrySetRunning, Claimable, Goto, IntervalElapsed, Owns
  <2>3. Verdict' BY <1>3 DEF IInv, TypeOK, EndOfRun, Verdict, TrySetRunning, Claimable, Goto, IntervalElapsed, Owns
  <2>4. ReviewsRead' BY <1>3 DEF IInv, TypeOK, ReviewsRead, TrySetRunning, Claimable, Goto, IntervalElapsed, Owns
  <2> QED BY <2>1, <2>2, <2>3, <2>4 DEF IInv
<1>4. ASSUME NEW ok \in BOOLEAN, ReadClaim(p, ok) PROVE IInv'
  <2>1. TypeOK' BY <1>4 DEF IInv, TypeOK, ReadClaim, Goto, Leave, Owns
  <2>2. EndOfRun' BY <1>4 DEF IInv, TypeOK, EndOfRun, ReadClaim, Goto, Leave, Owns
  <2>3. Verdict' BY <1>4 DEF IInv, TypeOK, EndOfRun, Verdict, ReadClaim, Goto, Leave, Owns
  <2>4. ReviewsRead' BY <1>4 DEF IInv, TypeOK, ReviewsRead, ReadClaim, Goto, Leave, Owns
  <2> QED BY <2>1, <2>2, <2>3, <2>4 DEF IInv
<1>5. CASE FailWithoutTools(p)
  <2>1. TypeOK' BY <1>5 DEF IInv, TypeOK, FailWithoutTools, Leave, Owns
  <2>2. EndOfRun' BY <1>5 DEF IInv, TypeOK, EndOfRun, FailWithoutTools, Leave, Owns
  <2>3. Verdict' BY <1>5 DEF IInv, TypeOK, EndOfRun, Verdict, FailWithoutTools, Leave, Owns
  <2>4. ReviewsRead' BY <1>5 DEF IInv, TypeOK, ReviewsRead, FailWithoutTools, Leave, Owns
  <2> QED BY <2>1, <2>2, <2>3, <2>4 DEF IInv
<1>6. CASE RunHandler(p)
  <2>1. TypeOK' BY <1>6 DEF IInv, TypeOK, RunHandler, Goto, Owns
  <2>2. EndOfRun' BY <1>6 DEF IInv, TypeOK, EndOfRun, RunHandler, Goto, Owns
  <2>3. Verdict' BY <1>6 DEF IInv, TypeOK, EndOfRun, Verdict, RunHandler, Goto, Owns
  <2>4. ReviewsRead' BY <1>6 DEF IInv, TypeOK, ReviewsRead, RunHandler, Goto, Owns
  <2> QED BY <2>1, <2>2, <2>3, <2>4 DEF IInv
<1>7. CASE ReuseSubmission(p)
  <2>1. TypeOK' BY <1>7 DEF IInv, TypeOK, ReuseSubmission, Goto, Owns
  <2>2. EndOfRun' BY <1>7 DEF IInv, TypeOK, EndOfRun, ReuseSubmission, Goto, Owns
  <2>3. Verdict' BY <1>7 DEF IInv, TypeOK, EndOfRun, Verdict, ReuseSubmission, Goto, Owns
  <2>4. ReviewsRead' BY <1>7 DEF IInv, TypeOK, ReviewsRead, ReuseSubmission, Goto, Owns
  <2> QED BY <2>1, <2>2, <2>3, <2>4 DEF IInv
<1>8. CASE ReviewNotDue(p)
  <2>1. TypeOK' BY <1>8 DEF IInv, TypeOK, ReviewNotDue, FromRunning, Leave, Owns
  <2>2. EndOfRun' BY <1>8 DEF IInv, TypeOK, EndOfRun, ReviewNotDue, FromRunning, Leave, Owns
  <2>3. Verdict' BY <1>8 DEF IInv, TypeOK, EndOfRun, Verdict, ReviewNotDue, FromRunning, Leave, Owns
  <2>4. ReviewsRead' BY <1>8 DEF IInv, TypeOK, ReviewsRead, ReviewNotDue, FromRunning, Leave, Owns
  <2> QED BY <2>1, <2>2, <2>3, <2>4 DEF IInv
<1>9. CASE LoadFailed(p)
  <2>1. TypeOK' BY <1>9 DEF IInv, TypeOK, LoadFailed, Leave, Owns
  <2>2. EndOfRun' BY <1>9 DEF IInv, TypeOK, EndOfRun, LoadFailed, Leave, Owns
  <2>3. Verdict' BY <1>9 DEF IInv, TypeOK, EndOfRun, Verdict, LoadFailed, Leave, Owns
  <2>4. ReviewsRead' BY <1>9 DEF IInv, TypeOK, ReviewsRead, LoadFailed, Leave, Owns
  <2> QED BY <2>1, <2>2, <2>3, <2>4 DEF IInv
<1> QED BY <1>1, <1>2, <1>3, <1>4, <1>5, <1>6, <1>7, <1>8, <1>9 DEF ClaimStep

\* What a handler's result does preserves IInv.
LEMMA HandlerStepIInv ==
  ASSUME IInv, NEW p \in Proc, HandlerStep(p)
  PROVE  IInv'
<1>1. CASE MessageSend(p)
  <2>1. TypeOK' BY <1>1 DEF IInv, TypeOK, MessageSend, Owns
  <2>2. EndOfRun' BY <1>1 DEF IInv, TypeOK, EndOfRun, MessageSend, Owns
  <2>3. Verdict' BY <1>1 DEF IInv, TypeOK, EndOfRun, Verdict, MessageSend, Owns
  <2>4. ReviewsRead' BY <1>1 DEF IInv, TypeOK, ReviewsRead, MessageSend, Owns
  <2> QED BY <2>1, <2>2, <2>3, <2>4 DEF IInv
<1>2. CASE HandlerFailed(p)
  <2>1. TypeOK' BY <1>2 DEF IInv, TypeOK, HandlerFailed, FromRunning, Leave, Owns
  <2>2. EndOfRun' BY <1>2 DEF IInv, TypeOK, EndOfRun, HandlerFailed, FromRunning, Leave, Owns
  <2>3. Verdict' BY <1>2 DEF IInv, TypeOK, EndOfRun, Verdict, HandlerFailed, FromRunning, Leave, Owns
  <2>4. ReviewsRead' BY <1>2 DEF IInv, TypeOK, ReviewsRead, HandlerFailed, FromRunning, Leave, Owns
  <2> QED BY <2>1, <2>2, <2>3, <2>4 DEF IInv
<1>3. CASE PauseTask(p)
  <2>1. TypeOK' BY <1>3 DEF IInv, TypeOK, PauseTask, FromRunning, FromRunningCounted, Leave, Owns
  <2>2. EndOfRun' BY <1>3 DEF IInv, TypeOK, EndOfRun, PauseTask, FromRunning, FromRunningCounted, Leave, Owns
  <2>3. Verdict' BY <1>3 DEF IInv, TypeOK, EndOfRun, Verdict, PauseTask, FromRunning, FromRunningCounted, Leave, Owns
  <2>4. ReviewsRead' BY <1>3 DEF IInv, TypeOK, ReviewsRead, PauseTask, FromRunning, FromRunningCounted, Leave, Owns
  <2> QED BY <2>1, <2>2, <2>3, <2>4 DEF IInv
<1>4. CASE UpdateProgress(p)
  <2>1. TypeOK'
    <3>1. RowOK' BY <1>4 DEF IInv, TypeOK, RowOK, UpdateProgress, FromRunning, FromRunningCounted, Owns
    <3>2. WorkersOK' BY <1>4 DEF IInv, TypeOK, WorkersOK, UpdateProgress, Again, Goto, Leave, Owns
    <3>3. FlagsOK' BY Zenon, <1>4 DEF IInv, TypeOK, FlagsOK, UpdateProgress, Owns
    <3> QED BY Zenon, <3>1, <3>2, <3>3 DEF TypeOK, RowOK, FlagsOK, WorkersOK
  <2>2. EndOfRun' BY <1>4 DEF IInv, TypeOK, EndOfRun, UpdateProgress, Again, FromRunning, FromRunningCounted, Goto, Leave, Owns
  <2>3. Verdict' BY <1>4 DEF IInv, TypeOK, EndOfRun, Verdict, UpdateProgress, Again, FromRunning, FromRunningCounted, Goto, Leave, Owns
  <2>4. ReviewsRead' BY <1>4 DEF IInv, TypeOK, ReviewsRead, UpdateProgress, Again, FromRunning, FromRunningCounted, Goto, Leave, Owns
  <2> QED BY <2>1, <2>2, <2>3, <2>4 DEF IInv
<1>5. CASE FinalizeEmpty(p)
  <2>1. TypeOK' BY <1>5 DEF IInv, TypeOK, FinalizeEmpty, FinalizeClaimed, FinalizeTask, Leave, Owns, TaskTerminalStatus
  <2>2. EndOfRun' BY <1>5 DEF IInv, TypeOK, EndOfRun, FinalizeEmpty, FinalizeClaimed, FinalizeTask, Leave, Owns, TaskTerminalStatus
  <2>3. Verdict' BY <1>5 DEF IInv, TypeOK, EndOfRun, Verdict, FinalizeEmpty, FinalizeClaimed, FinalizeTask, Leave, Owns, TaskTerminalStatus
  <2>4. ReviewsRead' BY <1>5 DEF IInv, TypeOK, ReviewsRead, FinalizeEmpty, FinalizeClaimed, FinalizeTask, Leave, Owns, TaskTerminalStatus
  <2> QED BY <2>1, <2>2, <2>3, <2>4 DEF IInv
<1>6. CASE SaveTaskSubmission(p)
  <2>1. TypeOK'
    <3>1. RowOK' BY <1>6 DEF IInv, TypeOK, RowOK, SaveTaskSubmission, Owns
    <3>2. WorkersOK' BY <1>6 DEF IInv, TypeOK, WorkersOK, SaveTaskSubmission, Goto, Leave, Owns
    <3>3. FlagsOK' BY Zenon, <1>6 DEF IInv, TypeOK, FlagsOK, SaveTaskSubmission, Owns
    <3> QED BY Zenon, <3>1, <3>2, <3>3 DEF TypeOK, RowOK, FlagsOK, WorkersOK
  <2>2. EndOfRun' BY <1>6 DEF IInv, TypeOK, EndOfRun, SaveTaskSubmission, Goto, Leave, Owns
  <2>3. Verdict' BY <1>6 DEF IInv, TypeOK, EndOfRun, Verdict, SaveTaskSubmission, Goto, Leave, Owns
  <2>4. ReviewsRead' BY <1>6 DEF IInv, TypeOK, ReviewsRead, SaveTaskSubmission, Goto, Leave, Owns
  <2> QED BY <2>1, <2>2, <2>3, <2>4 DEF IInv
<1>7. CASE SubmitPeriodic(p)
  <2>1. TypeOK' BY <1>7 DEF IInv, TypeOK, SubmitPeriodic, Goto, Owns
  <2>2. EndOfRun' BY <1>7 DEF IInv, TypeOK, EndOfRun, SubmitPeriodic, Goto, Owns
  <2>3. Verdict' BY <1>7 DEF IInv, TypeOK, EndOfRun, Verdict, SubmitPeriodic, Goto, Owns
  <2>4. ReviewsRead' BY <1>7 DEF IInv, TypeOK, ReviewsRead, SubmitPeriodic, Goto, Owns
  <2> QED BY <2>1, <2>2, <2>3, <2>4 DEF IInv
<1>8. CASE WriteFailed(p)
  <2>1. TypeOK' BY <1>8 DEF IInv, TypeOK, WriteFailed, Again, CadenceRunEnded, Leave, Goto, Owns
  <2>2. EndOfRun' BY <1>8 DEF IInv, TypeOK, EndOfRun, WriteFailed, Again, CadenceRunEnded, Leave, Goto, Owns
  <2>3. Verdict' BY <1>8 DEF IInv, TypeOK, EndOfRun, Verdict, WriteFailed, Again, CadenceRunEnded, Leave, Goto, Owns
  <2>4. ReviewsRead' BY <1>8 DEF IInv, TypeOK, ReviewsRead, WriteFailed, Again, CadenceRunEnded, Leave, Goto, Owns
  <2> QED BY <2>1, <2>2, <2>3, <2>4 DEF IInv
<1> QED BY <1>1, <1>2, <1>3, <1>4, <1>5, <1>6, <1>7, <1>8 DEF HandlerStep

\* The acceptance gate and the end of a run preserve IInv.
LEMMA FinishStepIInv ==
  ASSUME IInv, NEW p \in Proc, FinishStep(p)
  PROVE  IInv'
<1>1. CASE VerificationUnavailable(p)
  <2>1. TypeOK' BY <1>1 DEF IInv, TypeOK, VerificationUnavailable, FinalizeClaimed, FinalizeTask, Leave, Owns, TaskTerminalStatus
  <2>2. EndOfRun' BY <1>1 DEF IInv, TypeOK, EndOfRun, VerificationUnavailable, FinalizeClaimed, FinalizeTask, Leave, Owns, TaskTerminalStatus
  <2>3. Verdict' BY <1>1 DEF IInv, TypeOK, EndOfRun, Verdict, VerificationUnavailable, FinalizeClaimed, FinalizeTask, Leave, Owns, TaskTerminalStatus
  <2>4. ReviewsRead' BY <1>1 DEF IInv, TypeOK, ReviewsRead, VerificationUnavailable, FinalizeClaimed, FinalizeTask, Leave, Owns, TaskTerminalStatus
  <2> QED BY <2>1, <2>2, <2>3, <2>4 DEF IInv
<1>2. CASE DeferTaskVerification(p)
  <2>1. TypeOK'
    <3>1. RowOK' BY <1>2 DEF IInv, TypeOK, RowOK, DeferTaskVerification, Owns, ReviewsSpent
    <3>2. WorkersOK' BY <1>2 DEF IInv, TypeOK, WorkersOK, DeferTaskVerification, Leave, Owns, ReviewsSpent
    <3>3. FlagsOK' BY Zenon, <1>2 DEF IInv, TypeOK, FlagsOK, DeferTaskVerification, Owns, ReviewsSpent
    <3> QED BY Zenon, <3>1, <3>2, <3>3 DEF TypeOK, RowOK, FlagsOK, WorkersOK
  <2>2. EndOfRun' BY <1>2 DEF IInv, TypeOK, EndOfRun, DeferTaskVerification, Leave, Owns, ReviewsSpent
  <2>3. Verdict' BY <1>2 DEF IInv, TypeOK, EndOfRun, Verdict, DeferTaskVerification, Leave, Owns, ReviewsSpent
  <2>4. ReviewsRead' BY <1>2 DEF IInv, TypeOK, ReviewsRead, DeferTaskVerification, Leave, Owns, ReviewsSpent
  <2> QED BY <2>1, <2>2, <2>3, <2>4 DEF IInv
<1>3. CASE RejectTaskSubmission(p)
  <2>1. TypeOK'
    <3>1. RowOK' BY <1>3 DEF IInv, TypeOK, RowOK, RejectTaskSubmission, Owns
    <3>2. WorkersOK' BY <1>3 DEF IInv, TypeOK, WorkersOK, RejectTaskSubmission, Goto, Leave, Owns
    <3>3. FlagsOK' BY Zenon, <1>3 DEF IInv, TypeOK, FlagsOK, RejectTaskSubmission, Owns
    <3> QED BY Zenon, <3>1, <3>2, <3>3 DEF TypeOK, RowOK, FlagsOK, WorkersOK
  <2>2. EndOfRun' BY <1>3 DEF IInv, TypeOK, EndOfRun, RejectTaskSubmission, Goto, Leave, Owns
  <2>3. Verdict' BY <1>3 DEF IInv, TypeOK, EndOfRun, Verdict, RejectTaskSubmission, Goto, Leave, Owns
  <2>4. ReviewsRead' BY <1>3 DEF IInv, TypeOK, ReviewsRead, RejectTaskSubmission, Goto, Leave, Owns
  <2> QED BY <2>1, <2>2, <2>3, <2>4 DEF IInv
<1>4. CASE RejectPeriodic(p)
  <2>1. TypeOK'
    <3>1. RowOK' BY <1>4 DEF IInv, TypeOK, RowOK, RejectPeriodic, FromRunning, FromRunningCounted, Owns
    <3>2. WorkersOK' BY <1>4 DEF IInv, TypeOK, WorkersOK, RejectPeriodic, Again, Goto, Leave, Owns
    <3>3. FlagsOK' BY Zenon, <1>4 DEF IInv, TypeOK, FlagsOK, RejectPeriodic, Owns
    <3> QED BY Zenon, <3>1, <3>2, <3>3 DEF TypeOK, RowOK, FlagsOK, WorkersOK
  <2>2. EndOfRun' BY <1>4 DEF IInv, TypeOK, EndOfRun, RejectPeriodic, Again, FromRunning, FromRunningCounted, Goto, Leave, Owns
  <2>3. Verdict' BY <1>4 DEF IInv, TypeOK, EndOfRun, Verdict, RejectPeriodic, Again, FromRunning, FromRunningCounted, Goto, Leave, Owns
  <2>4. ReviewsRead' BY <1>4 DEF IInv, TypeOK, ReviewsRead, RejectPeriodic, Again, FromRunning, FromRunningCounted, Goto, Leave, Owns
  <2> QED BY <2>1, <2>2, <2>3, <2>4 DEF IInv
<1>5. CASE FinalizeCompleted(p)
  <2>1. TypeOK' BY <1>5 DEF IInv, TypeOK, FinalizeCompleted, FinalizeClaimed, FinalizeTask, Leave, Owns, TaskTerminalStatus
  <2>2. EndOfRun' BY <1>5 DEF IInv, TypeOK, EndOfRun, FinalizeCompleted, FinalizeClaimed, FinalizeTask, Leave, Owns, TaskTerminalStatus
  <2>3. Verdict' BY <1>5 DEF IInv, TypeOK, EndOfRun, Verdict, FinalizeCompleted, FinalizeClaimed, FinalizeTask, Leave, Owns, TaskTerminalStatus
  <2>4. ReviewsRead' BY <1>5 DEF IInv, TypeOK, ReviewsRead, FinalizeCompleted, FinalizeClaimed, FinalizeTask, Leave, Owns, TaskTerminalStatus
  <2> QED BY <2>1, <2>2, <2>3, <2>4 DEF IInv
<1>6. CASE AcceptPeriodic(p)
  <2>1. TypeOK' BY <1>6 DEF IInv, TypeOK, AcceptPeriodic, Goto, Owns
  <2>2. EndOfRun' BY <1>6 DEF IInv, TypeOK, EndOfRun, AcceptPeriodic, Goto, Owns
  <2>3. Verdict' BY <1>6 DEF IInv, TypeOK, EndOfRun, Verdict, AcceptPeriodic, Goto, Owns
  <2>4. ReviewsRead' BY <1>6 DEF IInv, TypeOK, ReviewsRead, AcceptPeriodic, Goto, Owns
  <2> QED BY <2>1, <2>2, <2>3, <2>4 DEF IInv
<1>7. CASE SetPendingForNotificationRetry(p)
  <2>1. TypeOK' BY <1>7 DEF IInv, TypeOK, SetPendingForNotificationRetry, FromRunning, Owns
  <2>2. EndOfRun' BY <1>7 DEF IInv, TypeOK, EndOfRun, SetPendingForNotificationRetry, FromRunning, Owns
  <2>3. Verdict' BY <1>7 DEF IInv, TypeOK, EndOfRun, Verdict, SetPendingForNotificationRetry, FromRunning, Owns
  <2>4. ReviewsRead' BY <1>7 DEF IInv, TypeOK, ReviewsRead, SetPendingForNotificationRetry, FromRunning, Owns
  <2> QED BY <2>1, <2>2, <2>3, <2>4 DEF IInv
<1>8. CASE Complete(p)
  <2>1. TypeOK' BY <1>8 DEF IInv, TypeOK, Complete, Goto, Leave, Owns
  <2>2. EndOfRun' BY <1>8 DEF IInv, TypeOK, EndOfRun, Complete, Goto, Leave, Owns
  <2>3. Verdict' BY <1>8 DEF IInv, TypeOK, EndOfRun, Verdict, Complete, Goto, Leave, Owns
  <2>4. ReviewsRead' BY <1>8 DEF IInv, TypeOK, ReviewsRead, Complete, Goto, Leave, Owns
  <2> QED BY <2>1, <2>2, <2>3, <2>4 DEF IInv
<1>9. ASSUME NEW ok \in BOOLEAN, ResetForNextRun(p, ok) PROVE IInv'
  <2>1. TypeOK' BY <1>9 DEF IInv, TypeOK, ResetForNextRun, Leave, Owns
  <2>2. EndOfRun' BY <1>9 DEF IInv, TypeOK, EndOfRun, ResetForNextRun, Leave, Owns
  <2>3. Verdict' BY <1>9 DEF IInv, TypeOK, EndOfRun, Verdict, ResetForNextRun, Leave, Owns
  <2>4. ReviewsRead' BY <1>9 DEF IInv, TypeOK, ReviewsRead, ResetForNextRun, Leave, Owns
  <2> QED BY <2>1, <2>2, <2>3, <2>4 DEF IInv
<1>10. ASSUME NEW ok \in BOOLEAN, Refetch(p, ok) PROVE IInv'
  <2>1. TypeOK' BY <1>10 DEF IInv, TypeOK, Refetch, Goto, Leave, Owns
  <2>2. EndOfRun' BY <1>10 DEF IInv, TypeOK, EndOfRun, Refetch, Goto, Leave, Owns
  <2>3. Verdict' BY <1>10 DEF IInv, TypeOK, EndOfRun, Verdict, Refetch, Goto, Leave, Owns
  <2>4. ReviewsRead' BY <1>10 DEF IInv, TypeOK, ReviewsRead, Refetch, Goto, Leave, Owns
  <2> QED BY <2>1, <2>2, <2>3, <2>4 DEF IInv
<1> QED BY <1>1, <1>2, <1>3, <1>4, <1>5, <1>6, <1>7, <1>8, <1>9, <1>10 DEF FinishStep

\* A crash preserves IInv.
LEMMA CrashIInv ==
  ASSUME IInv, NEW p \in Proc, Crash(p)
  PROVE  IInv'
<1>1. RowOK' BY MaxCrashesAssumption DEF IInv, TypeOK, RowOK, Crash
<1>6. FlagsOK' BY Zenon DEF IInv, TypeOK, FlagsOK, Crash
<1>2. WorkersOK' BY DEF IInv, TypeOK, WorkersOK, Crash, Leave
<1>3. TypeOK' BY Zenon, <1>1, <1>2, <1>6 DEF TypeOK, RowOK, FlagsOK, WorkersOK
<1>4. EndOfRun' /\ Verdict' BY DEF IInv, TypeOK, EndOfRun, Verdict, Crash, Leave
<1>5. ReviewsRead' BY DEF IInv, TypeOK, ReviewsRead, Owns, Crash, Leave
<1> QED BY <1>3, <1>4, <1>5 DEF IInv

\* The maintenance tick preserves IInv.
LEMMA MaintenanceIInv ==
  ASSUME IInv, Maintenance
  PROVE  IInv'
<1>1. CASE MaintainTaskDeadlines
  BY <1>1 DEF IInv, TypeOK, EndOfRun, Verdict, ReviewsRead, MaintainTaskDeadlines, FinalizeTask, TaskTerminalStatus, Owns
<1>2. CASE CompleteExhausted
  BY <1>2 DEF IInv, TypeOK, EndOfRun, Verdict, ReviewsRead, CompleteExhausted, Owns
<1>3. CASE ResetStale
  BY <1>3 DEF IInv, TypeOK, EndOfRun, Verdict, ReviewsRead, ResetStale, Owns
<1>4. CASE WakeStalePaused
  BY <1>4 DEF IInv, TypeOK, EndOfRun, Verdict, ReviewsRead, WakeStalePaused, Owns
<1> QED BY <1>1, <1>2, <1>3, <1>4 DEF Maintenance

\* Commands and callbacks preserve IInv.
LEMMA PersonIInv ==
  ASSUME IInv, Person
  PROVE  IInv'
<1>1. CASE Cancel
  BY <1>1 DEF IInv, TypeOK, EndOfRun, Verdict, ReviewsRead, Cancel, FinalizeTask, TaskTerminalStatus, Owns
<1>2. CASE Resume
  BY <1>2 DEF IInv, TypeOK, EndOfRun, Verdict, ReviewsRead, Resume, Resumable, Owns
<1>3. CASE WakePaused
  BY <1>3 DEF IInv, TypeOK, EndOfRun, Verdict, ReviewsRead, WakePaused, Owns
<1> QED BY <1>1, <1>2, <1>3 DEF Person

\* The passing of time preserves IInv.
LEMMA TimeIInv ==
  ASSUME IInv, Time
  PROVE  IInv'
<1>1. CASE GrowOld
  BY <1>1 DEF IInv, TypeOK, EndOfRun, Verdict, ReviewsRead, GrowOld, Owns
<1>2. CASE IntervalElapses
  BY <1>2 DEF IInv, TypeOK, EndOfRun, Verdict, ReviewsRead, IntervalElapses, Owns
<1>3. CASE DeadlinePasses
  BY <1>3 DEF IInv, TypeOK, EndOfRun, Verdict, ReviewsRead, DeadlinePasses, Owns
<1>4. CASE ReviewTimeComes
  BY <1>4 DEF IInv, TypeOK, EndOfRun, Verdict, ReviewsRead, ReviewTimeComes, Owns
<1> QED BY <1>1, <1>2, <1>3, <1>4 DEF Time

\* IInv is inductive.
LEMMA NextIInv == IInv /\ [Next]_vars => IInv'
<1> SUFFICES ASSUME IInv, Next PROVE IInv'
  BY StutterIInv
<1>1. ASSUME NEW p \in Proc, LoopStep(p) PROVE IInv' BY <1>1, LoopStepIInv
<1>2. ASSUME NEW p \in Proc, ClaimStep(p) PROVE IInv' BY <1>2, ClaimStepIInv
<1>3. ASSUME NEW p \in Proc, HandlerStep(p) PROVE IInv' BY <1>3, HandlerStepIInv
<1>4. ASSUME NEW p \in Proc, FinishStep(p) PROVE IInv' BY <1>4, FinishStepIInv
<1>5. ASSUME NEW p \in Proc, Crash(p) PROVE IInv' BY <1>5, CrashIInv
<1>6. CASE Maintenance BY <1>6, MaintenanceIInv
<1>7. CASE Person BY <1>7, PersonIInv
<1>8. CASE Time BY <1>8, TimeIInv
<1> QED BY <1>1, <1>2, <1>3, <1>4, <1>5, <1>6, <1>7, <1>8 DEF Next

\* IInv is an invariant of the task lifecycle.
THEOREM Invariance == Spec => []IInv
  BY InitIInv, NextIInv, PTL DEF Spec

\* Every variable of the row, the scheduler and the workers keeps its type.
THEOREM TypeCorrect == Spec => []TypeOK
  BY Invariance, PTL DEF IInv

\* The status and the artifact of a one-shot task agree however the races of
\* workers, ticks and commands end (finalizeTaskTx).
THEOREM StatusAgrees == Spec => []StatusMatchesReport
<1>1. IInv => StatusMatchesReport BY DEF IInv, Verdict, StatusMatchesReport
<1> QED BY <1>1, Invariance, PTL

\* A report's verification is put off at most MaxReviews times, also when two
\* reviewers hold the same claim (DeferTaskVerification).
THEOREM ReviewBudget == Spec => []ReviewsBounded
<1>1. IInv => ReviewsBounded BY DEF IInv, ReviewsRead, ReviewsBounded
<1> QED BY <1>1, Invariance, PTL

-----------------------------------------------------------------------------
(* Action properties. *)

\* The two claims of a single step.
Ended == (OneShot /\ status \in Terminal) => status' \in Terminal

Kept == (OneShot /\ report # "none") => (report' = report /\ status' \in Terminal)

\* The dispatch loop changes no verdict.
LEMMA LoopStepFinal ==
  ASSUME IInv, NEW p \in Proc, LoopStep(p)
  PROVE  Ended /\ Kept
<1>1. ASSUME NEW ok \in BOOLEAN, ReapOrphansAtBoot(p, ok) PROVE Ended /\ Kept
  BY <1>1 DEF IInv, EndOfRun, Verdict, Ended, Kept, ReapOrphansAtBoot
<1>2. CASE PendingTasks(p)
  BY <1>2 DEF IInv, EndOfRun, Verdict, Ended, Kept, PendingTasks
<1>3. CASE Dispatch(p)
  BY <1>3 DEF IInv, EndOfRun, Verdict, Ended, Kept, Dispatch
<1>4. CASE SkipTask(p)
  BY <1>4 DEF IInv, EndOfRun, Verdict, Ended, Kept, SkipTask
<1>5. CASE FailUndispatchable(p)
  BY <1>5 DEF IInv, EndOfRun, Verdict, Ended, Kept, FailUndispatchable
<1> QED BY <1>1, <1>2, <1>3, <1>4, <1>5 DEF LoopStep

\* Claiming and loading change no verdict.
LEMMA ClaimStepFinal ==
  ASSUME IInv, NEW p \in Proc, ClaimStep(p)
  PROVE  Ended /\ Kept
<1>1. CASE GiveUp(p)
  BY <1>1 DEF IInv, EndOfRun, Verdict, Ended, Kept, GiveUp
<1>2. CASE ExpireByWorker(p)
  BY <1>2 DEF IInv, EndOfRun, Verdict, Ended, Kept, ExpireByWorker, FinalizeTask, TaskTerminalStatus
<1>3. ASSUME NEW ok \in BOOLEAN, TrySetRunning(p, ok) PROVE Ended /\ Kept
  BY <1>3 DEF IInv, EndOfRun, Verdict, Ended, Kept, TrySetRunning, Claimable, IntervalElapsed
<1>4. ASSUME NEW ok \in BOOLEAN, ReadClaim(p, ok) PROVE Ended /\ Kept
  BY <1>4 DEF IInv, EndOfRun, Verdict, Ended, Kept, ReadClaim
<1>5. CASE FailWithoutTools(p)
  BY <1>5 DEF IInv, EndOfRun, Verdict, Ended, Kept, FailWithoutTools
<1>6. CASE RunHandler(p)
  BY <1>6 DEF IInv, EndOfRun, Verdict, Ended, Kept, RunHandler
<1>7. CASE ReuseSubmission(p)
  BY <1>7 DEF IInv, EndOfRun, Verdict, Ended, Kept, ReuseSubmission
<1>8. CASE ReviewNotDue(p)
  BY <1>8 DEF IInv, EndOfRun, Verdict, Ended, Kept, ReviewNotDue, FromRunning
<1>9. CASE LoadFailed(p)
  BY <1>9 DEF IInv, EndOfRun, Verdict, Ended, Kept, LoadFailed
<1> QED BY <1>1, <1>2, <1>3, <1>4, <1>5, <1>6, <1>7, <1>8, <1>9 DEF ClaimStep

\* A late handler result changes no verdict.
LEMMA HandlerStepFinal ==
  ASSUME IInv, NEW p \in Proc, HandlerStep(p)
  PROVE  Ended /\ Kept
<1>1. CASE MessageSend(p)
  BY <1>1 DEF IInv, EndOfRun, Verdict, Ended, Kept, MessageSend
<1>2. CASE HandlerFailed(p)
  BY <1>2 DEF IInv, EndOfRun, Verdict, Ended, Kept, HandlerFailed, FromRunning
<1>3. CASE PauseTask(p)
  BY <1>3 DEF IInv, EndOfRun, Verdict, Ended, Kept, PauseTask, FromRunning, FromRunningCounted
<1>4. CASE UpdateProgress(p)
  BY <1>4 DEF IInv, EndOfRun, Verdict, Ended, Kept, UpdateProgress, FromRunning, FromRunningCounted
<1>5. CASE FinalizeEmpty(p)
  BY <1>5 DEF IInv, EndOfRun, Verdict, Ended, Kept, FinalizeEmpty, FinalizeClaimed, FinalizeTask, Owns, TaskTerminalStatus
<1>6. CASE SaveTaskSubmission(p)
  BY <1>6 DEF IInv, EndOfRun, Verdict, Ended, Kept, SaveTaskSubmission, Owns
<1>7. CASE SubmitPeriodic(p)
  BY <1>7 DEF IInv, EndOfRun, Verdict, Ended, Kept, SubmitPeriodic
<1>8. CASE WriteFailed(p)
  BY <1>8 DEF IInv, EndOfRun, Verdict, Ended, Kept, WriteFailed
<1> QED BY <1>1, <1>2, <1>3, <1>4, <1>5, <1>6, <1>7, <1>8 DEF HandlerStep

\* A late review or completion changes no verdict.
LEMMA FinishStepFinal ==
  ASSUME IInv, NEW p \in Proc, FinishStep(p)
  PROVE  Ended /\ Kept
<1>1. CASE VerificationUnavailable(p)
  BY <1>1 DEF IInv, EndOfRun, Verdict, Ended, Kept, VerificationUnavailable, FinalizeClaimed, FinalizeTask, Owns, TaskTerminalStatus
<1>2. CASE DeferTaskVerification(p)
  BY <1>2 DEF IInv, EndOfRun, Verdict, Ended, Kept, DeferTaskVerification, Owns, ReviewsSpent
<1>3. CASE RejectTaskSubmission(p)
  BY <1>3 DEF IInv, EndOfRun, Verdict, Ended, Kept, RejectTaskSubmission, Owns
<1>4. CASE RejectPeriodic(p)
  BY <1>4 DEF IInv, EndOfRun, Verdict, Ended, Kept, RejectPeriodic, FromRunning, FromRunningCounted
<1>5. CASE FinalizeCompleted(p)
  BY <1>5 DEF IInv, EndOfRun, Verdict, Ended, Kept, FinalizeCompleted, FinalizeClaimed, FinalizeTask, Owns, TaskTerminalStatus
<1>6. CASE AcceptPeriodic(p)
  BY <1>6 DEF IInv, EndOfRun, Verdict, Ended, Kept, AcceptPeriodic
<1>7. CASE SetPendingForNotificationRetry(p)
  BY <1>7 DEF IInv, EndOfRun, Verdict, Ended, Kept, SetPendingForNotificationRetry, FromRunning
<1>8. CASE Complete(p)
  BY <1>8 DEF IInv, EndOfRun, Verdict, Ended, Kept, Complete
<1>9. ASSUME NEW ok \in BOOLEAN, ResetForNextRun(p, ok) PROVE Ended /\ Kept
  BY <1>9 DEF IInv, EndOfRun, Verdict, Ended, Kept, ResetForNextRun
<1>10. ASSUME NEW ok \in BOOLEAN, Refetch(p, ok) PROVE Ended /\ Kept
  BY <1>10 DEF IInv, EndOfRun, Verdict, Ended, Kept, Refetch
<1> QED BY <1>1, <1>2, <1>3, <1>4, <1>5, <1>6, <1>7, <1>8, <1>9, <1>10 DEF FinishStep

\* No step changes the verdict on a one-shot task.
LEMMA NextFinal == IInv /\ [Next]_vars => Ended /\ Kept
<1> SUFFICES ASSUME IInv, [Next]_vars PROVE Ended /\ Kept
  OBVIOUS
<1>1. ASSUME NEW p \in Proc, LoopStep(p) PROVE Ended /\ Kept BY <1>1, LoopStepFinal
<1>2. ASSUME NEW p \in Proc, ClaimStep(p) PROVE Ended /\ Kept BY <1>2, ClaimStepFinal
<1>3. ASSUME NEW p \in Proc, HandlerStep(p) PROVE Ended /\ Kept BY <1>3, HandlerStepFinal
<1>4. ASSUME NEW p \in Proc, FinishStep(p) PROVE Ended /\ Kept BY <1>4, FinishStepFinal
<1>5. ASSUME NEW p \in Proc, Crash(p) PROVE Ended /\ Kept
  BY <1>5 DEF IInv, Verdict, Ended, Kept, Crash
<1>6. CASE Maintenance
  BY <1>6 DEF IInv, Verdict, Ended, Kept, Maintenance, MaintainTaskDeadlines,
     CompleteExhausted, ResetStale, WakeStalePaused, FinalizeTask
<1>7. CASE Person
  BY <1>7 DEF IInv, Verdict, Ended, Kept, Person, Cancel, Resume, Resumable,
     WakePaused, FinalizeTask, TaskTerminalStatus
<1>8. CASE Time
  BY <1>8 DEF IInv, Verdict, Ended, Kept, Time, GrowOld, IntervalElapses,
     DeadlinePasses, ReviewTimeComes
<1>9. CASE UNCHANGED vars
  BY <1>9 DEF IInv, Verdict, Ended, Kept, vars
<1> QED BY <1>1, <1>2, <1>3, <1>4, <1>5, <1>6, <1>7, <1>8, <1>9 DEF Next

\* No late write puts an ended one-shot task back into the queue.
THEOREM EndedIsFinal == Spec => EndedStaysEnded
<1>1. IInv /\ [Next]_vars => [(OneShot /\ status \in Terminal) => status' \in Terminal]_vars
  BY NextFinal DEF Ended
<1> QED BY <1>1, Invariance, PTL DEF Spec, EndedStaysEnded

\* The report of a one-shot task is written once and never replaced.
THEOREM ReportStands == Spec => ReportIsFinal
<1>1. IInv /\ [Next]_vars =>
        [(OneShot /\ report # "none") => (report' = report /\ status' \in Terminal)]_vars
  BY NextFinal DEF Kept
<1> QED BY <1>1, Invariance, PTL DEF Spec, ReportIsFinal

-----------------------------------------------------------------------------
(* What every state of a task shows. *)

\* Types, status and review budget together, for every number of daemons.
THEOREM TaskIsSound == Spec => []TaskSound
  BY TypeCorrect, StatusAgrees, ReviewBudget, PTL DEF TaskSound

-----------------------------------------------------------------------------
(* What a task may spend.  A run is selected when a dispatch loop reads the   *)
(* row or a goroutine reads it again, within the budget; it is then handed to *)
(* a worker, claims the row, and is counted when it ends.                     *)

Chosen == {p \in Proc : snap[p]}
Waiting == {p \in Proc : pc[p] = "dispatched"}
Turns == Cardinality(Chosen) + Cardinality(Waiting) + (IF status = "running" THEN 1 ELSE 0)

TurnsBounded ==
    /\ Turns <= 2 * Cardinality(Proc)
    /\ iteration + Turns + 1 <= MaxIterations + 2 * Cardinality(Proc)

\* The workers that may write without claiming again, and those with a run ahead.
Writers == {p \in Proc : pc[p] \in {"claimed", "start"} \/ (pc[p] = "run" /\ ~sent[p])}
Able == Writers \cup {p \in Proc : pc[p] \in {"dispatched", "refetch"}}

\* Until the cadence elapses the messages written and those still possible are bounded.
WritesBounded ==
    kind = "cadence" =>
        /\ wrote + Cardinality(Writers) <= 2 * Cardinality(Proc)
        /\ ~IntervalElapsed => wrote + Cardinality(Chosen) + Cardinality(Able) <= 2 * Cardinality(Proc)

\* One daemon does not research while a report is saved.
RunsFresh == Cardinality(Proc) = 1 => \A p \in Proc : ~ (OneShot /\ saved /\ pc[p] = "run")

BudgetIInv == TurnsBounded /\ WritesBounded /\ RunsFresh

\* What a step may do to the runs selected.
Calm ==
    /\ Chosen' \subseteq Chosen /\ Waiting' \subseteq Waiting
    /\ status' = "running" => status = "running"
    /\ iteration' = iteration \/ iteration' = 0
Counts ==
    /\ Chosen' \subseteq Chosen /\ Waiting' \subseteq Waiting
    /\ status = "running" /\ status' # "running" /\ iteration' = iteration + 1
Selects == iteration < MaxIterations /\ iteration' = iteration /\ status' = "pending"
HandsOver(p) ==
    /\ p \in Chosen /\ Chosen' = Chosen \ {p} /\ Waiting' = Waiting \cup {p}
    /\ status' = status /\ iteration' = iteration
Claims(p) ==
    /\ p \in Waiting /\ Chosen' = Chosen /\ Waiting' = Waiting \ {p}
    /\ status = "pending" /\ status' = "running" /\ iteration' = iteration
TurnStep == Calm \/ Counts \/ Selects \/ \E p \in Proc : HandsOver(p) \/ Claims(p)

\* ... and to the messages of a cadence task.
Quiet ==
    /\ Chosen' \subseteq Chosen /\ Writers' \subseteq Writers /\ Able' \subseteq Able
    /\ wrote' = wrote /\ (IntervalElapsed => IntervalElapsed')
Elapses == IntervalElapsed' /\ Writers' \subseteq Writers /\ wrote' = wrote
HandsOn(p) ==
    /\ p \in Chosen /\ Chosen' = Chosen \ {p} /\ Able' = Able \cup {p}
    /\ Writers' \subseteq Writers /\ wrote' = wrote /\ (IntervalElapsed => IntervalElapsed')
ClaimsRun ==
    \/ IntervalElapsed /\ wrote' = 0
    \/ ~IntervalElapsed /\ ~IntervalElapsed' /\ wrote' = wrote /\ Chosen' \subseteq Chosen /\ Able' \subseteq Able
Writes(p) ==
    /\ p \in Writers /\ Writers' = Writers \ {p} /\ Able' = Able \ {p} /\ Chosen' = Chosen
    /\ wrote' = wrote + 1 /\ (IntervalElapsed => IntervalElapsed')
WriteStep == Quiet \/ Elapses \/ ClaimsRun \/ \E p \in Proc : HandsOn(p) \/ Writes(p)

\* ... and to a saved report.
SavedStep ==
    /\ <<saved, reviews>>' # <<saved, reviews>> =>
          \E p \in fence : pc[p] \in {"run", "judge"} /\ pc'[p] # pc[p]
    /\ saved' => saved \/ \E p \in Proc : pc[p] = "run" /\ pc'[p] # "run"
    /\ \A p \in Proc : pc'[p] = "run" => pc[p] = "run" \/ ~ (OneShot /\ saved')

LEMMA WorkersTyped == IInv => WorkersOK BY TypeParts DEF IInv

\* The dispatch loop and the runs already selected.
LEMMA LoopStepTurns == ASSUME IInv, NEW p \in Proc, LoopStep(p) PROVE TurnStep
<1>1. ASSUME NEW ok \in BOOLEAN, ReapOrphansAtBoot(p, ok) PROVE TurnStep
  BY <1>1, WorkersTyped DEF ReapOrphansAtBoot, Leave, Goto, TurnStep, Calm, Counts, Selects, HandsOver, Claims, Chosen, Waiting, WorkersOK
<1>2. CASE PendingTasks(p)
  BY <1>2, WorkersTyped DEF PendingTasks, WithinBudget, Leave, Goto, TurnStep, Calm, Counts, Selects, HandsOver, Claims, Chosen, Waiting, WorkersOK
<1>3. CASE Dispatch(p)
  BY <1>3, WorkersTyped DEF Dispatch, Leave, Goto, TurnStep, Calm, Counts, Selects, HandsOver, Claims, Chosen, Waiting, WorkersOK
<1>4. CASE SkipTask(p)
  BY <1>4, WorkersTyped DEF SkipTask, Leave, Goto, TurnStep, Calm, Counts, Selects, HandsOver, Claims, Chosen, Waiting, WorkersOK
<1>5. CASE FailUndispatchable(p)
  BY <1>5, WorkersTyped DEF FailUndispatchable, Leave, Goto, TurnStep, Calm, Counts, Selects, HandsOver, Claims, Chosen, Waiting, WorkersOK
<1> QED BY <1>1, <1>2, <1>3, <1>4, <1>5 DEF LoopStep

\* Claiming and loading and the runs already selected.
LEMMA ClaimStepTurns == ASSUME IInv, NEW p \in Proc, ClaimStep(p) PROVE TurnStep
<1>1. CASE GiveUp(p)
  BY <1>1, WorkersTyped DEF GiveUp, Leave, Goto, TurnStep, Calm, Counts, Selects, HandsOver, Claims, Chosen, Waiting, WorkersOK
<1>2. CASE ExpireByWorker(p)
  BY <1>2, WorkersTyped DEF ExpireByWorker, FinalizeTask, TaskTerminalStatus, Leave, Goto, TurnStep, Calm, Counts, Selects, HandsOver, Claims, Chosen, Waiting, WorkersOK
<1>3. ASSUME NEW ok \in BOOLEAN, TrySetRunning(p, ok) PROVE TurnStep
  BY <1>3, WorkersTyped DEF TrySetRunning, Claimable, Leave, Goto, TurnStep, Calm, Counts, Selects, HandsOver, Claims, Chosen, Waiting, WorkersOK
<1>4. ASSUME NEW ok \in BOOLEAN, ReadClaim(p, ok) PROVE TurnStep
  BY <1>4, WorkersTyped DEF ReadClaim, Owns, Leave, Goto, TurnStep, Calm, Counts, Selects, HandsOver, Claims, Chosen, Waiting, WorkersOK
<1>5. CASE FailWithoutTools(p)
  BY <1>5, WorkersTyped DEF FailWithoutTools, Leave, Goto, TurnStep, Calm, Counts, Selects, HandsOver, Claims, Chosen, Waiting, WorkersOK
<1>6. CASE RunHandler(p)
  BY <1>6, WorkersTyped DEF RunHandler, HasSubmission, Leave, Goto, TurnStep, Calm, Counts, Selects, HandsOver, Claims, Chosen, Waiting, WorkersOK
<1>7. CASE ReuseSubmission(p)
  BY <1>7, WorkersTyped DEF ReuseSubmission, HasSubmission, Leave, Goto, TurnStep, Calm, Counts, Selects, HandsOver, Claims, Chosen, Waiting, WorkersOK
<1>8. CASE ReviewNotDue(p)
  BY <1>8, WorkersTyped DEF ReviewNotDue, FromRunning, HasSubmission, Leave, Goto, TurnStep, Calm, Counts, Selects, HandsOver, Claims, Chosen, Waiting, WorkersOK
<1>9. CASE LoadFailed(p)
  BY <1>9, WorkersTyped DEF LoadFailed, Leave, Goto, TurnStep, Calm, Counts, Selects, HandsOver, Claims, Chosen, Waiting, WorkersOK
<1> QED BY <1>1, <1>2, <1>3, <1>4, <1>5, <1>6, <1>7, <1>8, <1>9 DEF ClaimStep

\* The handler and the runs already selected.
LEMMA HandlerStepTurns == ASSUME IInv, NEW p \in Proc, HandlerStep(p) PROVE TurnStep
<1>1. CASE MessageSend(p)
  BY <1>1, WorkersTyped DEF MessageSend, Leave, Goto, TurnStep, Calm, Counts, Selects, HandsOver, Claims, Chosen, Waiting, WorkersOK
<1>2. CASE HandlerFailed(p)
  BY <1>2, WorkersTyped DEF HandlerFailed, FromRunning, Leave, Goto, TurnStep, Calm, Counts, Selects, HandsOver, Claims, Chosen, Waiting, WorkersOK
<1>3. CASE PauseTask(p)
  BY <1>3, WorkersTyped DEF PauseTask, FromRunningCounted, FromRunning, Leave, Goto, TurnStep, Calm, Counts, Selects, HandsOver, Claims, Chosen, Waiting, WorkersOK
<1>4. CASE UpdateProgress(p)
  BY <1>4, WorkersTyped DEF UpdateProgress, FromRunningCounted, FromRunning, Again, CadenceRunEnded, Leave, Goto, TurnStep, Calm, Counts, Selects, HandsOver, Claims, Chosen, Waiting, WorkersOK
<1>5. CASE FinalizeEmpty(p)
  BY <1>5, WorkersTyped DEF FinalizeEmpty, FinalizeClaimed, FinalizeTask, TaskTerminalStatus, Owns, Leave, Goto, TurnStep, Calm, Counts, Selects, HandsOver, Claims, Chosen, Waiting, WorkersOK
<1>6. CASE SaveTaskSubmission(p)
  BY <1>6, WorkersTyped DEF SaveTaskSubmission, Owns, Leave, Goto, TurnStep, Calm, Counts, Selects, HandsOver, Claims, Chosen, Waiting, WorkersOK
<1>7. CASE SubmitPeriodic(p)
  BY <1>7, WorkersTyped DEF SubmitPeriodic, Leave, Goto, TurnStep, Calm, Counts, Selects, HandsOver, Claims, Chosen, Waiting, WorkersOK
<1>8. CASE WriteFailed(p)
  BY <1>8, WorkersTyped DEF WriteFailed, Again, CadenceRunEnded, Leave, Goto, TurnStep, Calm, Counts, Selects, HandsOver, Claims, Chosen, Waiting, WorkersOK
<1> QED BY <1>1, <1>2, <1>3, <1>4, <1>5, <1>6, <1>7, <1>8 DEF HandlerStep

\* The end of a run and the runs already selected.
LEMMA FinishStepTurns == ASSUME IInv, NEW p \in Proc, FinishStep(p) PROVE TurnStep
<1>1. CASE VerificationUnavailable(p)
  BY <1>1, WorkersTyped DEF VerificationUnavailable, FinalizeClaimed, FinalizeTask, TaskTerminalStatus, Owns, Leave, Goto, TurnStep, Calm, Counts, Selects, HandsOver, Claims, Chosen, Waiting, WorkersOK
<1>2. CASE DeferTaskVerification(p)
  BY <1>2, WorkersTyped DEF DeferTaskVerification, Owns, Leave, Goto, TurnStep, Calm, Counts, Selects, HandsOver, Claims, Chosen, Waiting, WorkersOK
<1>3. CASE RejectTaskSubmission(p)
  BY <1>3, WorkersTyped DEF RejectTaskSubmission, Owns, Leave, Goto, TurnStep, Calm, Counts, Selects, HandsOver, Claims, Chosen, Waiting, WorkersOK
<1>4. CASE RejectPeriodic(p)
  BY <1>4, WorkersTyped DEF RejectPeriodic, FromRunningCounted, FromRunning, Again, CadenceRunEnded, Leave, Goto, TurnStep, Calm, Counts, Selects, HandsOver, Claims, Chosen, Waiting, WorkersOK
<1>5. CASE FinalizeCompleted(p)
  BY <1>5, WorkersTyped DEF FinalizeCompleted, FinalizeClaimed, FinalizeTask, TaskTerminalStatus, Owns, Leave, Goto, TurnStep, Calm, Counts, Selects, HandsOver, Claims, Chosen, Waiting, WorkersOK
<1>6. CASE AcceptPeriodic(p)
  BY <1>6, WorkersTyped DEF AcceptPeriodic, Leave, Goto, TurnStep, Calm, Counts, Selects, HandsOver, Claims, Chosen, Waiting, WorkersOK
<1>7. CASE SetPendingForNotificationRetry(p)
  BY <1>7, WorkersTyped DEF SetPendingForNotificationRetry, FromRunning, Leave, Goto, TurnStep, Calm, Counts, Selects, HandsOver, Claims, Chosen, Waiting, WorkersOK
<1>8. CASE Complete(p)
  BY <1>8, WorkersTyped DEF Complete, Leave, Goto, TurnStep, Calm, Counts, Selects, HandsOver, Claims, Chosen, Waiting, WorkersOK
<1>9. ASSUME NEW ok \in BOOLEAN, ResetForNextRun(p, ok) PROVE TurnStep
  BY <1>9, WorkersTyped DEF ResetForNextRun, Leave, Goto, TurnStep, Calm, Counts, Selects, HandsOver, Claims, Chosen, Waiting, WorkersOK
<1>10. ASSUME NEW ok \in BOOLEAN, Refetch(p, ok) PROVE TurnStep
  BY <1>10, WorkersTyped DEF Refetch, WithinBudget, Leave, Goto, TurnStep, Calm, Counts, Selects, HandsOver, Claims, Chosen, Waiting, WorkersOK
<1> QED BY <1>1, <1>2, <1>3, <1>4, <1>5, <1>6, <1>7, <1>8, <1>9, <1>10 DEF FinishStep
\* The dispatch loop and the messages of an interval.
LEMMA LoopStepWrites == ASSUME IInv, kind = "cadence", NEW p \in Proc, LoopStep(p) PROVE WriteStep
<1>1. ASSUME NEW ok \in BOOLEAN, ReapOrphansAtBoot(p, ok) PROVE WriteStep
  BY <1>1, WorkersTyped DEF ReapOrphansAtBoot, Leave, Goto, WriteStep, Quiet, Elapses, HandsOn, ClaimsRun, Writes, Chosen, Writers, Able, IntervalElapsed, WorkersOK
<1>2. CASE PendingTasks(p)
  BY <1>2, WorkersTyped DEF PendingTasks, WithinBudget, Leave, Goto, WriteStep, Quiet, Elapses, HandsOn, ClaimsRun, Writes, Chosen, Writers, Able, IntervalElapsed, WorkersOK
<1>3. CASE Dispatch(p)
  BY <1>3, WorkersTyped DEF Dispatch, Leave, Goto, WriteStep, Quiet, Elapses, HandsOn, ClaimsRun, Writes, Chosen, Writers, Able, IntervalElapsed, WorkersOK
<1>4. CASE SkipTask(p)
  BY <1>4, WorkersTyped DEF SkipTask, Leave, Goto, WriteStep, Quiet, Elapses, HandsOn, ClaimsRun, Writes, Chosen, Writers, Able, IntervalElapsed, WorkersOK
<1>5. CASE FailUndispatchable(p)
  BY <1>5, WorkersTyped DEF FailUndispatchable, Leave, Goto, WriteStep, Quiet, Elapses, HandsOn, ClaimsRun, Writes, Chosen, Writers, Able, IntervalElapsed, WorkersOK
<1> QED BY <1>1, <1>2, <1>3, <1>4, <1>5 DEF LoopStep

\* Claiming and loading and the messages of an interval.
LEMMA ClaimStepWrites == ASSUME IInv, kind = "cadence", NEW p \in Proc, ClaimStep(p) PROVE WriteStep
<1>1. CASE GiveUp(p)
  BY <1>1, WorkersTyped DEF GiveUp, Leave, Goto, WriteStep, Quiet, Elapses, HandsOn, ClaimsRun, Writes, Chosen, Writers, Able, IntervalElapsed, WorkersOK
<1>2. CASE ExpireByWorker(p)
  BY <1>2, WorkersTyped DEF ExpireByWorker, FinalizeTask, TaskTerminalStatus, Leave, Goto, WriteStep, Quiet, Elapses, HandsOn, ClaimsRun, Writes, Chosen, Writers, Able, IntervalElapsed, WorkersOK
<1>3. ASSUME NEW ok \in BOOLEAN, TrySetRunning(p, ok) PROVE WriteStep
  BY <1>3, WorkersTyped DEF TrySetRunning, Claimable, Leave, Goto, WriteStep, Quiet, Elapses, HandsOn, ClaimsRun, Writes, Chosen, Writers, Able, IntervalElapsed, WorkersOK
<1>4. ASSUME NEW ok \in BOOLEAN, ReadClaim(p, ok) PROVE WriteStep
  BY <1>4, WorkersTyped DEF ReadClaim, Owns, Leave, Goto, WriteStep, Quiet, Elapses, HandsOn, ClaimsRun, Writes, Chosen, Writers, Able, IntervalElapsed, WorkersOK
<1>5. CASE FailWithoutTools(p)
  BY <1>5, WorkersTyped DEF FailWithoutTools, Leave, Goto, WriteStep, Quiet, Elapses, HandsOn, ClaimsRun, Writes, Chosen, Writers, Able, IntervalElapsed, WorkersOK
<1>6. CASE RunHandler(p)
  BY <1>6, WorkersTyped DEF RunHandler, HasSubmission, Leave, Goto, WriteStep, Quiet, Elapses, HandsOn, ClaimsRun, Writes, Chosen, Writers, Able, IntervalElapsed, WorkersOK
<1>7. CASE ReuseSubmission(p)
  BY <1>7, WorkersTyped DEF ReuseSubmission, HasSubmission, Leave, Goto, WriteStep, Quiet, Elapses, HandsOn, ClaimsRun, Writes, Chosen, Writers, Able, IntervalElapsed, WorkersOK
<1>8. CASE ReviewNotDue(p)
  BY <1>8, WorkersTyped DEF ReviewNotDue, FromRunning, HasSubmission, Leave, Goto, WriteStep, Quiet, Elapses, HandsOn, ClaimsRun, Writes, Chosen, Writers, Able, IntervalElapsed, WorkersOK
<1>9. CASE LoadFailed(p)
  BY <1>9, WorkersTyped DEF LoadFailed, Leave, Goto, WriteStep, Quiet, Elapses, HandsOn, ClaimsRun, Writes, Chosen, Writers, Able, IntervalElapsed, WorkersOK
<1> QED BY <1>1, <1>2, <1>3, <1>4, <1>5, <1>6, <1>7, <1>8, <1>9 DEF ClaimStep

\* The handler and the messages of an interval.
LEMMA HandlerStepWrites == ASSUME IInv, kind = "cadence", NEW p \in Proc, HandlerStep(p) PROVE WriteStep
<1>1. CASE MessageSend(p)
  BY <1>1, WorkersTyped DEF MessageSend, Leave, Goto, WriteStep, Quiet, Elapses, HandsOn, ClaimsRun, Writes, Chosen, Writers, Able, IntervalElapsed, WorkersOK
<1>2. CASE HandlerFailed(p)
  BY <1>2, WorkersTyped DEF HandlerFailed, FromRunning, Leave, Goto, WriteStep, Quiet, Elapses, HandsOn, ClaimsRun, Writes, Chosen, Writers, Able, IntervalElapsed, WorkersOK
<1>3. CASE PauseTask(p)
  BY <1>3, WorkersTyped DEF PauseTask, FromRunningCounted, FromRunning, Leave, Goto, WriteStep, Quiet, Elapses, HandsOn, ClaimsRun, Writes, Chosen, Writers, Able, IntervalElapsed, WorkersOK
<1>4. CASE UpdateProgress(p)
  BY <1>4, WorkersTyped DEF UpdateProgress, FromRunningCounted, FromRunning, Again, CadenceRunEnded, Leave, Goto, WriteStep, Quiet, Elapses, HandsOn, ClaimsRun, Writes, Chosen, Writers, Able, IntervalElapsed, WorkersOK
<1>5. CASE FinalizeEmpty(p)
  BY <1>5, WorkersTyped DEF FinalizeEmpty, FinalizeClaimed, FinalizeTask, TaskTerminalStatus, Owns, Leave, Goto, WriteStep, Quiet, Elapses, HandsOn, ClaimsRun, Writes, Chosen, Writers, Able, IntervalElapsed, WorkersOK
<1>6. CASE SaveTaskSubmission(p)
  BY <1>6, WorkersTyped DEF SaveTaskSubmission, Owns, Leave, Goto, WriteStep, Quiet, Elapses, HandsOn, ClaimsRun, Writes, Chosen, Writers, Able, IntervalElapsed, WorkersOK
<1>7. CASE SubmitPeriodic(p)
  BY <1>7, WorkersTyped DEF SubmitPeriodic, Leave, Goto, WriteStep, Quiet, Elapses, HandsOn, ClaimsRun, Writes, Chosen, Writers, Able, IntervalElapsed, WorkersOK
<1>8. CASE WriteFailed(p)
  BY <1>8, WorkersTyped DEF WriteFailed, Again, CadenceRunEnded, Leave, Goto, WriteStep, Quiet, Elapses, HandsOn, ClaimsRun, Writes, Chosen, Writers, Able, IntervalElapsed, WorkersOK
<1> QED BY <1>1, <1>2, <1>3, <1>4, <1>5, <1>6, <1>7, <1>8 DEF HandlerStep

\* The end of a run and the messages of an interval.
LEMMA FinishStepWrites == ASSUME IInv, kind = "cadence", NEW p \in Proc, FinishStep(p) PROVE WriteStep
<1>1. CASE VerificationUnavailable(p)
  BY <1>1, WorkersTyped DEF VerificationUnavailable, FinalizeClaimed, FinalizeTask, TaskTerminalStatus, Owns, Leave, Goto, WriteStep, Quiet, Elapses, HandsOn, ClaimsRun, Writes, Chosen, Writers, Able, IntervalElapsed, WorkersOK
<1>2. CASE DeferTaskVerification(p)
  BY <1>2, WorkersTyped DEF DeferTaskVerification, Owns, Leave, Goto, WriteStep, Quiet, Elapses, HandsOn, ClaimsRun, Writes, Chosen, Writers, Able, IntervalElapsed, WorkersOK
<1>3. CASE RejectTaskSubmission(p)
  BY <1>3, WorkersTyped DEF RejectTaskSubmission, Owns, Leave, Goto, WriteStep, Quiet, Elapses, HandsOn, ClaimsRun, Writes, Chosen, Writers, Able, IntervalElapsed, WorkersOK
<1>4. CASE RejectPeriodic(p)
  BY <1>4, WorkersTyped DEF RejectPeriodic, FromRunningCounted, FromRunning, Again, CadenceRunEnded, Leave, Goto, WriteStep, Quiet, Elapses, HandsOn, ClaimsRun, Writes, Chosen, Writers, Able, IntervalElapsed, WorkersOK
<1>5. CASE FinalizeCompleted(p)
  BY <1>5, WorkersTyped DEF FinalizeCompleted, FinalizeClaimed, FinalizeTask, TaskTerminalStatus, Owns, Leave, Goto, WriteStep, Quiet, Elapses, HandsOn, ClaimsRun, Writes, Chosen, Writers, Able, IntervalElapsed, WorkersOK
<1>6. CASE AcceptPeriodic(p)
  BY <1>6, WorkersTyped DEF AcceptPeriodic, Leave, Goto, WriteStep, Quiet, Elapses, HandsOn, ClaimsRun, Writes, Chosen, Writers, Able, IntervalElapsed, WorkersOK
<1>7. CASE SetPendingForNotificationRetry(p)
  BY <1>7, WorkersTyped DEF SetPendingForNotificationRetry, FromRunning, Leave, Goto, WriteStep, Quiet, Elapses, HandsOn, ClaimsRun, Writes, Chosen, Writers, Able, IntervalElapsed, WorkersOK
<1>8. CASE Complete(p)
  BY <1>8, WorkersTyped DEF Complete, Leave, Goto, WriteStep, Quiet, Elapses, HandsOn, ClaimsRun, Writes, Chosen, Writers, Able, IntervalElapsed, WorkersOK
<1>9. ASSUME NEW ok \in BOOLEAN, ResetForNextRun(p, ok) PROVE WriteStep
  BY <1>9, WorkersTyped DEF ResetForNextRun, Leave, Goto, WriteStep, Quiet, Elapses, HandsOn, ClaimsRun, Writes, Chosen, Writers, Able, IntervalElapsed, WorkersOK
<1>10. ASSUME NEW ok \in BOOLEAN, Refetch(p, ok) PROVE WriteStep
  BY <1>10, WorkersTyped DEF Refetch, WithinBudget, Leave, Goto, WriteStep, Quiet, Elapses, HandsOn, ClaimsRun, Writes, Chosen, Writers, Able, IntervalElapsed, WorkersOK
<1> QED BY <1>1, <1>2, <1>3, <1>4, <1>5, <1>6, <1>7, <1>8, <1>9, <1>10 DEF FinishStep
\* The dispatch loop and the saved report.
LEMMA LoopStepSaved == ASSUME IInv, NEW p \in Proc, LoopStep(p) PROVE SavedStep
<1>1. ASSUME NEW ok \in BOOLEAN, ReapOrphansAtBoot(p, ok) PROVE SavedStep
  BY <1>1, WorkersTyped DEF ReapOrphansAtBoot, Leave, Goto, SavedStep, Owns, WorkersOK
<1>2. CASE PendingTasks(p)
  BY <1>2, WorkersTyped DEF PendingTasks, WithinBudget, Leave, Goto, SavedStep, Owns, WorkersOK
<1>3. CASE Dispatch(p)
  BY <1>3, WorkersTyped DEF Dispatch, Leave, Goto, SavedStep, Owns, WorkersOK
<1>4. CASE SkipTask(p)
  BY <1>4, WorkersTyped DEF SkipTask, Leave, Goto, SavedStep, Owns, WorkersOK
<1>5. CASE FailUndispatchable(p)
  BY <1>5, WorkersTyped DEF FailUndispatchable, Leave, Goto, SavedStep, Owns, WorkersOK
<1> QED BY <1>1, <1>2, <1>3, <1>4, <1>5 DEF LoopStep

\* Claiming and loading and the saved report.
LEMMA ClaimStepSaved == ASSUME IInv, NEW p \in Proc, ClaimStep(p) PROVE SavedStep
<1>1. CASE GiveUp(p)
  BY <1>1, WorkersTyped DEF GiveUp, Leave, Goto, SavedStep, Owns, WorkersOK
<1>2. CASE ExpireByWorker(p)
  BY <1>2, WorkersTyped DEF ExpireByWorker, FinalizeTask, TaskTerminalStatus, Leave, Goto, SavedStep, Owns, WorkersOK
<1>3. ASSUME NEW ok \in BOOLEAN, TrySetRunning(p, ok) PROVE SavedStep
  BY <1>3, WorkersTyped DEF TrySetRunning, Claimable, Leave, Goto, SavedStep, Owns, WorkersOK
<1>4. ASSUME NEW ok \in BOOLEAN, ReadClaim(p, ok) PROVE SavedStep
  BY <1>4, WorkersTyped DEF ReadClaim, Owns, Leave, Goto, SavedStep, Owns, WorkersOK
<1>5. CASE FailWithoutTools(p)
  BY <1>5, WorkersTyped DEF FailWithoutTools, Leave, Goto, SavedStep, Owns, WorkersOK
<1>6. CASE RunHandler(p)
  BY <1>6, WorkersTyped DEF RunHandler, HasSubmission, Leave, Goto, SavedStep, Owns, WorkersOK
<1>7. CASE ReuseSubmission(p)
  BY <1>7, WorkersTyped DEF ReuseSubmission, HasSubmission, Leave, Goto, SavedStep, Owns, WorkersOK
<1>8. CASE ReviewNotDue(p)
  BY <1>8, WorkersTyped DEF ReviewNotDue, FromRunning, HasSubmission, Leave, Goto, SavedStep, Owns, WorkersOK
<1>9. CASE LoadFailed(p)
  BY <1>9, WorkersTyped DEF LoadFailed, Leave, Goto, SavedStep, Owns, WorkersOK
<1> QED BY <1>1, <1>2, <1>3, <1>4, <1>5, <1>6, <1>7, <1>8, <1>9 DEF ClaimStep

\* The handler and the saved report.
LEMMA HandlerStepSaved == ASSUME IInv, NEW p \in Proc, HandlerStep(p) PROVE SavedStep
<1>1. CASE MessageSend(p)
  BY <1>1, WorkersTyped DEF MessageSend, Leave, Goto, SavedStep, Owns, WorkersOK
<1>2. CASE HandlerFailed(p)
  BY <1>2, WorkersTyped DEF HandlerFailed, FromRunning, Leave, Goto, SavedStep, Owns, WorkersOK
<1>3. CASE PauseTask(p)
  BY <1>3, WorkersTyped DEF PauseTask, FromRunningCounted, FromRunning, Leave, Goto, SavedStep, Owns, WorkersOK
<1>4. CASE UpdateProgress(p)
  BY <1>4, WorkersTyped DEF UpdateProgress, FromRunningCounted, FromRunning, Again, CadenceRunEnded, Leave, Goto, SavedStep, Owns, WorkersOK
<1>5. CASE FinalizeEmpty(p)
  BY <1>5, WorkersTyped DEF FinalizeEmpty, FinalizeClaimed, FinalizeTask, TaskTerminalStatus, Owns, Leave, Goto, SavedStep, Owns, WorkersOK
<1>6. CASE SaveTaskSubmission(p)
  BY <1>6, WorkersTyped DEF SaveTaskSubmission, Owns, Leave, Goto, SavedStep, Owns, WorkersOK
<1>7. CASE SubmitPeriodic(p)
  BY <1>7, WorkersTyped DEF SubmitPeriodic, Leave, Goto, SavedStep, Owns, WorkersOK
<1>8. CASE WriteFailed(p)
  BY <1>8, WorkersTyped DEF WriteFailed, Again, CadenceRunEnded, Leave, Goto, SavedStep, Owns, WorkersOK
<1> QED BY <1>1, <1>2, <1>3, <1>4, <1>5, <1>6, <1>7, <1>8 DEF HandlerStep

\* The end of a run and the saved report.
LEMMA FinishStepSaved == ASSUME IInv, NEW p \in Proc, FinishStep(p) PROVE SavedStep
<1>1. CASE VerificationUnavailable(p)
  BY <1>1, WorkersTyped DEF VerificationUnavailable, FinalizeClaimed, FinalizeTask, TaskTerminalStatus, Owns, Leave, Goto, SavedStep, Owns, WorkersOK
<1>2. CASE DeferTaskVerification(p)
  BY <1>2, WorkersTyped DEF DeferTaskVerification, Owns, Leave, Goto, SavedStep, Owns, WorkersOK
<1>3. CASE RejectTaskSubmission(p)
  BY <1>3, WorkersTyped DEF RejectTaskSubmission, Owns, Leave, Goto, SavedStep, Owns, WorkersOK
<1>4. CASE RejectPeriodic(p)
  BY <1>4, WorkersTyped DEF RejectPeriodic, FromRunningCounted, FromRunning, Again, CadenceRunEnded, Leave, Goto, SavedStep, Owns, WorkersOK
<1>5. CASE FinalizeCompleted(p)
  BY <1>5, WorkersTyped DEF FinalizeCompleted, FinalizeClaimed, FinalizeTask, TaskTerminalStatus, Owns, Leave, Goto, SavedStep, Owns, WorkersOK
<1>6. CASE AcceptPeriodic(p)
  BY <1>6, WorkersTyped DEF AcceptPeriodic, Leave, Goto, SavedStep, Owns, WorkersOK
<1>7. CASE SetPendingForNotificationRetry(p)
  BY <1>7, WorkersTyped DEF SetPendingForNotificationRetry, FromRunning, Leave, Goto, SavedStep, Owns, WorkersOK
<1>8. CASE Complete(p)
  BY <1>8, WorkersTyped DEF Complete, Leave, Goto, SavedStep, Owns, WorkersOK
<1>9. ASSUME NEW ok \in BOOLEAN, ResetForNextRun(p, ok) PROVE SavedStep
  BY <1>9, WorkersTyped DEF ResetForNextRun, Leave, Goto, SavedStep, Owns, WorkersOK
<1>10. ASSUME NEW ok \in BOOLEAN, Refetch(p, ok) PROVE SavedStep
  BY <1>10, WorkersTyped DEF Refetch, WithinBudget, Leave, Goto, SavedStep, Owns, WorkersOK
<1> QED BY <1>1, <1>2, <1>3, <1>4, <1>5, <1>6, <1>7, <1>8, <1>9, <1>10 DEF FinishStep
\* The steps of everybody else: no run is selected, nothing is written.
LEMMA OtherSteps ==
  ASSUME IInv, Maintenance \/ Person \/ Time \/ UNCHANGED vars \/ \E p \in Proc : Crash(p)
  PROVE  Calm /\ Quiet /\ SavedStep /\ kind' = kind
<1> DEFINE Rest == /\ Chosen' \subseteq Chosen /\ Waiting' \subseteq Waiting
                   /\ Writers' \subseteq Writers /\ Able' \subseteq Able
                   /\ \A p \in Proc : pc'[p] = "run" => pc[p] = "run"
<1>1. WorkersOK BY WorkersTyped
<1>2. Rest
  <2>1. ASSUME NEW p \in Proc, Crash(p) PROVE Rest
    BY <1>1, <2>1 DEF Crash, Leave, Chosen, Waiting, Writers, Able, WorkersOK
  <2>2. CASE UNCHANGED <<pc, sent, snap>> BY <2>2 DEF Chosen, Waiting, Writers, Able
  <2>3. (Maintenance \/ Person \/ Time \/ UNCHANGED vars) => UNCHANGED <<pc, sent, snap>>
    BY DEF Maintenance, Person, Time, MaintainTaskDeadlines, CompleteExhausted, ResetStale, WakeStalePaused,
       Cancel, Resume, WakePaused, GrowOld, IntervalElapses, DeadlinePasses, ReviewTimeComes, vars
  <2> QED BY <2>1, <2>2, <2>3
<1>3. /\ iteration' = iteration /\ kind' = kind /\ wrote' = wrote /\ saved' = saved /\ reviews' = reviews
      /\ status' = "running" => status = "running"
      /\ IntervalElapsed => IntervalElapsed'
  <2>1. CASE Maintenance
    BY <2>1 DEF Maintenance, MaintainTaskDeadlines, CompleteExhausted, ResetStale, WakeStalePaused,
       FinalizeTask, TaskTerminalStatus, IntervalElapsed
  <2>2. CASE Person
    BY <2>2 DEF Person, Cancel, Resume, WakePaused, FinalizeTask, TaskTerminalStatus, IntervalElapsed
  <2>3. CASE Time BY <2>3 DEF Time, GrowOld, IntervalElapses, DeadlinePasses, ReviewTimeComes, IntervalElapsed
  <2>4. CASE UNCHANGED vars BY <2>4 DEF vars, IntervalElapsed
  <2>5. ASSUME NEW p \in Proc, Crash(p) PROVE <1>3!1 /\ <1>3!2 /\ <1>3!3
    BY <2>5 DEF Crash, Leave, IntervalElapsed
  <2> QED BY <2>1, <2>2, <2>3, <2>4, <2>5
<1> QED BY <1>2, <1>3 DEF Calm, Quiet, SavedStep

\* Every step, seen three ways.
LEMMA StepShapes ==
  ASSUME IInv, [Next]_vars
  PROVE  TurnStep /\ (kind = "cadence" => WriteStep) /\ SavedStep /\ kind' = kind
<1>1. ASSUME NEW p \in Proc, LoopStep(p) \/ ClaimStep(p) \/ HandlerStep(p) \/ FinishStep(p)
      PROVE  TurnStep /\ (kind = "cadence" => WriteStep) /\ SavedStep
  BY <1>1, LoopStepTurns, ClaimStepTurns, HandlerStepTurns, FinishStepTurns,
     LoopStepWrites, ClaimStepWrites, HandlerStepWrites, FinishStepWrites,
     LoopStepSaved, ClaimStepSaved, HandlerStepSaved, FinishStepSaved
<1>2. CASE Maintenance \/ Person \/ Time \/ UNCHANGED vars \/ \E p \in Proc : Crash(p)
  BY <1>2, OtherSteps DEF TurnStep, WriteStep
<1>3. kind' = kind
  <2>1. ASSUME NEW p \in Proc, LoopStep(p) PROVE kind' = kind
    BY <2>1 DEF LoopStep, ReapOrphansAtBoot, PendingTasks, Dispatch, SkipTask, FailUndispatchable
  <2>2. ASSUME NEW p \in Proc, ClaimStep(p) PROVE kind' = kind
    BY <2>2 DEF ClaimStep, GiveUp, ExpireByWorker, TrySetRunning, ReadClaim, FailWithoutTools, RunHandler,
       ReuseSubmission, ReviewNotDue, LoadFailed
  <2>3. ASSUME NEW p \in Proc, HandlerStep(p) PROVE kind' = kind
    BY <2>3 DEF HandlerStep, MessageSend, HandlerFailed, PauseTask, UpdateProgress, FinalizeEmpty,
       SaveTaskSubmission, SubmitPeriodic, WriteFailed
  <2>4. ASSUME NEW p \in Proc, FinishStep(p) PROVE kind' = kind
    BY <2>4 DEF FinishStep, VerificationUnavailable, DeferTaskVerification, RejectTaskSubmission, RejectPeriodic,
       FinalizeCompleted, AcceptPeriodic, SetPendingForNotificationRetry, Complete, ResetForNextRun, Refetch
  <2> QED BY <1>2, OtherSteps, <2>1, <2>2, <2>3, <2>4 DEF Next
<1> QED BY <1>1, <1>2, <1>3 DEF Next

\* Subsets of the daemons are finite, and no larger than their number.
LEMMA Counted ==
  ASSUME NEW S \in SUBSET Proc
  PROVE  IsFiniteSet(S) /\ Cardinality(S) \in Nat /\ Cardinality(Proc) \in Nat /\ Cardinality(S) <= Cardinality(Proc)
BY ProcAssumption, FS_Subset, FS_CardinalityType

LEMMA Fewer ==
  ASSUME NEW S \in SUBSET Proc, NEW T \in SUBSET S PROVE Cardinality(T) <= Cardinality(S)
BY Counted, FS_Subset

\* The sums that the steps keep: c runs chosen, w waiting, r in the row, after i
\* iterations of m; t messages, w workers that may write, a with a run ahead.
RunsFit(n, m, c, w, r, i) == c + w + r <= 2 * n /\ i + (c + w + r) + 1 <= m + 2 * n
RunsMove(n, m, c, w, r, i, c1, w1, r1, i1) ==
    /\ {n, m, c, w, r, i, c1, w1, r1, i1} \subseteq Nat /\ c1 <= n /\ w1 <= n
    /\ \/ c1 <= c /\ w1 <= w /\ r1 <= r /\ (i1 = i \/ i1 = 0)
       \/ c1 <= c /\ w1 <= w /\ r = 1 /\ r1 = 0 /\ i1 = i + 1
       \/ r1 = 0 /\ i1 = i /\ i < m
       \/ c1 = c - 1 /\ w1 <= w + 1 /\ r1 = r /\ i1 = i
       \/ c1 = c /\ w1 = w - 1 /\ r = 0 /\ r1 = 1 /\ i1 = i

LEMMA RunSum ==
  ASSUME NEW n, NEW m, NEW c, NEW w, NEW r, NEW i, NEW c1, NEW w1, NEW r1, NEW i1,
         RunsFit(n, m, c, w, r, i), RunsMove(n, m, c, w, r, i, c1, w1, r1, i1)
  PROVE  RunsFit(n, m, c1, w1, r1, i1)
BY DEF RunsFit, RunsMove

WritesFit(n, c, w, a, t, e) == t + w <= 2 * n /\ (~e => t + c + a <= 2 * n)
WritesMove(n, c, w, a, t, e, c1, w1, a1, t1, e1) ==
    /\ {n, c, w, a, t, c1, w1, a1, t1} \subseteq Nat /\ {e, e1} \subseteq BOOLEAN
    /\ c1 <= n /\ a1 <= n /\ w1 <= a1
    /\ \/ c1 <= c /\ w1 <= w /\ a1 <= a /\ t1 = t /\ (e => e1)
       \/ w1 <= w /\ t1 = t /\ e1
       \/ t1 = 0
       \/ ~e /\ ~e1 /\ t1 = t /\ c1 <= c /\ a1 <= a
       \/ c1 = c - 1 /\ a1 <= a + 1 /\ w1 <= w /\ t1 = t /\ (e => e1)
       \/ c1 = c /\ a1 = a - 1 /\ w1 = w - 1 /\ t1 = t + 1 /\ (e => e1)

LEMMA WriteSum ==
  ASSUME NEW n, NEW c, NEW w, NEW a, NEW t, NEW e, NEW c1, NEW w1, NEW a1, NEW t1, NEW e1,
         WritesFit(n, c, w, a, t, e), WritesMove(n, c, w, a, t, e, c1, w1, a1, t1, e1)
  PROVE  WritesFit(n, c1, w1, a1, t1, e1)
BY DEF WritesFit, WritesMove

LEMMA TurnsKept == ASSUME TypeOK, TypeOK', TurnsBounded, TurnStep PROVE TurnsBounded'
<1> DEFINE n == Cardinality(Proc)
           c == Cardinality(Chosen)
           w == Cardinality(Waiting)
           r == IF status = "running" THEN 1 ELSE 0
           cq == Cardinality(Chosen')
           wq == Cardinality(Waiting')
           rq == IF status' = "running" THEN 1 ELSE 0
<1>1. Chosen \in SUBSET Proc /\ Waiting \in SUBSET Proc BY DEF Chosen, Waiting
<1>2. Chosen' \in SUBSET Proc /\ Waiting' \in SUBSET Proc BY DEF Chosen, Waiting
<1>3. c \in Nat /\ w \in Nat /\ n \in Nat /\ cq \in Nat /\ wq \in Nat /\ cq <= n /\ wq <= n
  BY <1>1, <1>2, Counted
<1>4. iteration \in Nat /\ iteration' \in Nat /\ MaxIterations \in Nat BY MaxIterationsAssumption DEF TypeOK
<1>5. Turns = c + w + r /\ Turns' = cq + wq + rq BY DEF Turns
<1>6. c + w + r <= 2 * n /\ iteration + (c + w + r) + 1 <= MaxIterations + 2 * n BY <1>5 DEF TurnsBounded
<1>7. Calm \/ Counts => cq <= c /\ wq <= w BY <1>1, Fewer DEF Calm, Counts
<1>8. Calm => rq <= r /\ (iteration' = iteration \/ iteration' = 0) BY DEF Calm
<1>9. Counts => r = 1 /\ rq = 0 /\ iteration' = iteration + 1 BY DEF Counts
<1>10. Selects => rq = 0 /\ iteration' = iteration /\ iteration < MaxIterations BY DEF Selects
<1>11. ASSUME NEW p \in Proc, HandsOver(p) PROVE cq = c - 1 /\ wq <= w + 1 /\ rq = r /\ iteration' = iteration
  <2>1. p \in Chosen /\ Chosen' = Chosen \ {p} /\ Waiting' = Waiting \cup {p} /\ iteration' = iteration /\ rq = r
    BY <1>11 DEF HandsOver
  <2>2. IsFiniteSet(Chosen) /\ IsFiniteSet(Waiting) BY <1>1, Counted
  <2>3. cq = c - 1 BY <2>1, <2>2, FS_RemoveElement
  <2>4. wq = w \/ wq = w + 1 BY <2>1, <2>2, FS_AddElement
  <2> QED BY <1>3, <2>1, <2>3, <2>4
<1>12. ASSUME NEW p \in Proc, Claims(p) PROVE cq = c /\ wq = w - 1 /\ r = 0 /\ rq = 1 /\ iteration' = iteration
  <2>1. p \in Waiting /\ Chosen' = Chosen /\ Waiting' = Waiting \ {p} /\ iteration' = iteration /\ r = 0 /\ rq = 1
    BY <1>12 DEF Claims
  <2>2. IsFiniteSet(Waiting) BY <1>1, Counted
  <2> QED BY <2>1, <2>2, FS_RemoveElement
<1>13. r \in {0, 1} /\ rq \in {0, 1} OBVIOUS
<1>14. \/ cq <= c /\ wq <= w /\ rq <= r /\ (iteration' = iteration \/ iteration' = 0)
       \/ cq <= c /\ wq <= w /\ r = 1 /\ rq = 0 /\ iteration' = iteration + 1
       \/ rq = 0 /\ iteration' = iteration /\ iteration < MaxIterations
       \/ cq = c - 1 /\ wq <= w + 1 /\ rq = r /\ iteration' = iteration
       \/ cq = c /\ wq = w - 1 /\ r = 0 /\ rq = 1 /\ iteration' = iteration
  BY <1>7, <1>8, <1>9, <1>10, <1>11, <1>12 DEF TurnStep
<1> HIDE DEF n, c, w, r, cq, wq, rq
<1>15. RunsFit(n, MaxIterations, c, w, r, iteration) BY <1>6 DEF RunsFit
<1>16. RunsMove(n, MaxIterations, c, w, r, iteration, cq, wq, rq, iteration')
  BY <1>3, <1>4, <1>13, <1>14 DEF RunsMove
<1>17. RunsFit(n, MaxIterations, cq, wq, rq, iteration') BY <1>15, <1>16, RunSum
<1> QED BY <1>5, <1>17 DEF RunsFit, TurnsBounded, n

LEMMA WritesKept ==
  ASSUME TypeOK, TypeOK', WritesBounded, kind' = kind, kind = "cadence" => WriteStep PROVE WritesBounded'
<1> SUFFICES ASSUME kind = "cadence" PROVE WritesBounded' BY DEF WritesBounded
<1> DEFINE n == Cardinality(Proc)
           c == Cardinality(Chosen)
           w == Cardinality(Writers)
           a == Cardinality(Able)
           cq == Cardinality(Chosen')
           wq == Cardinality(Writers')
           aq == Cardinality(Able')
<1>1. Chosen \in SUBSET Proc /\ Writers \in SUBSET Able /\ Able \in SUBSET Proc BY DEF Chosen, Writers, Able
<1>2. Chosen' \in SUBSET Proc /\ Writers' \in SUBSET Able' /\ Able' \in SUBSET Proc BY DEF Chosen, Writers, Able
<1>3. /\ c \in Nat /\ w \in Nat /\ a \in Nat /\ n \in Nat
      /\ cq \in Nat /\ wq \in Nat /\ aq \in Nat /\ cq <= n /\ aq <= n /\ wq <= aq
  <2>1. Writers \in SUBSET Proc /\ Writers' \in SUBSET Proc BY <1>1, <1>2
  <2> QED BY <1>1, <1>2, <2>1, Counted, Fewer
<1>4. wrote \in Nat /\ wrote' \in Nat BY DEF TypeOK
<1>5. wrote + w <= 2 * n /\ (~IntervalElapsed => wrote + c + a <= 2 * n) BY DEF WritesBounded
<1>6. Quiet => cq <= c /\ wq <= w /\ aq <= a /\ wrote' = wrote /\ (IntervalElapsed => IntervalElapsed')
  <2>1. Writers \in SUBSET Proc BY <1>1
  <2> QED BY <1>1, <2>1, Fewer DEF Quiet
<1>7. Elapses => wq <= w /\ wrote' = wrote /\ IntervalElapsed'
  <2>1. Writers \in SUBSET Proc BY <1>1
  <2> QED BY <2>1, Fewer DEF Elapses
<1>8. ClaimsRun => wrote' = 0 \/ (~IntervalElapsed /\ ~IntervalElapsed' /\ wrote' = wrote /\ cq <= c /\ aq <= a)
  BY <1>1, Fewer DEF ClaimsRun
<1>9. ASSUME NEW p \in Proc, HandsOn(p)
      PROVE  cq = c - 1 /\ aq <= a + 1 /\ wq <= w /\ wrote' = wrote /\ (IntervalElapsed => IntervalElapsed')
  <2>1. p \in Chosen /\ Chosen' = Chosen \ {p} /\ Able' = Able \cup {p} /\ Writers' \in SUBSET Writers /\ wrote' = wrote
    BY <1>9 DEF HandsOn
  <2>2. IsFiniteSet(Chosen) /\ IsFiniteSet(Able) /\ Writers \in SUBSET Proc BY <1>1, Counted
  <2>3. cq = c - 1 BY <2>1, <2>2, FS_RemoveElement
  <2>4. aq = a \/ aq = a + 1 BY <2>1, <2>2, FS_AddElement
  <2>5. wq <= w BY <2>1, <2>2, Fewer
  <2>6. IntervalElapsed => IntervalElapsed' BY <1>9 DEF HandsOn
  <2> QED BY <1>3, <2>1, <2>3, <2>4, <2>5, <2>6
<1>10. ASSUME NEW p \in Proc, Writes(p)
       PROVE  cq = c /\ aq = a - 1 /\ wq = w - 1 /\ wrote' = wrote + 1 /\ (IntervalElapsed => IntervalElapsed')
  <2>1. p \in Writers /\ p \in Able /\ Writers' = Writers \ {p} /\ Able' = Able \ {p} /\ Chosen' = Chosen /\ wrote' = wrote + 1
    BY <1>1, <1>10 DEF Writes
  <2>2. Writers \in SUBSET Proc BY <1>1
  <2>3. IsFiniteSet(Writers) /\ IsFiniteSet(Able) BY <1>1, <2>2, Counted
  <2>4. IntervalElapsed => IntervalElapsed' BY <1>10 DEF Writes
  <2> QED BY <2>1, <2>3, <2>4, FS_RemoveElement
<1>11. \/ cq <= c /\ wq <= w /\ aq <= a /\ wrote' = wrote /\ (IntervalElapsed => IntervalElapsed')
       \/ wq <= w /\ wrote' = wrote /\ IntervalElapsed'
       \/ wrote' = 0
       \/ ~IntervalElapsed /\ ~IntervalElapsed' /\ wrote' = wrote /\ cq <= c /\ aq <= a
       \/ cq = c - 1 /\ aq <= a + 1 /\ wq <= w /\ wrote' = wrote /\ (IntervalElapsed => IntervalElapsed')
       \/ cq = c /\ aq = a - 1 /\ wq = w - 1 /\ wrote' = wrote + 1 /\ (IntervalElapsed => IntervalElapsed')
  BY <1>6, <1>7, <1>8, <1>9, <1>10 DEF WriteStep
<1>13. IntervalElapsed \in BOOLEAN /\ IntervalElapsed' \in BOOLEAN BY DEF IntervalElapsed
<1> HIDE DEF n, c, w, a, cq, wq, aq
<1>14. WritesFit(n, c, w, a, wrote, IntervalElapsed) BY <1>5 DEF WritesFit
<1>15. WritesMove(n, c, w, a, wrote, IntervalElapsed, cq, wq, aq, wrote', IntervalElapsed')
  BY <1>3, <1>4, <1>11, <1>13 DEF WritesMove
<1>16. WritesFit(n, cq, wq, aq, wrote', IntervalElapsed') BY <1>14, <1>15, WriteSum
<1> QED BY <1>16 DEF WritesFit, WritesBounded, n, cq, wq, aq

LEMMA FreshKept == ASSUME TypeOK, RunsFresh, SavedStep, kind' = kind PROVE RunsFresh'
<1> SUFFICES ASSUME Cardinality(Proc) = 1, NEW p \in Proc, kind = "oneshot", saved', pc'[p] = "run" PROVE FALSE
  BY DEF RunsFresh
<1>1. \A q \in Proc : q = p BY ProcAssumption, FS_Singleton
<1>2. pc[p] = "run" BY DEF SavedStep
<1>3. saved BY <1>1 DEF SavedStep
<1> QED BY <1>2, <1>3 DEF RunsFresh

LEMMA BudgetInit == Init => BudgetIInv
<1> SUFFICES ASSUME Init PROVE BudgetIInv OBVIOUS
<1>1. Chosen = {} /\ Waiting = {} /\ Writers = {} BY DEF Init, Chosen, Waiting, Writers
<1>2. Cardinality({}) = 0 /\ Cardinality(Proc) \in Nat BY FS_EmptySet, FS_CardinalityType, ProcAssumption
<1>3. iteration = 0 /\ wrote = 0 /\ status = "pending" /\ saved = FALSE /\ IntervalElapsed BY DEF Init, IntervalElapsed
<1>4. Turns = 0 BY <1>1, <1>2, <1>3 DEF Turns
<1>5. TurnsBounded BY <1>2, <1>3, <1>4, MaxIterationsAssumption DEF TurnsBounded
<1>6. WritesBounded BY <1>1, <1>2, <1>3 DEF WritesBounded
<1> QED BY <1>3, <1>5, <1>6 DEF BudgetIInv, RunsFresh

LEMMA BudgetNext == IInv /\ BudgetIInv /\ [Next]_vars => BudgetIInv'
<1> SUFFICES ASSUME IInv, BudgetIInv, [Next]_vars PROVE BudgetIInv' OBVIOUS
<1>1. TypeOK /\ TypeOK' BY NextIInv DEF IInv
<1> QED BY <1>1, StepShapes, TurnsKept, WritesKept, FreshKept DEF BudgetIInv

\* What a task may spend, for every number of daemons: the iteration cap is passed
\* only by runs selected before it was reached, two for each daemon but one (a
\* worker's and a dispatch loop's), a cadence task writes no more often than runs
\* were selected when its interval elapsed, and one daemon never repeats research
\* whose report is saved (scheduler.go: dispatch, runTask, executeTaskOnce).
THEOREM BudgetsAreHeld == Spec => []BudgetsHold
<1>1. IInv /\ BudgetIInv => BudgetsHold
  <2> SUFFICES ASSUME IInv, BudgetIInv PROVE BudgetsHold OBVIOUS
  <2>1. /\ Cardinality(Chosen) \in Nat /\ Cardinality(Waiting) \in Nat /\ Cardinality(Writers) \in Nat
        /\ Cardinality(Proc) \in Nat
    <3>1. Chosen \in SUBSET Proc /\ Waiting \in SUBSET Proc /\ Writers \in SUBSET Proc
      BY DEF Chosen, Waiting, Writers
    <3> QED BY <3>1, Counted
  <2>2. iteration \in Nat /\ wrote \in Nat /\ MaxIterations \in Nat BY MaxIterationsAssumption DEF IInv, TypeOK
  <2>3. Turns \in Nat BY <2>1 DEF Turns
  <2>4. IterationsBounded BY <2>1, <2>2, <2>3 DEF BudgetIInv, TurnsBounded, IterationsBounded
  <2>5. CadenceSpaced BY <2>1, <2>2 DEF BudgetIInv, WritesBounded, CadenceSpaced
  <2>6. NoRepeatedResearch BY DEF BudgetIInv, RunsFresh, NoRepeatedResearch
  <2> QED BY <2>4, <2>5, <2>6 DEF BudgetsHold
<1>2. Spec => [](IInv /\ BudgetIInv)
  BY InitIInv, NextIInv, BudgetInit, BudgetNext, PTL DEF Spec
<1> QED BY <1>1, <1>2, PTL

\* A saved report is stored, put off or removed only by a worker that still owns the
\* row, whatever daemons, ticks and commands overlap with it (SaveTaskSubmission,
\* DeferTaskVerification, RejectTaskSubmission).
THEOREM SubmissionIsFenced == Spec => SubmissionFenced
<1>1. IInv /\ [Next]_vars =>
        [(<<saved, reviews>>' # <<saved, reviews>>) =>
            \E p \in fence : pc[p] \in {"run", "judge"} /\ pc'[p] # pc[p]]_vars
  BY StepShapes DEF SavedStep
<1> QED BY <1>1, Invariance, PTL DEF Spec, SubmissionFenced
=============================================================================
