---------------------------- MODULE SessionHistory ----------------------------
(***************************************************************************)
(* One session of runtime/session: the rows that runs append, the windows  *)
(* read back for a prompt, the soft summaries written beside a chat        *)
(* session and the destructive compaction of a task session.  A row is its *)
(* role, whether it has visible text, its tool traffic ("use" or "result") *)
(* and its token estimate; rows are kept in created_at order, and their    *)
(* sequence numbers stand for ids and for created_at.                      *)
(***************************************************************************)
EXTENDS Integers, Sequences, SequencesExt, Tally

CONSTANTS
  MaxRows,             \* bound: rows appended to the session
  RowLimit,            \* LIMIT of the dialogue query (500)
  dialogWindowBlock,   \* 30
  FullRecent,          \* translationFullRecentMessages (8)
  DialogBudgets,       \* token budgets a prompt may ask a window for
  CompactThreshold, CompactKeep,      \* Compactor.threshold, keepTokens
  SummaryThreshold, SummaryMinNew     \* SoftSummaryStatus

ASSUME SessionConstants ==
  /\ RowLimit \in Nat \ {0} /\ dialogWindowBlock \in Nat \ {0}
  /\ DialogBudgets \subseteq Nat

VARIABLES
  shSource,     \* "chat" or "agent_task"
  shTranslation,\* isTranslationWorkflow of the session
  shRows,       \* the stored rows, oldest first
  shCount,      \* rows ever appended: the next sequence number
  shCounters,   \* chat_sessions: [tokens, messages]
  shSummaries,  \* chat_session_summaries, oldest first: [upto, covers]
  shJob         \* the soft-summary goroutine: [phase, latest, msgs]

sessionVars == <<shSource, shTranslation, shRows, shCount, shCounters, shSummaries, shJob>>

RowKinds == {"user", "big", "answer", "call", "spoken_call", "result"}
Row(kind, seq) ==
  [seq |-> seq,
   role |-> IF kind \in {"user", "big", "result"} THEN "user" ELSE "assistant",
   text |-> kind \notin {"call", "result"},
   tool |-> IF kind \in {"call", "spoken_call"} THEN "use" ELSE IF kind = "result" THEN "result" ELSE "none",
   cost |-> IF kind = "big" THEN 3 ELSE 1]

NoJob == [phase |-> "idle", latest |-> 0, msgs |-> <<>>]
NewestRow == shRows[Len(shRows)]
CostOf(rows) == SumOf([i \in 1..Len(rows) |-> rows[i].cost])
\* The rows behind a boundary.
RowsSince(rows, boundary) == KeepAt(rows, {i \in 1..Len(rows) : rows[i].seq > boundary})

SessionInit ==
  /\ shSource \in {"chat", "agent_task"}
  /\ shTranslation \in BOOLEAN
  /\ shRows = <<>> /\ shCount = 0
  /\ shCounters = [tokens |-> 0, messages |-> 0]
  /\ shSummaries = <<>>
  /\ shJob = NoJob
-----------------------------------------------------------------------------
\* appendInternal: one transaction inserts the row and moves the counters.  A
\* run stores a result only behind the call it answers.
AppendRow(kind) ==
  LET row == Row(kind, shCount + 1) IN
  /\ shCount < MaxRows
  /\ kind = "result" => shRows # <<>> /\ NewestRow.tool = "use"
  /\ shRows' = Append(shRows, row)
  /\ shCount' = shCount + 1
  /\ shCounters' = [tokens |-> shCounters.tokens + row.cost, messages |-> shCounters.messages + 1]
  /\ UNCHANGED <<shSource, shTranslation, shSummaries, shJob>>
-----------------------------------------------------------------------------
\* The newest RowLimit rows, newest first.
NewestRows(rows) ==
  LET tail == SubSeq(rows, IF Len(rows) > RowLimit THEN Len(rows) - RowLimit + 1 ELSE 1, Len(rows))
  IN Reverse(tail)

\* visibleDialogCandidate strips tool traffic; a row with nothing left is gone.
visibleDialogCandidate(row) == [row EXCEPT !.tool = "none"]

\* applyTranslationHistoryLayout: older turns of a translation are stubs.
applyTranslationHistoryLayout(cands) ==
  [i \in 1..Len(cands) |-> IF shTranslation /\ i > FullRecent THEN [cands[i] EXCEPT !.cost = 1] ELSE cands[i]]

visibleDialogCandidates(rows) ==
  LET visible == KeepAt(rows, {i \in 1..Len(rows) : rows[i].text})
  IN applyTranslationHistoryLayout([i \in 1..Len(visible) |-> visibleDialogCandidate(visible[i])])

\* selectDialogCandidatesWithinBudget: the newest that fit, and one at least.
FitsBudget(cands, n, max) == CostOf(SubSeq(cands, 1, n)) <= max
selectDialogCandidatesWithinBudget(cands, max) ==
  LET fit == {n \in 0..Len(cands) : FitsBudget(cands, n, max)}
      n == CHOOSE m \in fit : \A k \in fit : k <= m
  IN SubSeq(cands, 1, IF n = 0 /\ cands # <<>> THEN 1 ELSE n)

\* trimLeadingToUser, on a window in chronological order.
trimLeadingToUser(rows) ==
  LET users == {i \in 1..Len(rows) : rows[i].role = "user"}
  IN IF users = {} THEN <<>>
     ELSE SubSeq(rows, CHOOSE i \in users : \A j \in users : i <= j, Len(rows))

Window(cands, how, max) ==
  [rows |-> trimLeadingToUser(Reverse(cands)), budget |-> max, how |-> how]

\* dialogMessagesOnBlockAnchor: what is dropped is a multiple of the block; a
\* window over the budget gives up whole blocks, then falls back to what fits.
BlockKeep(n) ==
  IF n > dialogWindowBlock
    THEN n - ((n - dialogWindowBlock) \div dialogWindowBlock) * dialogWindowBlock ELSE n

dialogMessagesOnBlockAnchor(rows, max) ==
  LET cands == visibleDialogCandidates(rows)
      top == BlockKeep(Len(cands))
      keeps == {k \in 1..top : (top - k) % dialogWindowBlock = 0 /\ FitsBudget(cands, k, max)}
  IN IF cands = <<>> THEN Window(<<>>, "block", max)
     ELSE IF keeps # {}
       THEN Window(SubSeq(cands, 1, CHOOSE k \in keeps : \A j \in keeps : j <= k), "block", max)
       ELSE Window(selectDialogCandidatesWithinBudget(cands, max), "fallback", max)

\* softSummaryBoundary: the row the newest summary names, if it still exists.
softSummaryBoundary ==
  IF shSummaries = <<>> THEN 0 ELSE shSummaries[Len(shSummaries)].upto

\* dialogMessagesIfComplete: all that follows the boundary, or nothing of it.
dialogMessagesIfComplete(rows, max) ==
  LET cands == visibleDialogCandidates(rows)
  IN IF cands # <<>> /\ FitsBudget(cands, Len(cands), max)
       THEN <<Window(cands, "summary", max)>> ELSE <<>>

\* DialogMessagesForAPI, read when the newest row is the user's turn: anchored
\* at the summary whenever a summary rides the prompt (gateway_cortex.go).
DialogMessagesForAPI(max) ==
  LET boundary == softSummaryBoundary
      since == RowsSince(shRows, boundary)
      anchored == IF boundary = 0 THEN <<>> ELSE dialogMessagesIfComplete(NewestRows(since), max)
  IN IF anchored # <<>> THEN anchored[1] ELSE dialogMessagesOnBlockAnchor(NewestRows(shRows), max)

\* A run reads the window when the newest row is the turn it answers.
Answering == shRows # <<>> /\ NewestRow.role = "user" /\ NewestRow.text
-----------------------------------------------------------------------------
\* selectMessagesForAPI: the newest rows in the budget, but never less than the
\* tool turn that ends on the newest row, and never nothing.
latestToolResultTurnSize(rows) ==
  LET asked == {i \in 2..Len(rows) : rows[i].role = "user" /\ rows[i].tool # "result"
                                     /\ \E j \in 2..(i - 1) : rows[j].tool = "use"}
  IN IF rows[1].tool = "result" /\ asked # {} THEN CHOOSE i \in asked : \A j \in asked : i <= j ELSE 0

selectMessagesForAPI(rows, max) ==
  LET fit == {n \in 0..Len(rows) : FitsBudget(rows, n, max)}
      n == CHOOSE m \in fit : \A k \in fit : k <= m
      required == latestToolResultTurnSize(rows)
      size == IF n < required THEN required ELSE n
  IN SubSeq(rows, 1, IF size = 0 THEN 1 ELSE size)

trimLeadingOnly(rows) == trimLeadingToUser(rows)    \* mutant: a result may open the transcript

\* trimOrphanedLeading: the window starts on a user row that is no tool result.
trimOrphanedLeading(rows) ==
  LET starts == {i \in 1..Len(rows) : rows[i].role = "user" /\ rows[i].tool # "result"}
  IN IF starts = {} THEN <<>> ELSE SubSeq(rows, CHOOSE i \in starts : \A j \in starts : i <= j, Len(rows))

\* sanitizeOrphanedToolUse: a call no next row answers loses its tool block, or
\* the row when it has nothing else.
sanitizeOrphanedToolUse(rows) ==
  LET answered(i) == i < Len(rows) /\ rows[i + 1].tool = "result"
      cleaned == [i \in 1..Len(rows) |->
                    IF rows[i].tool = "use" /\ ~answered(i) THEN [rows[i] EXCEPT !.tool = "none"] ELSE rows[i]]
  IN KeepAt(cleaned, {i \in 1..Len(cleaned) : cleaned[i].text \/ cleaned[i].tool # "none"})

\* MessagesForAPI / messagesForAPIFromRows: the provider transcript with tools.
messagesForAPIFromRows(rows, max) ==
  sanitizeOrphanedToolUse(trimOrphanedLeading(Reverse(selectMessagesForAPI(rows, max))))
-----------------------------------------------------------------------------
\* findSplitPoint: the oldest row kept verbatim, as the index before it.  The
\* cut steps over a call and its result, then forward to a user row.
SplitByTokens(rows, keep) ==
  LET over == {i \in 1..Len(rows) : CostOf(SubSeq(rows, i, Len(rows))) >= keep}
  IN IF over = {} THEN Len(rows) ELSE (CHOOSE i \in over : \A j \in over : j <= i) - 1

SplitOffTools(rows, cut) ==
  LET back == IF rows[cut + 1].tool = "result" THEN cut - 1 ELSE cut
      call == IF rows[back + 1].tool = "use" /\ back + 1 < Len(rows) THEN back + 1 ELSE back
  IN IF call > back /\ rows[call + 1].tool = "result" THEN call + 1 ELSE call

findSplitPoint(rows, keep) ==
  LET cut == SplitByTokens(rows, keep)
      base == IF cut > 0 /\ cut < Len(rows) THEN SplitOffTools(rows, cut) ELSE cut
      users == {i \in base..(Len(rows) - 1) : rows[i + 1].role = "user"}
  IN IF users = {} THEN 0 ELSE CHOOSE i \in users : \A j \in users : i <= j

\* Compact: nothing below the threshold, else the rows before the split.
Compact(rows) == IF CostOf(rows) < CompactThreshold THEN 0 ELSE findSplitPoint(rows, CompactKeep)

\* A task run compacts its session before its first turn: CompactSession keeps
\* the newest rows, deletes the rest and recounts.  A chat session is left alone.
CompactTask ==
  LET cut == Compact(shRows)
      kept == SubSeq(shRows, cut + 1, Len(shRows)) IN
  /\ shSource = "agent_task" /\ cut > 0
  /\ shRows' = kept
  /\ shCounters' = [tokens |-> CostOf(kept), messages |-> Len(kept)]
  /\ UNCHANGED <<shSource, shTranslation, shCount, shSummaries, shJob>>
-----------------------------------------------------------------------------
\* maybeScheduleSoftSummary, in a goroutine after a turn.  First the status: the
\* counter and the rows since the last boundary decide, the newest row is noted.
SummaryCheck ==
  LET since == RowsSince(shRows, softSummaryBoundary) IN
  /\ shSource = "chat" /\ shJob.phase = "idle" /\ shRows # <<>>
  /\ shCounters.tokens >= SummaryThreshold
  /\ CostOf(since) >= SummaryMinNew
  /\ shJob' = [NoJob EXCEPT !.phase = "due", !.latest = NewestRow.seq]
  /\ UNCHANGED <<shSource, shTranslation, shRows, shCount, shCounters, shSummaries>>

\* Then every row is loaded and summarised up to the split.
SummaryLoad ==
  /\ shJob.phase = "due"
  /\ shJob' = IF Compact(shRows) = 0 THEN NoJob
              ELSE [shJob EXCEPT !.phase = "summarising", !.msgs = shRows]
  /\ UNCHANGED <<shSource, shTranslation, shRows, shCount, shCounters, shSummaries>>

\* The summary is stored with the newest row of the status as its boundary; a
\* failed call stores nothing.
SummaryStore ==
  /\ shJob.phase = "summarising"
  /\ shJob' = NoJob
  /\ \/ UNCHANGED shSummaries
     \/ shSummaries' = Append(shSummaries, [upto |-> shJob.latest, covers |-> Compact(shJob.msgs)])
  /\ UNCHANGED <<shSource, shTranslation, shRows, shCount, shCounters>>

SessionNext ==
  \/ \E kind \in RowKinds : AppendRow(kind)
  \/ CompactTask \/ SummaryCheck \/ SummaryLoad \/ SummaryStore

SessionSpec == SessionInit /\ [][SessionNext]_sessionVars
-----------------------------------------------------------------------------
\* The counters of the session are those of its rows, through appends and a
\* compaction that deletes rows (appendInternal, CompactSession).
SessionCounted == shCounters = [tokens |-> CostOf(shRows), messages |-> Len(shRows)]

\* A dialogue window starts on a user row, ends on the turn being answered and
\* spends no more than its budget, unless a single row is over it.
WindowSound ==
  Answering => \A max \in DialogBudgets :
    LET w == DialogMessagesForAPI(max).rows IN
    /\ w # <<>> /\ Head(w).role = "user"
    /\ w[Len(w)].seq = NewestRow.seq
    /\ CostOf(w) <= max \/ Len(w) = 1

\* A transcript is one the provider accepts: a result always follows its call
\* and a call is always answered, whatever the budget cut, a crash left behind
\* or a compaction deleted (messagesForAPIFromRows).
TranscriptPaired ==
  shRows # <<>> => \A max \in DialogBudgets :
    LET w == messagesForAPIFromRows(NewestRows(shRows), max) IN
    \A i \in 1..Len(w) :
      /\ w[i].tool = "result" => i > 1 /\ w[i - 1].tool = "use"
      /\ w[i].tool = "use" => i < Len(w) /\ w[i + 1].tool = "result"

\* The three guarantees of the store's readers and writers together.
SessionSound == SessionCounted /\ WindowSound /\ TranscriptPaired
=============================================================================
