------------------------------ MODULE AgentLoop ------------------------------
(***************************************************************************)
(* The bounded model/tool loop of one run: Loop.RunTracked and             *)
(* Loop.RunStream (src/runtime/agent).  Each run holds its own wire array  *)
(* (convo) and appends to the session store, which it shares with later    *)
(* runs.  A message is its role, the number of tool calls it makes and the *)
(* number of tool results it carries; a provider response is its stop      *)
(* reason, whether it has visible text and the tools it calls.             *)
(***************************************************************************)
EXTENDS Integers, Sequences

CONSTANTS
  AgentConfigs,      \* the run configurations: records of AgentConfigType
  AgentResponses     \* what a provider may answer: records [stop, text, uses]

AgentConfigType ==
  [stream : BOOLEAN, validator : BOOLEAN, ephemeral : BOOLEAN, strict : BOOLEAN,
   toolbox : BOOLEAN, promptOnly : BOOLEAN, reasoning : BOOLEAN,
   deadline : BOOLEAN, quiet : BOOLEAN, batch : BOOLEAN,
   maxTurns : Nat, toolLimit : Nat]

ASSUME AgentConfigsTyped == AgentConfigs \subseteq AgentConfigType

\* A response with tool calls stops on tool_use, or on max_tokens when they were
\* cut: the provider adapters see to it (stopReasonForBlocks, mapStatus).
ASSUME AgentResponsesTyped ==
  \A r \in AgentResponses :
    /\ DOMAIN r = {"stop", "text", "uses"} /\ r.text \in BOOLEAN /\ r.uses \in Seq(STRING)
    /\ r.uses # <<>> => r.stop \in {"tool_use", "max_tokens"}

\* The bounds of loop.go on extra passes of one run.
maxTokenContinuationPasses == 1
maxResponseRevisions == 1
maxTruncatedToolRecoveries == 2

VARIABLES
  alCfg,      \* RunConfig
  alPc,       \* where the run stands
  alRun,      \* the locals of the run (see AgentLocals)
  alConvo,    \* the wire array: dialogue window, then this run's traffic
  alSent,     \* the messages of the latest provider call
  alStored,   \* what this run appended to the session
  alResp,     \* the response being handled
  alResults,  \* the tool results of the round, in model order
  alEnv       \* [cancelled, late, ran, shown]: context, tools deadline, handlers run, text on the transport

agentVars == <<alCfg, alPc, alRun, alConvo, alSent, alStored, alResp, alResults, alEnv>>

AgentMsg(role, uses, results) == [role |-> role, uses |-> uses, results |-> results, ctx |-> FALSE]
UserText == AgentMsg("user", 0, 0)
AssistantText == AgentMsg("assistant", 0, 0)
NoResponse == [stop |-> "none", text |-> FALSE, uses |-> <<>>]

\* The locals at the head of the loop, before the first turn.
AgentLocals(c) ==
  [turn |-> 0, maxTurns |-> c.maxTurns, toolTurns |-> 0, forceFinal |-> FALSE,
   continuations |-> 0, revisions |-> 0, truncations |-> 0, lateRecovery |-> FALSE,
   pending |-> FALSE, text |-> FALSE, traces |-> 0, reason |-> "provider_stop",
   toolbox |-> c.toolbox, checked |-> FALSE, fallback |-> FALSE, anchor |-> 0, calls |-> 0]

AgentInit ==
  /\ alCfg \in AgentConfigs
  /\ alPc = "begin"
  /\ alRun = AgentLocals(alCfg)
  /\ alConvo \in {<<>>, <<UserText, AssistantText>>}      \* the earlier dialogue
  /\ alSent = <<>> /\ alStored = <<>> /\ alResults = <<>>
  /\ alResp = NoResponse
  /\ alEnv = [cancelled |-> FALSE, late |-> FALSE, ran |-> 0, shown |-> {}]
-----------------------------------------------------------------------------
\* finishRunOutcome: a cancelled context wins over every other reason, an error
\* over all but the turn limit.
finishRunOutcome(reason, failed) ==
  CASE alEnv.cancelled -> "cancelled"
    [] ~alEnv.cancelled /\ failed /\ reason # "turn_limit" -> "error"
    [] OTHER -> reason

\* terminalRunReason
terminalRunReason(reason, stop) ==
  CASE reason = "empty_output" -> "empty_output"
    [] reason # "empty_output" /\ stop = "max_tokens" -> "output_limit"
    [] reason = "tool_budget" /\ stop # "max_tokens" -> "tool_budget"
    [] OTHER -> "completed"

\* The deferred end of a run: the run returns and reports its outcome once.
AgentReturn(locals, reason, failed) ==
  /\ alPc' = "end"
  /\ alRun' = [locals EXCEPT !.reason = finishRunOutcome(reason, failed)]

AgentFail == AgentReturn(alRun, alRun.reason, TRUE) /\ UNCHANGED <<alCfg, alConvo, alSent, alStored, alResp, alResults, alEnv>>

\* Dialogue window of the run: the stored rows, the current user row laid over
\* the last of them, a prompt-only input appended in memory.
AgentWindow == Append(alConvo, UserText)

\* turnContextAnchor and the head of both functions: the user row is appended
\* (never for a prompt-only input), the window is loaded, the anchor is fixed.
AgentOpen ==
  /\ alPc = "begin"
  /\ \/ AgentFail                                  \* append or load failed
     \/ /\ alConvo' = AgentWindow
        /\ alRun' = [alRun EXCEPT !.anchor = Len(AgentWindow)]
        /\ alStored' = IF alCfg.promptOnly THEN <<>> ELSE <<UserText>>
        /\ alPc' = "turn"
        /\ UNCHANGED <<alCfg, alSent, alResp, alResults, alEnv>>

TrackedOpen == ~alCfg.stream /\ AgentOpen
StreamOpen == alCfg.stream /\ AgentOpen

withTurnContextAtTail(messages, anchor) ==         \* mutant: follows the newest message
  [messages EXCEPT ![Len(messages)].ctx = TRUE]

\* withTurnContext: the per-turn context joins the anchored user message, so
\* later turns only append behind it.
withTurnContext(messages, anchor) == [messages EXCEPT ![anchor].ctx = TRUE]

\* The loop's condition failed: text or a tool call makes a result, else an error.
AgentTurnLimit ==
  /\ alPc = "turn"
  /\ alRun.turn >= alRun.maxTurns
  /\ AgentReturn(alRun, "turn_limit", ~alRun.text /\ alRun.traces = 0)
  /\ UNCHANGED <<alCfg, alConvo, alSent, alStored, alResp, alResults, alEnv>>

hasVisibleOutput(r) == r.text \/ r.uses # <<>>
shouldRetryEmptyVisibleOutput(r) ==
  r.stop = "max_tokens" /\ ~hasVisibleOutput(r) /\ alCfg.reasoning

StreamedTextUnbuffered(r) ==                       \* mutant: streams past the validator
  IF alCfg.stream /\ r.text THEN alEnv.shown \cup {"raw"} ELSE alEnv.shown

\* What the transport shows of a response while it streams: everything, or
\* nothing when a validator buffers the text.
StreamedText(r) ==
  IF alCfg.stream /\ ~alCfg.validator /\ r.text THEN alEnv.shown \cup {"raw"} ELSE alEnv.shown

\* One provider call of a turn, retried once without reasoning when it spent
\* its output without a visible word.
AgentCall(locals) ==
  /\ alPc = "turn"
  /\ alRun.turn < alRun.maxTurns
  /\ alSent' = withTurnContext(alConvo, alRun.anchor)
  /\ \/ /\ AgentReturn([locals EXCEPT !.turn = @ + 1], alRun.reason, TRUE)
        /\ UNCHANGED <<alResp, alEnv>>
     \/ \E r \in AgentResponses, again \in AgentResponses :
          LET final == IF shouldRetryEmptyVisibleOutput(r) THEN again ELSE r IN
          /\ shouldRetryEmptyVisibleOutput(r) \/ again = r
          /\ alResp' = final
          /\ alRun' = [locals EXCEPT !.turn = @ + 1, !.fallback = FALSE, !.checked = FALSE,
                                     !.calls = @ + (IF again = r THEN 1 ELSE 2)]
          /\ alEnv' = [alEnv EXCEPT !.shown = StreamedText(final)]
          /\ alPc' = "response"
  /\ UNCHANGED <<alCfg, alConvo, alStored, alResults>>

\* RunTracked withholds the tools once the tools deadline has passed.
TrackedCall == ~alCfg.stream /\ AgentCall([alRun EXCEPT !.forceFinal = @ \/ (alCfg.deadline /\ alEnv.late)])
StreamCall == alCfg.stream /\ AgentCall(alRun)
-----------------------------------------------------------------------------
\* An empty end_turn or max_tokens: a cancelled run returns, any other gets the
\* fallback text (shown at once unless a validator buffers it).
EmptyOutput == ~hasVisibleOutput(alResp) /\ alResp.stop \in {"end_turn", "max_tokens"}

EmptyResponse ==
  /\ alPc = "response" /\ EmptyOutput
  /\ IF alEnv.cancelled
       THEN AgentReturn(alRun, alRun.reason, TRUE) /\ UNCHANGED <<alResp, alEnv>>
       ELSE /\ alResp' = [alResp EXCEPT !.text = TRUE]
            /\ alRun' = [alRun EXCEPT !.fallback = TRUE, !.reason = "empty_output"]
            /\ alEnv' = [alEnv EXCEPT !.shown = IF alCfg.stream /\ ~alCfg.validator THEN @ \cup {"raw"} ELSE @]
            /\ alPc' = "draft"
  /\ UNCHANGED <<alCfg, alConvo, alSent, alStored, alResults>>

shouldAutoContinueMaxTokens(r) ==
  /\ r.stop = "max_tokens"
  /\ alRun.continuations < maxTokenContinuationPasses
  /\ r.text /\ r.uses = <<>>

\* One more pass is allowed when the turn budget is spent.
ExtendTurns(locals) == [locals EXCEPT !.maxTurns = IF alRun.turn >= @ THEN alRun.turn + 1 ELSE @]

\* A text cut by the output limit: it waits in memory for its continuation,
\* which is asked for without tools.
ContinueResponse ==
  /\ alPc = "response" /\ ~EmptyOutput
  /\ shouldAutoContinueMaxTokens(alResp)
  /\ alConvo' = alConvo \o <<AssistantText, UserText>>
  /\ alRun' = ExtendTurns([alRun EXCEPT !.pending = TRUE, !.text = @ \/ ~alCfg.validator,
                                        !.continuations = @ + 1, !.forceFinal = TRUE])
  /\ alPc' = "turn"
  /\ UNCHANGED <<alCfg, alSent, alStored, alResp, alResults, alEnv>>

\* mergeContinuationText: the pending text absorbs the response, whose content
\* becomes that text alone.
mergeContinuationText(r) == IF alRun.pending THEN [r EXCEPT !.text = TRUE, !.uses = <<>>] ELSE r

TakeResponse ==
  /\ alPc = "response" /\ ~EmptyOutput
  /\ ~shouldAutoContinueMaxTokens(alResp)
  /\ alResp' = mergeContinuationText(alResp)
  /\ alPc' = "draft"
  /\ UNCHANGED <<alCfg, alRun, alConvo, alSent, alStored, alResults, alEnv>>

\* validateResponse may only send back a draft that calls no tool.
Revisable(r) ==
  /\ ~alRun.forceFinal /\ ~alRun.fallback
  /\ alRun.revisions < maxResponseRevisions
  /\ r.uses = <<>>

\* The response validator: it keeps or replaces the text, sends the draft back
\* once, or fails the run.  A text-free draft is not judged.
ValidateDraft ==
  /\ alPc = "draft" /\ alCfg.validator /\ alResp.text
  /\ \/ AgentReturn(alRun, alRun.reason, TRUE) /\ UNCHANGED <<alConvo, alResp>>
     \/ /\ alRun' = [alRun EXCEPT !.checked = TRUE]
        /\ alPc' = "persist"
        /\ \/ UNCHANGED alResp
           \/ alResp.uses # <<>> /\ alResp' = [alResp EXCEPT !.text = FALSE]
        /\ UNCHANGED alConvo
     \/ /\ Revisable(alResp)
        /\ alConvo' = alConvo \o <<AgentMsg("assistant", Len(alResp.uses), 0), UserText>>
        /\ alRun' = [alRun EXCEPT !.revisions = @ + 1, !.maxTurns = @ + 1, !.pending = FALSE]
        /\ alPc' = "turn"
        /\ UNCHANGED alResp
  /\ UNCHANGED <<alCfg, alSent, alStored, alResults, alEnv>>

SkipValidation ==
  /\ alPc = "draft" /\ ~(alCfg.validator /\ alResp.text)
  /\ alPc' = "persist"
  /\ UNCHANGED <<alCfg, alRun, alConvo, alSent, alStored, alResp, alResults, alEnv>>

\* The assistant row is appended on a context that outlives the run's, then the
\* text is published and counted; the caller's checkpoint may fail the run.
AgentPersist(shown) ==
  LET row == AgentMsg("assistant", Len(alResp.uses), 0)
      locals == [alRun EXCEPT !.text = @ \/ alResp.text, !.pending = FALSE] IN
  /\ alPc = "persist"
  /\ \/ AgentFail /\ ~alCfg.ephemeral              \* append assistant message
     \/ /\ alStored' = IF alCfg.ephemeral THEN alStored ELSE Append(alStored, row)
        /\ alConvo' = Append(alConvo, row)
        /\ alEnv' = [alEnv EXCEPT !.shown = shown]
        /\ \/ alPc' = "stop" /\ alRun' = locals
           \/ ~alCfg.stream /\ AgentReturn(locals, alRun.reason, TRUE)   \* checkpoint model_completed
        /\ UNCHANGED <<alCfg, alSent, alResp, alResults>>

TrackedPersist == ~alCfg.stream /\ AgentPersist(alEnv.shown)
\* RunStream publishes a validated text only once it is stored.
StreamPersist ==
  /\ alCfg.stream
  /\ AgentPersist(IF alCfg.validator /\ alResp.text
                    THEN alEnv.shown \cup {IF alRun.checked THEN "checked" ELSE "raw"} ELSE alEnv.shown)
-----------------------------------------------------------------------------
shouldRecoverTruncatedToolUse(r) ==
  /\ r.stop = "max_tokens" /\ r.uses # <<>>
  /\ alRun.truncations < maxTruncatedToolRecoveries

\* A spent tool budget withholds the tools of the turns that follow.
ForceFinalAtLimit(locals) ==
  IF locals.toolTurns >= alCfg.toolLimit
    THEN [locals EXCEPT !.forceFinal = TRUE, !.reason = "tool_budget"] ELSE locals

\* truncatedToolUseResults: a tool call cut by the output limit is answered
\* with an error, nothing runs, and the model gets the turn back.
RecoverTruncated ==
  LET n == Len(alResp.uses) IN
  /\ alPc = "stop" /\ shouldRecoverTruncatedToolUse(alResp)
  /\ \/ AgentReturn([alRun EXCEPT !.truncations = @ + 1, !.toolTurns = @ + 1, !.traces = @ + n], alRun.reason, TRUE)
        /\ ~alCfg.ephemeral /\ UNCHANGED <<alConvo, alStored>>
     \/ /\ alRun' = ExtendTurns(ForceFinalAtLimit(
                      [alRun EXCEPT !.truncations = @ + 1, !.toolTurns = @ + 1, !.traces = @ + n]))
        /\ alConvo' = Append(alConvo, AgentMsg("user", 0, n))
        /\ alStored' = IF alCfg.ephemeral THEN alStored ELSE Append(alStored, AgentMsg("user", 0, n))
        /\ alPc' = "turn"
  /\ UNCHANGED <<alCfg, alSent, alResp, alResults, alEnv>>

\* Every stop that ends the run: the normal ones, a refusal (which speaks when
\* nothing else did, unless the run is a quiet autonomous draft), unknown ones.
StopRun ==
  /\ alPc = "stop" /\ ~shouldRecoverTruncatedToolUse(alResp)
  /\ alResp.stop # "tool_use"
  /\ CASE alResp.stop \in {"end_turn", "max_tokens"} ->
            AgentReturn(alRun, terminalRunReason(alRun.reason, alResp.stop), FALSE) /\ UNCHANGED alEnv
       [] alResp.stop = "refusal" ->
            /\ AgentReturn([alRun EXCEPT !.text = TRUE], "refusal", FALSE)
            /\ alEnv' = [alEnv EXCEPT !.shown =
                 IF alCfg.stream /\ ~alCfg.validator /\ ~alRun.text /\ ~alCfg.quiet THEN @ \cup {"raw"} ELSE @]
       [] OTHER -> AgentReturn(alRun, alRun.reason, FALSE) /\ UNCHANGED alEnv
  /\ UNCHANGED <<alCfg, alConvo, alSent, alStored, alResp, alResults>>

\* A tool round opens; RunTracked looks at the tools deadline again, and a
\* round of reads alone is started as a batch after a checkpoint.
AgentOpenTools(forced) ==
  /\ alPc = "stop" /\ alResp.stop = "tool_use"
  /\ alResults' = <<>>
  /\ \/ /\ alRun' = [alRun EXCEPT !.toolTurns = @ + 1, !.forceFinal = @ \/ forced]
        /\ alPc' = "tools"
     \/ /\ ~alCfg.stream /\ alCfg.batch /\ Len(alResp.uses) > 1 /\ ~alRun.forceFinal /\ ~forced
        /\ AgentReturn([alRun EXCEPT !.toolTurns = @ + 1], alRun.reason, TRUE)  \* checkpoint read_batch_started
  /\ UNCHANGED <<alCfg, alConvo, alSent, alStored, alResp, alEnv>>

TrackedOpenTools == ~alCfg.stream /\ AgentOpenTools(alCfg.deadline /\ alEnv.late)
StreamOpenTools == alCfg.stream /\ AgentOpenTools(FALSE)

\* toolDefinitionPresent: under StrictTools a call must be one of the tools
\* sent; "foreign" stands for a name that was not.
Denied(tool) == alRun.forceFinal \/ (alCfg.strict /\ tool = "foreign")

Block == alResp.uses[Len(alResults) + 1]
MoreBlocks == Len(alResults) < Len(alResp.uses)

\* A call the turn does not allow is answered without running.
DenyTool ==
  /\ alPc = "tools" /\ MoreBlocks /\ Denied(Block)
  /\ alResults' = Append(alResults, "denied")
  /\ alRun' = [alRun EXCEPT !.traces = @ + 1]
  /\ UNCHANGED <<alCfg, alPc, alConvo, alSent, alStored, alResp, alEnv>>

\* open_toolbox is served by the loop: the narrowed toolset is replaced.
OpenToolbox ==
  /\ alPc = "tools" /\ MoreBlocks /\ ~Denied(Block)
  /\ Block = "toolbox" /\ alCfg.toolbox
  /\ alResults' = Append(alResults, "unlocked")
  /\ alRun' = [alRun EXCEPT !.traces = @ + 1, !.toolbox = FALSE]
  /\ UNCHANGED <<alCfg, alPc, alConvo, alSent, alStored, alResp, alEnv>>

\* executeToolWithTimeout: the handler runs unless the context has ended; its
\* outcome, an error or a timeout is the result either way.
AgentRunTool ==
  /\ alResults' = Append(alResults, "ran")
  /\ alRun' = [alRun EXCEPT !.traces = @ + 1]
  /\ alEnv' = [alEnv EXCEPT !.ran = @ + (IF alEnv.cancelled \/ (alCfg.deadline /\ alEnv.late) THEN 0 ELSE 1)]
  /\ UNCHANGED <<alCfg, alConvo, alSent, alStored, alResp>>

Runnable == alPc = "tools" /\ MoreBlocks /\ ~Denied(Block) /\ ~(Block = "toolbox" /\ alCfg.toolbox)

\* RunTracked saves a checkpoint before and after each handler.
TrackedRunTool ==
  /\ ~alCfg.stream /\ Runnable
  /\ \/ AgentFail                                            \* checkpoint tool_started
     \/ AgentRunTool /\ alPc' = "tools"
     \/ /\ AgentReturn([alRun EXCEPT !.traces = @ + 1], alRun.reason, TRUE)  \* checkpoint tool_completed
        /\ alResults' = Append(alResults, "ran")
        /\ alEnv' = [alEnv EXCEPT !.ran = @ + 1]
        /\ ~alEnv.cancelled /\ ~(alCfg.deadline /\ alEnv.late)
        /\ UNCHANGED <<alCfg, alConvo, alSent, alStored, alResp>>
StreamRunTool == alCfg.stream /\ Runnable /\ AgentRunTool /\ alPc' = "tools"

\* No tool call came with a tool_use stop: the turn is terminal.
AgentNoBlocks ==
  /\ alPc = "tools" /\ alResp.uses = <<>>
  /\ AgentReturn(alRun, alRun.reason, FALSE)
  /\ UNCHANGED <<alCfg, alConvo, alSent, alStored, alResp, alResults, alEnv>>

\* The round closes: its results are stored and join the wire array.  Under
\* withheld tools the run ends, except once for RunTracked's late deadline.
AgentCloseTools(late) ==
  LET answer == AgentMsg("user", 0, Len(alResults)) IN
  /\ alPc = "tools" /\ ~MoreBlocks /\ alResp.uses # <<>>
  /\ \/ AgentFail /\ ~alCfg.ephemeral                        \* append tool results
     \/ /\ alStored' = IF alCfg.ephemeral THEN alStored ELSE Append(alStored, answer)
        /\ alConvo' = Append(alConvo, answer)
        /\ CASE alRun.forceFinal /\ late /\ ~alRun.lateRecovery ->
                  /\ alRun' = ExtendTurns([alRun EXCEPT !.lateRecovery = TRUE])
                  /\ alPc' = "turn"
             [] alRun.forceFinal /\ ~(late /\ ~alRun.lateRecovery) ->
                  AgentReturn(alRun, IF alRun.reason = "tool_budget" THEN "tool_budget" ELSE "output_limit", FALSE)
             [] OTHER ->
                  /\ alRun' = IF alRun.toolTurns >= alCfg.toolLimit
                                THEN ExtendTurns(ForceFinalAtLimit(alRun)) ELSE alRun
                  /\ alPc' = "turn"
        /\ UNCHANGED <<alCfg, alSent, alResp, alResults, alEnv>>

TrackedCloseTools == ~alCfg.stream /\ AgentCloseTools(alCfg.deadline /\ alEnv.late)
StreamCloseTools == alCfg.stream /\ AgentCloseTools(FALSE)
-----------------------------------------------------------------------------
\* The caller cancels the run's context.
AgentCancel ==
  /\ alPc # "end" /\ ~alEnv.cancelled
  /\ alEnv' = [alEnv EXCEPT !.cancelled = TRUE]
  /\ UNCHANGED <<alCfg, alPc, alRun, alConvo, alSent, alStored, alResp, alResults>>

\* The tools deadline of the run passes.
AgentDeadline ==
  /\ alPc # "end" /\ alCfg.deadline /\ ~alEnv.late
  /\ alEnv' = [alEnv EXCEPT !.late = TRUE]
  /\ UNCHANGED <<alCfg, alPc, alRun, alConvo, alSent, alStored, alResp, alResults>>

AgentStep ==
  \/ TrackedOpen \/ StreamOpen \/ AgentTurnLimit \/ TrackedCall \/ StreamCall
  \/ EmptyResponse \/ ContinueResponse \/ TakeResponse \/ ValidateDraft \/ SkipValidation
  \/ TrackedPersist \/ StreamPersist \/ RecoverTruncated \/ StopRun
  \/ TrackedOpenTools \/ StreamOpenTools \/ DenyTool \/ OpenToolbox
  \/ TrackedRunTool \/ StreamRunTool \/ AgentNoBlocks \/ TrackedCloseTools \/ StreamCloseTools

AgentNext == AgentStep \/ AgentCancel \/ AgentDeadline

AgentSpec == AgentInit /\ [][AgentNext]_agentVars
-----------------------------------------------------------------------------
\* Every provider call carries an array the provider accepts: it ends on a user
\* message, and each message with tool calls is followed at once by the user
\* message that answers all of them (RunTracked, RunStream and their retries,
\* revisions, truncation recoveries and denials).
AgentWireValid ==
  alSent # <<>> =>
    /\ alSent[Len(alSent)].role = "user"
    /\ \A i \in 1..Len(alSent) : alSent[i].uses > 0 =>
         /\ i < Len(alSent)
         /\ alSent[i + 1].role = "user" /\ alSent[i + 1].results = alSent[i].uses

\* A run makes at most six turns over its budget: one revision, one
\* continuation, two truncation recoveries, one final answer without tools and
\* one late recovery (the places that raise cfg.MaxTurns).
AgentTurnsBounded == alRun.turn <= alCfg.maxTurns + 6

\* A run that returns normally leaves no stored tool call without its stored
\* result, except the stump an output-limited run ends on.
AgentStoreAnswered ==
  (alPc = "end" /\ alRun.reason \notin {"error", "cancelled", "output_limit"}) =>
    \A i \in 1..Len(alStored) : alStored[i].uses > 0 =>
      i < Len(alStored) /\ alStored[i + 1].results = alStored[i].uses

\* With a response validator no text reaches the transport before the validator
\* has passed it and the store has it ("No provider text may reach a transport
\* before the host has checked it", stream.go).
AgentShownChecked == alCfg.validator => "raw" \notin alEnv.shown

\* The four guarantees of a run together.
AgentSound == AgentWireValid /\ AgentTurnsBounded /\ AgentStoreAnswered /\ AgentShownChecked

\* Each call's array extends the array of the call before it, so a prefix cache
\* keeps matching (turnContextAnchor).
AgentPrefixStable ==
  [][alSent # <<>> /\ alSent' # alSent =>
       Len(alSent) <= Len(alSent') /\ SubSeq(alSent', 1, Len(alSent)) = alSent]_agentVars
=============================================================================
