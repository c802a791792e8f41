----------------------------- MODULE AgentPrompt -----------------------------
(***************************************************************************)
(* How a run of the agent loop fills its prompt (src/runtime/agent/loop.go *)
(* and tool_result_compact.go): the token budget and the dialogue lane,    *)
(* the tools it offers and the toolbox that widens them, the day and time  *)
(* markers of the window and the shortening of tool results.  Texts are    *)
(* their token or rune counts, a turn context is the sequence of the costs *)
(* of its lines.                                                           *)
(***************************************************************************)
EXTENDS Integers, Sequences, SequencesExt, Tally

CONSTANTS
  PromptCases,       \* configurations of a run: records of PromptCaseType
  MessageTimes,      \* created_at of appended messages: minutes, or 0 for none
  DayLength, dialogGapMarkerAfter,   \* minutes
  MaxDialog,         \* bound: messages of the window
  ResultInputs       \* tool results: [fields |-> Seq(rune counts), error |-> BOOLEAN]

PromptCaseType ==
  [budgets : [explicit : Nat, model : Nat, config : Nat, window : Nat, minimum : Nat],
   lane : Nat, system : Nat, schema : Nat, lines : Seq(Nat), felt : Nat, extra : Nat,
   override : SUBSET STRING, allowed : SUBSET STRING, denied : SUBSET STRING,
   expansion : SUBSET STRING, strict : BOOLEAN]

ResultType == [fields : Seq(Nat), error : BOOLEAN]

\* The loop-intercepted meta-tool: no tool of the registry has its name.
ToolboxToolName == "open_toolbox"

ASSUME PromptConstants ==
  /\ dialogGapMarkerAfter > 0 /\ DayLength > dialogGapMarkerAfter
  /\ MessageTimes \subseteq Nat /\ ResultInputs \subseteq ResultType
  /\ PromptCases \subseteq PromptCaseType
  /\ \A c \in PromptCases : ToolboxToolName \notin c.override

VARIABLES
  apCase,      \* the configuration of the run
  apPhase,     \* "decide", "load", "turn"
  apTools,     \* tools offered in the next call
  apDecision,  \* dialogBudgetDecision and the trimmed context
  apSent,      \* tokens of the latest call: [fixed, context, dialog]
  apDialog,    \* created_at of the window's messages, oldest first
  apResult     \* a tool result on its way into the prompt

promptVars == <<apCase, apPhase, apTools, apDecision, apSent, apDialog, apResult>>

DefaultMessageBudget == 6
EnvelopeCost == 1         \* delimiters of a turn context
MarkerCost == 1           \* contextTrimMarker
NoPrompt == [fixed |-> 0, context |-> 0, dialog |-> 0]

\* Tokens of a rendered turn context; an empty one is not sent.
ContextCost(lines) == IF lines = <<>> THEN 0 ELSE EnvelopeCost + SumOf(lines)

\* calculatedMessageBudget
calculatedMessageBudget(c) ==
  LET budget == c.budgets.window - c.system - c.schema
  IN IF c.budgets.window <= 0 THEN 0
     ELSE IF c.budgets.minimum > 0 /\ budget < c.budgets.minimum THEN c.budgets.minimum ELSE budget

\* ResolveMessageBudget: the first source that gives a budget.
ResolveMessageBudget(c) ==
  LET sources == <<c.budgets.explicit, c.budgets.model, c.budgets.config, calculatedMessageBudget(c), DefaultMessageBudget>>
  IN sources[CHOOSE i \in 1..5 : sources[i] > 0 /\ \A j \in 1..(i - 1) : sources[j] <= 0]

\* trimContextToBudget: whole leading lines while they fit with the marker.
trimContextToBudget(lines, allowance) ==
  LET fits(k) == EnvelopeCost + SumOf(SubSeq(lines, 1, k)) + MarkerCost <= allowance
      cut == CHOOSE k \in 0..Len(lines) : /\ \A j \in 1..k : fits(j)
                                          /\ k = Len(lines) \/ ~fits(k + 1)
  IN IF allowance <= 0 \/ cut = 0 THEN <<>>
     ELSE IF cut = Len(lines) THEN lines ELSE Append(SubSeq(lines, 1, cut), MarkerCost)

Decision(budget, overhead, mode, lines) ==
  [dialog |-> budget, overhead |-> overhead, mode |-> mode, lines |-> lines]

\* effectiveDialogBudgetDecision: the dialogue gets what the rest leaves.
effectiveDialogBudgetDecision(total, fixed, lines) ==
  LET overhead == fixed + ContextCost(lines)
  IN IF overhead >= total THEN Decision(total, overhead, "fallback", lines)
     ELSE Decision(total - overhead, overhead, "total_prompt", lines)

\* effectiveDialogBudgetDecisionLane: the dialogue owns a lane, the turn context
\* is trimmed to what the lane and the fixed part leave.
effectiveDialogBudgetDecisionLane(total, lane, fixed, lines) ==
  LET laneEff == IF fixed + lane > total THEN total - fixed ELSE lane
      allowance == total - fixed - laneEff
      kept == IF ContextCost(lines) > allowance THEN trimContextToBudget(lines, allowance) ELSE lines
  IN IF lane <= 0 THEN effectiveDialogBudgetDecision(total, fixed, lines)
     ELSE IF laneEff < 1 THEN Decision(total, fixed, "fallback", lines)
     ELSE Decision(laneEff, fixed + ContextCost(kept), "lane", kept)

\* dialogBudgetAfterCurrentExpansion: what the provider-only copy of the turn
\* takes is taken from the window.
dialogBudgetAfterCurrentExpansion(budget, extra) ==
  IF extra <= 0 THEN budget ELSE IF extra >= budget THEN 1 ELSE budget - extra

\* selectTools: the override, cut to the allowlist, without the denied tools.
selectTools(c, names) == (names \cap c.allowed) \ c.denied

\* withToolboxTool: the escape hatch of a narrowed toolset.
withToolboxTool(c, tools) ==
  IF c.strict \/ c.expansion = {} THEN tools ELSE tools \cup {ToolboxToolName}

toolboxUnfiltered(c) == c.expansion           \* mutant: opens every tool of the expansion

\* toolboxTools: the expansion goes through the same filters.
toolboxTools(c) == selectTools(c, c.expansion)

\* annotateDialogDays: a date marker where the day changes, a time marker after
\* a long gap; a message without created_at gets none and is no reference.
MarkerAt(times, i) ==
  LET dated == {j \in 1..(i - 1) : times[j] > 0}
      prev == CHOOSE j \in dated : \A k \in dated : k <= j
  IN IF times[i] <= 0 THEN "none"
     ELSE IF dated = {} \/ times[i] \div DayLength # times[prev] \div DayLength THEN "date"
     ELSE IF times[i] - times[prev] >= dialogGapMarkerAfter THEN "time" ELSE "none"

annotateDialogDays(times) ==
  FlattenSeq([i \in 1..Len(times) |->
    IF MarkerAt(times, i) = "none" THEN <<[at |-> times[i], kind |-> "message"]>>
    ELSE <<[at |-> times[i], kind |-> MarkerAt(times, i)], [at |-> times[i], kind |-> "message"]>>])

PromptInit ==
  /\ apCase \in PromptCases
  /\ apPhase = "decide"
  /\ apTools = withToolboxTool(apCase, selectTools(apCase, apCase.override))
  /\ apDecision = Decision(0, 0, "none", <<>>)
  /\ apSent = NoPrompt
  /\ apDialog = <<>>
  /\ apResult = [fields |-> <<>>, error |-> FALSE]
-----------------------------------------------------------------------------
Fixed == apCase.system + apCase.schema

\* Before the first turn a run decides its budgets.
DecideBudget ==
  /\ apPhase = "decide"
  /\ apDecision' = effectiveDialogBudgetDecisionLane(ResolveMessageBudget(apCase), apCase.lane, Fixed, apCase.lines)
  /\ apPhase' = "load"
  /\ UNCHANGED <<apCase, apTools, apSent, apDialog, apResult>>

\* The window's messages, each a copy of a stored row with its time.
LoadMessage(t) ==
  /\ apPhase = "load" /\ Len(apDialog) < MaxDialog
  /\ \A i \in 1..Len(apDialog) : t = 0 \/ apDialog[i] <= t
  /\ apDialog' = Append(apDialog, t)
  /\ UNCHANGED <<apCase, apPhase, apTools, apDecision, apSent, apResult>>

\* One call: the turn context is built anew for every turn, from all its lines
\* and the felt time, and sent beside a window of at most the dialogue budget.
SendPrompt ==
  LET lines == IF apCase.felt > 0 THEN Append(apCase.lines, apCase.felt) ELSE apCase.lines IN
  /\ apPhase \in {"load", "turn"} /\ apDialog # <<>>
  /\ apSent' = [fixed |-> Fixed, context |-> ContextCost(lines),
                dialog |-> dialogBudgetAfterCurrentExpansion(apDecision.dialog, apCase.extra)]
  /\ apPhase' = "turn"
  /\ UNCHANGED <<apCase, apTools, apDecision, apDialog, apResult>>

\* open_toolbox is called: the turn's tools are replaced.
UnlockToolbox ==
  /\ apPhase = "turn" /\ ToolboxToolName \in apTools
  /\ apTools' = toolboxTools(apCase)
  /\ UNCHANGED <<apCase, apPhase, apDecision, apSent, apDialog, apResult>>
-----------------------------------------------------------------------------
\* Rune limits of tool_result_compact.go, scaled together.
LongField == 2
MaxResult == 8
MaxErrorResult == 4
FieldOverhead == 1

\* truncateMiddle of a text of n runes.
truncateMiddle(n, max) == IF n <= max THEN n ELSE max

\* compactJSONObjectForPrompt: every short field whole, the long ones share the
\* rest; 0 when the short ones leave nothing.  A clipped field grows by its note.
ShortFields(fields) == KeepAt(fields, {i \in 1..Len(fields) : fields[i] <= LongField})
LongFields(fields) == KeepAt(fields, {i \in 1..Len(fields) : fields[i] > LongField})
compactJSONObjectForPrompt(fields, max) ==
  LET used == SumOf(ShortFields(fields)) + Len(ShortFields(fields)) * FieldOverhead
      long == LongFields(fields)
      share == IF long = <<>> THEN max - used ELSE (max - used) \div Len(long)
      clipped == [i \in 1..Len(long) |-> (IF share <= 0 THEN 1 ELSE truncateMiddle(long[i], share)) + FieldOverhead]
      out == used + SumOf(clipped)
  IN IF fields = <<>> \/ used >= max \/ out > 2 * max THEN [short |-> 0, size |-> 0]
     ELSE [short |-> Len(ShortFields(fields)), size |-> out]

\* compactToolResultForPrompt / truncateForPrompt: short results pass, objects
\* are compacted by field, the rest is cut in the middle.
ResultSize(r) == SumOf(r.fields) + Len(r.fields) * FieldOverhead
compactToolResultForPrompt(r) ==
  LET max == IF r.error THEN MaxErrorResult ELSE MaxResult
      object == compactJSONObjectForPrompt(r.fields, max)
  IN IF ResultSize(r) <= max THEN [short |-> Len(ShortFields(r.fields)), size |-> ResultSize(r), how |-> "whole"]
     ELSE IF object.size > 0 THEN [short |-> object.short, size |-> object.size, how |-> "fields"]
     ELSE [short |-> 0, size |-> truncateMiddle(ResultSize(r), max), how |-> "cut"]

\* A tool answers during a turn.
ToolAnswers ==
  /\ apPhase = "turn"
  /\ apResult' \in ResultInputs
  /\ UNCHANGED <<apCase, apPhase, apTools, apDecision, apSent, apDialog>>

PromptNext ==
  \/ DecideBudget \/ SendPrompt \/ UnlockToolbox \/ ToolAnswers
  \/ \E t \in MessageTimes : LoadMessage(t)

PromptSpec == PromptInit /\ [][PromptNext]_promptVars
-----------------------------------------------------------------------------
\* The decision keeps its promise: in the lane and total modes the fixed part,
\* the context it keeps and the dialogue budget fit the total, with a dialogue
\* of one token at least; the context kept is a leading part of what was given.
BudgetSound ==
  apDecision.mode \in {"lane", "total_prompt"} =>
    /\ Fixed + ContextCost(apDecision.lines) + apDecision.dialog <= ResolveMessageBudget(apCase)
    /\ apDecision.dialog >= 1

\* No turn, before or after the toolbox is opened, offers a tool that the
\* allowlist hides or the denylist names, and a strict turn cannot be widened.
ToolsAllowed ==
  /\ apTools \ {ToolboxToolName} \subseteq apCase.allowed \ apCase.denied
  /\ apCase.strict => ToolboxToolName \notin apTools /\ apTools \subseteq apCase.override

\* Markers are stable once emitted: appending any message to the window only
\* extends the annotated window (annotateDialogDays).
MarkersStable ==
  \A t \in MessageTimes :
    LET old == annotateDialogDays(apDialog) new == annotateDialogDays(Append(apDialog, t))
    IN Len(old) <= Len(new) /\ SubSeq(new, 1, Len(old)) = old

\* A shortened object keeps every short field, and no result is more than twice
\* its limit.
ResultsBounded ==
  LET out == compactToolResultForPrompt(apResult) IN
  /\ out.size <= 2 * MaxResult
  /\ out.how = "fields" => out.short = Len(ShortFields(apResult.fields))

\* The four guarantees of prompt assembly together.
PromptSound == BudgetSound /\ ToolsAllowed /\ MarkersStable /\ ResultsBounded
=============================================================================
