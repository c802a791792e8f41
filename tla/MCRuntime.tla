------------------------------ MODULE MCRuntime ------------------------------
(* The agent runtime, component by component: a behaviour picks one of them   *)
(* and runs it from any of its initial states while the others rest in one    *)
(* of theirs, so that every guarantee is checked of every component in one    *)
(* exploration.                                                               *)
EXTENDS AgentLoop, SessionHistory, AgentPrompt, ResearchWorker, TaskProgram, GoalPlan

VARIABLE part      \* the component that runs

Response(stop, text, uses) == [stop |-> stop, text |-> text, uses |-> uses]
MCResponses ==
    {Response("end_turn", TRUE, <<>>), Response("end_turn", FALSE, <<>>),
     Response("max_tokens", TRUE, <<>>), Response("max_tokens", FALSE, <<>>),
     Response("max_tokens", TRUE, <<"write">>), Response("refusal", FALSE, <<>>),
     Response("tool_use", FALSE, <<>>), Response("tool_use", TRUE, <<"write">>),
     Response("tool_use", FALSE, <<"read", "foreign">>), Response("tool_use", FALSE, <<"toolbox">>)}

PlainRun == [stream |-> FALSE, validator |-> FALSE, ephemeral |-> FALSE, strict |-> FALSE,
             toolbox |-> FALSE, promptOnly |-> FALSE, reasoning |-> FALSE, deadline |-> FALSE,
             quiet |-> FALSE, batch |-> FALSE, maxTurns |-> 2, toolLimit |-> 1]
MCAgentConfigs ==
    {PlainRun, [PlainRun EXCEPT !.stream = TRUE],
     [PlainRun EXCEPT !.validator = TRUE, !.deadline = TRUE, !.batch = TRUE, !.maxTurns = 1],
     [PlainRun EXCEPT !.stream = TRUE, !.validator = TRUE, !.reasoning = TRUE, !.strict = TRUE],
     [PlainRun EXCEPT !.stream = TRUE, !.ephemeral = TRUE, !.promptOnly = TRUE, !.quiet = TRUE],
     [PlainRun EXCEPT !.toolbox = TRUE, !.strict = TRUE, !.toolLimit = 2, !.maxTurns = 1]}

Budgets(explicit, config, window, minimum) ==
    [explicit |-> explicit, model |-> 0, config |-> config, window |-> window, minimum |-> minimum]
PromptCase(budgets, lane, system, lines, extra, allowed, expansion, strict) ==
    [budgets |-> budgets, lane |-> lane, system |-> system, schema |-> 1, lines |-> lines, felt |-> 0,
     extra |-> extra, override |-> {"a", "b"}, allowed |-> allowed, denied |-> {"b"},
     expansion |-> expansion, strict |-> strict]
\* Every way to budget a call, then every way to restrict its tools.
MCPromptCases ==
    {PromptCase(budgets, lane, system, lines, extra, {"a", "b", "c"}, {}, FALSE) :
        budgets \in {Budgets(8, 0, 0, 0), Budgets(0, 5, 9, 0), Budgets(0, 0, 9, 4), Budgets(0, 0, 0, 0)},
        lane \in {0, 3}, system \in {1, 4}, lines \in {<<>>, <<1>>, <<1, 2>>, <<2, 2, 1>>}, extra \in {0, 2}}
    \cup
    {PromptCase(Budgets(8, 0, 0, 0), 0, 1, <<>>, 0, allowed, expansion, strict) :
        allowed \in {{"a", "b", "c"}, {"b", "c"}}, expansion \in {{}, {"b", "c"}}, strict \in BOOLEAN}
MCResults ==
    {[fields |-> fields, error |-> error] :
        fields \in {<<1, 1>>, <<1, 1, 9>>, <<1, 5, 5>>, <<9, 9, 9>>, <<2, 2, 2, 2>>, <<9>>},
        error \in BOOLEAN}

MCWorkerConfigs ==
    {[max |-> 4, gate |-> TRUE, hooks |-> TRUE, deadline |-> TRUE],
     [max |-> 4, gate |-> FALSE, hooks |-> FALSE, deadline |-> FALSE],
     [max |-> 4, gate |-> FALSE, hooks |-> TRUE, deadline |-> FALSE]}
Asked(id) == [id |-> id, done |-> FALSE]
\* The planner numbers its steps or leaves that to the parser; in the last two
\* it numbers one of them, so that both carry one id, and finishes one itself.
MCPlannerPlans ==
    {[steps |-> <<Asked(0), Asked(0)>>, cur |-> 0], [steps |-> <<Asked(2), Asked(1)>>, cur |-> 1],
     [steps |-> <<Asked(2), Asked(0)>>, cur |-> 0],
     [steps |-> <<[id |-> 3, done |-> TRUE], Asked(1)>>, cur |-> 3]}
MCPatchOps ==
    {[op |-> "add", id |-> 0, after |-> 1, known |-> TRUE],
     [op |-> "add", id |-> 1, after |-> 0, known |-> FALSE],
     [op |-> "remove", id |-> 1], [op |-> "update", id |-> 2]}

Input(id, tool, enabled, onError) == [id |-> id, tool |-> tool, enabled |-> enabled, onError |-> onError]
Mail(onError) == Input("mail", "mail_list", TRUE, onError)
Plain == [inputs |-> <<Mail("fail")>>, activation |-> [mode |-> "always", ids |-> {}],
          decision |-> [mode |-> "none", tools |-> {}], registry |-> {"mail_list"},
          quiet |-> FALSE, voice |-> FALSE, notifyDefault |-> TRUE]
MCPrograms ==
    {Plain,
     [Plain EXCEPT !.activation = [mode |-> "any", ids |-> {"mail"}], !.decision.mode = "selected"],
     [Plain EXCEPT !.inputs = <<Mail("continue"), Input("cal", "cal_list", TRUE, "continue")>>,
                   !.activation = [mode |-> "all", ids |-> {"mail"}],
                   !.decision = [mode |-> "selected", tools |-> {"note"}],
                   !.quiet = TRUE, !.voice = TRUE, !.notifyDefault = FALSE],
     [Plain EXCEPT !.inputs = <<Mail("continue"), Input("cal", "cal_list", FALSE, "fail")>>,
                   !.decision = [mode |-> "selected", tools |-> {"note"}],
                   !.registry = {"mail_list", "note"}, !.notifyDefault = FALSE],
     [Plain EXCEPT !.inputs = <<Input("mail", "message_send", TRUE, "fail")>>, !.registry = {"message_send"}]}

GoalStep(action, async, guarded) == [action |-> action, async |-> async, guarded |-> guarded]
Tool(async) == GoalStep("tool", async, FALSE)
Gate(guarded) == GoalStep("decide", FALSE, guarded)
Other(action) == GoalStep(action, FALSE, FALSE)
MCGoalPlans ==
    {<<Tool(TRUE), Other("wait"), Gate(TRUE), Tool(FALSE), Other("done")>>,
     <<Other("milestone"), Tool(TRUE), Other("wait"), Gate(FALSE), Tool(TRUE), Other("wait"), Gate(TRUE)>>,
     <<Other("wait"), Other("other"), Tool(FALSE), Other("wait"), Other("done")>>,
     <<Tool(TRUE), Other("milestone"), Other("wait"), Other("done")>>,
     <<Gate(FALSE), Other("wait"), Other("milestone"), Other("done")>>}

-----------------------------------------------------------------------------
AgentRests == AgentInit /\ alCfg = PlainRun /\ alConvo = <<>>
SessionRests == SessionInit /\ shSource = "chat" /\ ~ shTranslation
PromptRests == PromptInit /\ apCase = CHOOSE c \in PromptCases : TRUE
WorkerRests == WorkerInit /\ rwCfg = CHOOSE c \in WorkerConfigs : TRUE
ProgramRests == ProgramInit /\ tpProg = Plain

RuntimeInit ==
    /\ part \in {"agent", "session", "prompt", "worker", "program", "goal"}
    /\ IF part = "agent" THEN AgentInit ELSE AgentRests
    /\ IF part = "session" THEN SessionInit ELSE SessionRests
    /\ IF part = "prompt" THEN PromptInit ELSE PromptRests
    /\ IF part = "worker" THEN WorkerInit ELSE WorkerRests
    /\ IF part = "program" THEN ProgramInit ELSE ProgramRests
    /\ GoalInit

RuntimeNext ==
    \/ /\ part = "agent" /\ AgentNext
       /\ UNCHANGED <<part, sessionVars, promptVars, workerVars, programVars, goalVars>>
    \/ /\ part = "session" /\ SessionNext
       /\ UNCHANGED <<part, agentVars, promptVars, workerVars, programVars, goalVars>>
    \/ /\ part = "prompt" /\ PromptNext
       /\ UNCHANGED <<part, agentVars, sessionVars, workerVars, programVars, goalVars>>
    \/ /\ part = "worker" /\ WorkerNext
       /\ UNCHANGED <<part, agentVars, sessionVars, promptVars, programVars, goalVars>>
    \/ /\ part = "program" /\ ProgramNext
       /\ UNCHANGED <<part, agentVars, sessionVars, promptVars, workerVars, goalVars>>
    \/ /\ part = "goal" /\ GoalNext
       /\ UNCHANGED <<part, agentVars, sessionVars, promptVars, workerVars, programVars>>

RuntimeSpec ==
    RuntimeInit /\ [][RuntimeNext]_<<part, agentVars, sessionVars, promptVars, workerVars, programVars, goalVars>>
=============================================================================
