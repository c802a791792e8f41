----------------------------- MODULE TaskProgram -----------------------------
(* A recurring task with a typed program (internal/core/task_program.go,       *)
(* runtime/handler/task_program.go and the delivery branch of background.go):  *)
(* deterministic inputs are called in order, keyed items that the delivery     *)
(* ledger already knows are filtered out, the rest reach the model under       *)
(* one-time tokens, and only what its reply acknowledges is handed to the      *)
(* notification journal together with the text.  Two claims of the same task   *)
(* may overlap, so a lookup can be stale when its items are sent.  The journal *)
(* itself is NotificationJournal; here it is its reservation and its outbox.   *)
EXTENDS Naturals, Sequences, FiniteSets, SequencesExt

CONSTANTS
    Programs,        \* programs a task may carry
    ItemKeys,        \* item keys a source may return
    ProgramWorkers,  \* claims that may overlap
    MaxTicks         \* ticks a worker may start

ASSUME ProgramConstants ==
    /\ \A p \in Programs : Len(p.inputs) > 0 /\ p.decision.mode \in {"none", "selected"}
    /\ MaxTicks \in Nat

VARIABLES
    tpProg,      \* the task's program
    tpRun,       \* worker -> its run
    tpTicks,     \* worker -> ticks started
    tpOwned,     \* refs delivered or owned by a durable attempt
    tpOutbox,    \* intents not yet sent: [refs, covers]
    tpShown,     \* ref -> times a text that stands for it was sent
    tpSent       \* intents ever reserved

programVars == <<tpProg, tpRun, tpTicks, tpOwned, tpOutbox, tpShown, tpSent>>

InputIds(p) == {p.inputs[i].id : i \in DOMAIN p.inputs}
Refs(p) == InputIds(p) \X ItemKeys
Resting == [pc |-> "idle", at |-> 0, results |-> <<>>, refs |-> {}, calls |-> 0,
            acked |-> {}, covers |-> {}, end |-> "none"]

-----------------------------------------------------------------------------
(* The program.                                                               *)

\* A program the task may run: ids are unique, activation names enabled
\* inputs, a program without a decision lists no tools, and neither an input
\* nor the decision may call message_send.
ValidProgram(p) ==
    /\ \A i, j \in DOMAIN p.inputs : p.inputs[i].id = p.inputs[j].id => i = j
    /\ \A i \in DOMAIN p.inputs : p.inputs[i].tool # "message_send"
    /\ (p.activation.mode = "always") <=> (p.activation.ids = {})
    /\ p.activation.ids \subseteq {p.inputs[i].id : i \in {j \in DOMAIN p.inputs : p.inputs[j].enabled}}
    /\ p.decision.mode = "none" => p.decision.tools = {}
    /\ "message_send" \notin p.decision.tools

\* Every tool the program needs is looked up before the first call: a missing
\* decision tool, or a missing input that must not fail, stops the run.
Preflight(p) ==
    /\ p.decision.mode = "selected" => p.decision.tools \subseteq p.registry
    /\ \A i \in DOMAIN p.inputs :
          p.inputs[i].enabled /\ p.inputs[i].tool \notin p.registry => p.inputs[i].onError = "continue"

NonEmpty(results, id) == results[id] = "data"

ActivationMet(p, results) ==
    CASE p.activation.mode = "always" -> TRUE
      [] p.activation.mode = "any" -> \E id \in p.activation.ids : NonEmpty(results, id)
      [] p.activation.mode = "all" -> \A id \in p.activation.ids : NonEmpty(results, id)

-----------------------------------------------------------------------------
(* One input. A source answers an error or nothing, plain data, keyed items,  *)
(* or keys where none are allowed.                                            *)

Outputs ==
    {[kind |-> k, keys |-> {}] : k \in {"error", "oversize", "plain", "empty", "misplaced"}}
    \cup [kind : {"keyed"}, keys : SUBSET ItemKeys \ {{}}]

\* Keyed items the ledger does not know; a misplaced key, a reserved field or
\* an item key of the wrong shape fails the whole run.
FilterDeliveries(id, out) == ({id} \X out.keys) \ tpOwned

ToolResult(id, out) ==
    CASE out.kind \in {"error", "oversize"} -> "error"
      [] out.kind = "plain" -> "data"
      [] out.kind = "empty" -> "empty"
      [] out.kind = "keyed" -> IF FilterDeliveries(id, out) = {} THEN "empty" ELSE "data"

Set(w, run) == tpRun' = [tpRun EXCEPT ![w] = run]
Ended(run, how) == [run EXCEPT !.pc = "idle", !.end = how]

\* A tick: the program is validated, quiet hours come before any tool, and the
\* preflight before the first call.
StartTick(w) ==
    /\ tpRun[w].pc = "idle" /\ tpTicks[w] < MaxTicks
    /\ tpTicks' = [tpTicks EXCEPT ![w] = @ + 1]
    /\ LET fresh == [Resting EXCEPT !.results = [id \in InputIds(tpProg) |-> "none"]]
       IN  IF ~ ValidProgram(tpProg) THEN Set(w, Ended(fresh, "error"))
           ELSE \/ tpProg.quiet /\ Set(w, Ended(fresh, "quiet"))
                \/ Set(w, IF Preflight(tpProg) THEN [fresh EXCEPT !.pc = "inputs", !.at = 1]
                          ELSE Ended(fresh, "error"))
    /\ UNCHANGED <<tpProg, tpOwned, tpOutbox, tpShown, tpSent>>

\* The next input: skipped when disabled, an error result when its tool is
\* missing, otherwise called and filtered through the ledger.
RunInput(w) ==
    LET run == tpRun[w]
        input == tpProg.inputs[run.at]
        next == [run EXCEPT !.at = @ + 1,
                            !.pc = IF run.at = Len(tpProg.inputs) THEN "decide" ELSE "inputs"]
    IN  /\ run.pc = "inputs"
        /\ IF ~ input.enabled THEN Set(w, next)
           ELSE IF input.tool \notin tpProg.registry
                THEN Set(w, [next EXCEPT !.results[input.id] = "error"])
           ELSE \E out \in Outputs :
                  LET called == [next EXCEPT !.calls = @ + 1]
                  IN  IF out.kind = "misplaced"
                         \/ (out.kind \in {"error", "oversize"} /\ input.onError = "fail")
                      THEN Set(w, Ended(called, "error"))
                      ELSE Set(w, [called EXCEPT !.results[input.id] = ToolResult(input.id, out),
                                                 !.refs = @ \cup FilterDeliveries(input.id, out)])
        /\ UNCHANGED <<tpProg, tpTicks, tpOwned, tpOutbox, tpShown, tpSent>>

\* No decision, or nothing to decide about: the tick is done without a model.
Decide(w) ==
    LET run == tpRun[w]
    IN  /\ run.pc = "decide"
        /\ Set(w, IF tpProg.decision.mode = "none" \/ ~ ActivationMet(tpProg, run.results)
                  THEN Ended(run, "skipped") ELSE [run EXCEPT !.pc = "model"])
        /\ UNCHANGED <<tpProg, tpTicks, tpOwned, tpOutbox, tpShown, tpSent>>

-----------------------------------------------------------------------------
(* The reply. An acknowledgment line is absent, broken, names a token the run *)
(* never issued, or names a set of issued ones; the text stands for the       *)
(* items the line names.                                                      *)

Acks(run) ==
    {[line |-> l, refs |-> {}] : l \in {"absent", "broken", "foreign"}}
    \cup [line : {"set"}, refs : SUBSET run.refs]

\* The refs an acknowledgment yields, or nothing when it is not valid. With a
\* single item and no control line at all the text is taken to be about it.
ConsumeDeliveryAck(run, ack) ==
    IF ack.line = "set" THEN ack.refs
    ELSE IF ack.line = "absent" /\ Cardinality(run.refs) = 1 THEN run.refs
    ELSE {}

\* What the reply turns into: blank, unfinished, refused, silent, or a text.
\* The text goes out as written, as a digest, or through the persona.
Reply(w) ==
    LET run == tpRun[w]
    IN  /\ run.pc = "model"
        /\ \/ Set(w, Ended(run, "error"))                    \* the model call failed
           \/ Set(w, Ended(run, "unfinished"))               \* no [DONE]: nothing is sent
           \/ Set(w, Ended(run, "blank"))
           \/ \E ack \in Acks(run), long \in BOOLEAN, marked \in BOOLEAN :
                LET acked == ConsumeDeliveryAck(run, ack)
                    silent == ~ tpProg.notifyDefault /\ ~ marked
                    \* with one item and no line, the text is about that item
                    about == IF ack.line = "set" THEN ack.refs
                             ELSE IF ack.line = "absent" THEN run.refs ELSE {}
                IN  IF run.refs # {} /\ acked = {} THEN Set(w, Ended(run, "error"))
                    ELSE IF silent THEN Set(w, Ended(run, "silent"))
                    ELSE IF acked # {} /\ (tpProg.voice \/ long) THEN Set(w, Ended(run, "error"))
                    ELSE Set(w, [run EXCEPT !.pc = "validate", !.acked = acked, !.covers = about])
        /\ UNCHANGED <<tpProg, tpTicks, tpOwned, tpOutbox, tpShown, tpSent>>

KeepsTextNever(run, rewritten) == TRUE               \* mutant: rewrites pass

\* The outgoing prose is validated. An error or an empty replacement ends the
\* run in an error; a rewritten text may go only if no delivery hangs on it.
KeepsText(run, rewritten) == rewritten => run.acked = {}

ValidateNotification(w) ==
    LET run == tpRun[w]
    IN  /\ run.pc = "validate"
        /\ \/ Set(w, Ended(run, "error"))
           \/ \E rewritten \in BOOLEAN :
                IF KeepsText(run, rewritten)
                THEN Set(w, [run EXCEPT !.pc = "deliver", !.covers = IF rewritten THEN {} ELSE @])
                ELSE Set(w, Ended(run, "error"))
        /\ UNCHANGED <<tpProg, tpTicks, tpOwned, tpOutbox, tpShown, tpSent>>

-----------------------------------------------------------------------------
(* The journal's side: a reservation takes all the refs or none, one send is  *)
(* tried, and an attempt that surely did not go out is drained later from its *)
(* own text.                                                                  *)

Show(intent) == tpShown' = [r \in DOMAIN tpShown |-> IF r \in intent.refs THEN tpShown[r] + 1
                                                     ELSE tpShown[r]]

Deliver(w) ==
    LET run == tpRun[w]
        intent == [refs |-> run.acked, covers |-> run.covers]
    IN  /\ run.pc = "deliver"
        /\ Set(w, Ended(run, "done"))
        /\ IF run.acked = {} \/ run.acked \cap tpOwned # {}
           THEN UNCHANGED <<tpOwned, tpOutbox, tpShown, tpSent>>
           ELSE /\ tpOwned' = tpOwned \cup run.acked
                /\ tpSent' = tpSent \cup {intent}
                /\ \/ Show(intent) /\ UNCHANGED tpOutbox
                   \/ tpOutbox' = tpOutbox \cup {intent} /\ UNCHANGED tpShown
        /\ UNCHANGED <<tpProg, tpTicks>>

DrainOutbox ==
    \E intent \in tpOutbox :
        /\ tpOutbox' = tpOutbox \ {intent} /\ Show(intent)
        /\ UNCHANGED <<tpProg, tpRun, tpTicks, tpOwned, tpSent>>

ProgramInit ==
    /\ tpProg \in Programs
    /\ tpRun = [w \in ProgramWorkers |-> Resting]
    /\ tpTicks = [w \in ProgramWorkers |-> 0]
    /\ tpOwned = {} /\ tpOutbox = {} /\ tpSent = {}
    /\ tpShown = [r \in Refs(tpProg) |-> 0]

ProgramEnded ==
    /\ \A w \in ProgramWorkers : tpRun[w].pc = "idle" /\ tpTicks[w] = MaxTicks
    /\ tpOutbox = {} /\ UNCHANGED programVars

ProgramNext ==
    \/ \E w \in ProgramWorkers :
          \/ StartTick(w) \/ RunInput(w) \/ Decide(w) \/ Reply(w)
          \/ ValidateNotification(w) \/ Deliver(w)
    \/ DrainOutbox
    \/ ProgramEnded

ProgramSpec == ProgramInit /\ [][ProgramNext]_programVars

-----------------------------------------------------------------------------
(* Properties                                                                 *)

\* No item is announced twice, even when two claims looked it up before either
\* of them reserved it.
ItemOnce == \A r \in DOMAIN tpShown : tpShown[r] <= 1

\* The text that goes out for a reservation stands for every item it marks:
\* digests, the persona's wording and a validator's rewrite never carry refs.
TextCoversItems == \A i \in tpSent : i.refs \subseteq i.covers

\* A tick that failed, was skipped or stayed silent consumes nothing: an item
\* is owned only through an intent that was reserved.
OnlySendingConsumes == tpOwned = UNION {i.refs : i \in tpSent}

\* A program that cannot run in full does not start: a failed preflight leaves
\* no tool called.
PreflightFirst ==
    \A w \in ProgramWorkers :
        tpRun[w].calls > 0 => /\ tpProg.decision.tools \subseteq tpProg.registry
                              /\ ValidProgram(tpProg)

\* What a tick of a program promises: each item is announced once, by a text that
\* stands for it, and a tick that sends nothing consumes nothing.
ProgramSound == ItemOnce /\ TextCoversItems /\ OnlySendingConsumes /\ PreflightFirst
=============================================================================
