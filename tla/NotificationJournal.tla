-------------------------- MODULE NotificationJournal --------------------------
(***************************************************************************)
(* The durable notification outbox of one agent task: the journal table    *)
(* (agent_task_notification_attempts), its reservation items, the delivery *)
(* ledger (agent_task_deliveries), the workers that drive one provider     *)
(* call each (task goroutines and outbox drainers), and the projection of  *)
(* confirmed autonomous turns into the chat history.                       *)
(*                                                                         *)
(* A journal row is identified by the set of delivery refs it reserves: the*)
(* table is UNIQUE (task_id, occurrence_key) and the key is a hash of the  *)
(* sorted set.  Every store method is one PostgreSQL transaction, hence one*)
(* step; a caller may see an error although its transaction committed.     *)
(***************************************************************************)
EXTENDS Naturals, FiniteSets

CONSTANTS
    Ref,          \* delivery refs (input_id, item_key) of the task
    Group,        \* the ref sets a notification may cover
    Autonomous,   \* the groups whose text is an autonomous-turn marker
    Worker,       \* goroutines that dispatch notifications
    None,
    MaxClaims     \* bound: the provider defers a row only below this count

ASSUME GroupAssumption == Group \subseteq (SUBSET Ref) \ {{}}
ASSUME AutonomousAssumption == Autonomous \subseteq Group
ASSUME NoneAssumption == None \notin Group
ASSUME MaxClaimsAssumption == MaxClaims \in Nat

VARIABLES
    state,        \* journal row state, "absent" before the INSERT
    owner,        \* reservation items: which row holds a ref
    ledger,       \* refs in agent_task_deliveries
    attempts,     \* attempt_count
    due,          \* next_attempt_at has passed
    projected,    \* rows with autonomous_history_projected_at set
    history,      \* rows whose two chat messages exist
    messageCount, \* chat_sessions.message_count contributed by them
    unfinalized,  \* gateway memory: acknowledged, not yet finalized
    pc, job, outcome, tries,   \* per worker
    shown         \* how often the provider accepted the row's text

journal == <<state, owner, ledger, attempts, due>>
chat    == <<projected, history, messageCount>>
worker  == <<pc, job, outcome, tries>>
vars    == <<journal, chat, unfinalized, worker, shown>>

MaxConfirms == 3   \* maxNotificationConfirmAttempts

Terminal == {"sent", "uncertain", "rejected"}
States   == {"absent", "dispatching", "retryable"} \cup Terminal
Outcomes == {"ok", "permanent", "deferred", "unknown"}

TypeOK ==
    /\ state \in [Group -> States]
    /\ owner \in [Ref -> Group \cup {None}]
    /\ ledger \in SUBSET Ref
    /\ attempts \in [Group -> Nat]
    /\ due \in [Group -> BOOLEAN]
    /\ projected \in SUBSET Autonomous
    /\ history \in SUBSET Autonomous
    /\ messageCount \in Nat
    /\ unfinalized \in SUBSET Autonomous
    /\ pc \in [Worker -> {"idle", "planned", "send", "append", "resolve"}]
    /\ job \in [Worker -> Group \cup {None}]
    /\ outcome \in [Worker -> Outcomes]
    /\ tries \in [Worker -> 0 .. MaxConfirms - 1]
    /\ shown \in [Group -> Nat]

Init ==
    /\ state = [g \in Group |-> "absent"]
    /\ owner = [r \in Ref |-> None]
    /\ ledger = {}
    /\ attempts = [g \in Group |-> 0]
    /\ due = [g \in Group |-> FALSE]
    /\ projected = {}
    /\ history = {}
    /\ messageCount = 0
    /\ unfinalized = {}
    /\ pc = [w \in Worker |-> "idle"]
    /\ job = [w \in Worker |-> None]
    /\ outcome = [w \in Worker |-> "unknown"]
    /\ tries = [w \in Worker |-> 0]
    /\ shown = [g \in Group |-> 0]

-----------------------------------------------------------------------------
(* Worker bookkeeping. *)

Goto(w, to) == pc' = [pc EXCEPT ![w] = to]

\* The goroutine is done with its notification and forgets it.
Release(w) ==
    /\ Goto(w, "idle")
    /\ job' = [job EXCEPT ![w] = None]
    /\ UNCHANGED <<outcome, tries>>

\* The reservation item of r is not taken: UNIQUE (task_id, input_id, item_key).
Free(r) == owner[r] = None

\* Mutant: a partial overlap is admitted.
SomeFree(g) == \E r \in g : Free(r)

\* Every item was inserted; otherwise the whole attempt rolls back.
AllFree(g) == \A r \in g : Free(r)

Reserve(g) == owner' = [r \in Ref |-> IF r \in g THEN g ELSE owner[r]]

-----------------------------------------------------------------------------
(* Admission: the task program, and the finalization transaction. *)

\* The task program reads the ledger and the reservations, drops what is
\* already owned and writes a message about the rest.
LookupDelivered(w, g) ==
    /\ pc[w] = "idle"
    /\ \A r \in g : r \notin ledger /\ Free(r)
    /\ Goto(w, "planned")
    /\ job' = [job EXCEPT ![w] = g]
    /\ UNCHANGED <<journal, chat, unfinalized, outcome, tries, shown>>

\* The row is new and every ref is free: intent and reservations commit
\* together.  responded = FALSE is a lost commit response: the caller gives
\* up and nobody will ever dispatch the row.
BeginCreated(w, responded) ==
    LET g == job[w] IN
    /\ pc[w] = "planned"
    /\ state[g] = "absent"
    /\ AllFree(g)
    /\ state' = [state EXCEPT ![g] = "dispatching"]
    /\ attempts' = [attempts EXCEPT ![g] = 1]
    /\ Reserve(g)
    /\ IF responded
       THEN Goto(w, "send") /\ UNCHANGED <<job, outcome, tries>>
       ELSE Release(w)
    /\ UNCHANGED <<ledger, due, chat, unfinalized, shown>>

\* created=false for an existing row; a partial overlap with another row
\* rolls back.  Neither caller may touch the transport.
BeginRefused(w) ==
    LET g == job[w] IN
    /\ pc[w] = "planned"
    /\ state[g] # "absent" \/ ~AllFree(g)
    /\ Release(w)
    /\ UNCHANGED <<journal, chat, unfinalized, shown>>

\* A finalized task queues its result as a retryable row that is due at once.
\* A conflicting row or ref fails the whole finalization transaction.
FinalizeTask(g) ==
    /\ state[g] = "absent"
    /\ AllFree(g)
    /\ state' = [state EXCEPT ![g] = "retryable"]
    /\ due' = [due EXCEPT ![g] = TRUE]
    /\ Reserve(g)
    /\ UNCHANGED <<ledger, attempts, chat, unfinalized, worker, shown>>

-----------------------------------------------------------------------------
(* Dispatch: one provider call per admission or claim. *)

\* Mutant: a row left dispatching by a dead worker is taken over.
ClaimableOrStuck(g) == state[g] = "dispatching" \/ (state[g] = "retryable" /\ due[g])

\* Mutant: an uncertain row is tried again.
ClaimableOrUncertain(g) == state[g] = "uncertain" \/ (state[g] = "retryable" /\ due[g])

Claimable(g) == state[g] = "retryable" /\ due[g]

\* A drainer takes a due retryable row.  A lost response leaves the row
\* dispatching without an owner: it is never reclaimed.
ClaimRetryableNotification(w, g, responded) ==
    /\ pc[w] = "idle"
    /\ Claimable(g)
    /\ \E r \in Ref : owner[r] = g
    /\ state' = [state EXCEPT ![g] = "dispatching"]
    /\ attempts' = [attempts EXCEPT ![g] = @ + 1]
    /\ due' = [due EXCEPT ![g] = FALSE]
    /\ IF responded
       THEN /\ Goto(w, "send")
            /\ job' = [job EXCEPT ![w] = g]
            /\ UNCHANGED <<outcome, tries>>
       ELSE UNCHANGED worker
    /\ UNCHANGED <<owner, ledger, chat, unfinalized, shown>>

\* The single-attempt transport call, with the checks in front of it (task
\* lookup, owner match, terminal task, delivery validator, sender present):
\* those only ever answer "not sent".  An unknown outcome may hide a delivery.
Notify(w, o, delivered) ==
    LET g == job[w] IN
    /\ pc[w] = "send"
    /\ o = "ok" => delivered
    /\ o \in {"permanent", "deferred"} => ~delivered
    /\ o = "deferred" => attempts[g] < MaxClaims
    /\ shown' = [shown EXCEPT ![g] = IF delivered THEN @ + 1 ELSE @]
    /\ outcome' = [outcome EXCEPT ![w] = o]
    /\ tries' = [tries EXCEPT ![w] = 0]
    /\ Goto(w, IF o = "ok" /\ g \in Autonomous THEN "append" ELSE "resolve")
    /\ UNCHANGED <<journal, chat, unfinalized, job>>

-----------------------------------------------------------------------------
(* Chat history of autonomous turns. *)

\* Mutant: the counter ignores ON CONFLICT DO NOTHING.
RowsAlways(g) == 2

\* Boundary and assistant row, unless their ids are already there.
RowsInserted(g) == IF g \in history THEN 0 ELSE 2

\* Both chat rows have ids derived from the attempt id: a second insert does
\* nothing, and the counter grows by the number of rows really inserted.
InsertTurn(g) ==
    /\ history' = history \cup {g}
    /\ messageCount' = messageCount + RowsInserted(g)

\* After the provider's acknowledgement the gateway remembers the receipt,
\* then appends the turn eagerly; a failed append is only logged.
AppendAutonomousAssistant(w, appended) ==
    LET g == job[w] IN
    /\ pc[w] = "append"
    /\ unfinalized' = unfinalized \cup {g}
    /\ IF appended THEN InsertTurn(g) ELSE UNCHANGED <<history, messageCount>>
    /\ Goto(w, "resolve")
    /\ UNCHANGED <<journal, projected, job, outcome, tries, shown>>

\* Mutant: a row that is still dispatching counts as confirmed.
ProjectableEarly(g) == state[g] \in {"dispatching", "sent"} /\ g \notin projected

Projectable(g) == state[g] = "sent" /\ g \notin projected

\* Projection of one confirmed row; a marked row is left alone.
ProjectTx(g) ==
    /\ Projectable(g)
    /\ InsertTurn(g)
    /\ projected' = projected \cup {g}

\* The reconciler and every conversation turn project what is still pending.
ReconcileAutonomousHistory(g) ==
    /\ ProjectTx(g)
    /\ UNCHANGED <<journal, unfinalized, worker, shown>>

-----------------------------------------------------------------------------
(* Resolution: record what the provider answered. *)

\* Mutant: the receipt is stored without the ledger rows.
NoRefs(g) == {}

ReservedRefs(g) == {r \in Ref : owner[r] = g}

\* Effect of ConfirmNotificationAttempt's transaction.
ConfirmTx(g) ==
    \/ /\ state[g] = "dispatching"
       /\ state' = [state EXCEPT ![g] = "sent"]
       /\ ledger' = ledger \cup ReservedRefs(g)
       /\ UNCHANGED <<owner, attempts, due>>
    \/ /\ state[g] = "sent"
       /\ UNCHANGED journal

Confirm(w) ==
    /\ pc[w] = "resolve"
    /\ outcome[w] = "ok"
    /\ ConfirmTx(job[w])
    /\ Release(w)
    /\ UNCHANGED <<chat, unfinalized, shown>>

\* Mutant: one confirm too many.
OneMoreConfirm(w) == tries[w] < MaxConfirms

ConfirmAgain(w) == tries[w] + 1 < MaxConfirms

\* The confirm reported an error, committed or not.  The worker tries again
\* up to MaxConfirms times unless its budget is spent.
ConfirmFailed(w, committed, budget) ==
    /\ pc[w] = "resolve"
    /\ outcome[w] = "ok"
    /\ IF committed THEN ConfirmTx(job[w]) ELSE UNCHANGED journal
    /\ IF budget /\ ConfirmAgain(w)
       THEN /\ tries' = [tries EXCEPT ![w] = @ + 1]
            /\ UNCHANGED <<pc, job, outcome>>
       ELSE Release(w)
    /\ UNCHANGED <<chat, unfinalized, shown>>

\* A not-delivered outcome is recorded once; an error is not retried.
\* RejectNotificationAttempt, DeferNotificationAttempt and
\* MarkNotificationUncertain change the row only while it is dispatching.
Record(w, o, to, committed) ==
    LET g == job[w] IN
    /\ pc[w] = "resolve"
    /\ outcome[w] = o
    /\ state' = IF committed /\ state[g] = "dispatching"
                THEN [state EXCEPT ![g] = to] ELSE state
    /\ Release(w)
    /\ UNCHANGED <<owner, ledger, attempts, due, chat, unfinalized, shown>>

RejectNotificationAttempt(w, committed) == Record(w, "permanent", "rejected", committed)
DeferNotificationAttempt(w, committed)  == Record(w, "deferred", "retryable", committed)

\* Mutant: an ambiguous timeout is treated as not sent.
RetryUnknown(w, committed) == Record(w, "unknown", "retryable", committed)

MarkNotificationUncertain(w, committed) == Record(w, "unknown", "uncertain", committed)

\* A later turn of the same conversation closes the acknowledge-to-confirm
\* window from the gateway's memory: confirm, then project, then forget.
FinalizeConfirm(g) ==
    /\ g \in unfinalized
    /\ ConfirmTx(g)
    /\ UNCHANGED <<chat, unfinalized, worker, shown>>

FinalizeProject(g) ==
    /\ g \in unfinalized
    /\ ProjectTx(g) \/ (g \in projected /\ UNCHANGED chat)
    /\ unfinalized' = unfinalized \ {g}
    /\ UNCHANGED <<journal, worker, shown>>

-----------------------------------------------------------------------------
(* Environment. *)

\* next_attempt_at passes.
RetryTimePasses(g) ==
    /\ state[g] = "retryable"
    /\ ~due[g]
    /\ due' = [due EXCEPT ![g] = TRUE]
    /\ UNCHANGED <<state, owner, ledger, attempts, chat, unfinalized, worker, shown>>

\* The daemon dies: goroutines and gateway memory are gone, tables stay.
Crash ==
    /\ \/ \E w \in Worker : pc[w] # "idle"
       \/ unfinalized # {}
    /\ pc' = [w \in Worker |-> "idle"]
    /\ job' = [w \in Worker |-> None]
    /\ unfinalized' = {}
    /\ UNCHANGED <<journal, chat, outcome, tries, shown>>

WorkerStep(w) ==
    \/ \E g \in Group : LookupDelivered(w, g)
    \/ \E ok \in BOOLEAN : BeginCreated(w, ok)
    \/ BeginRefused(w)
    \/ \E g \in Group, ok \in BOOLEAN : ClaimRetryableNotification(w, g, ok)
    \/ \E o \in Outcomes, seen \in BOOLEAN : Notify(w, o, seen)
    \/ \E ok \in BOOLEAN : AppendAutonomousAssistant(w, ok)
    \/ Confirm(w)
    \/ \E done, budget \in BOOLEAN : ConfirmFailed(w, done, budget)
    \/ \E done \in BOOLEAN : RejectNotificationAttempt(w, done)
    \/ \E done \in BOOLEAN : DeferNotificationAttempt(w, done)
    \/ \E done \in BOOLEAN : MarkNotificationUncertain(w, done)

RowStep(g) ==
    \/ FinalizeTask(g)
    \/ RetryTimePasses(g)
    \/ g \in Autonomous /\ ReconcileAutonomousHistory(g)
    \/ FinalizeConfirm(g)
    \/ FinalizeProject(g)

Next ==
    \/ \E w \in Worker : WorkerStep(w)
    \/ \E g \in Group : RowStep(g)
    \/ Crash

Spec == Init /\ [][Next]_vars

-----------------------------------------------------------------------------
(* Properties. *)

\* No ref is put in front of the person twice: two accepted rows never share
\* a ref and no row is accepted twice, whatever crashes, lost responses and
\* concurrent drainers do (the journal's at-most-once promise).
AtMostOnceShown ==
    \A g, h \in Group :
        (shown[g] > 0 /\ shown[h] > 0 /\ g \cap h # {}) => (g = h /\ shown[g] = 1)

\* A row waiting for a retry was certainly never delivered: only conclusive
\* rejections reach 'retryable' (resolveTaskNotificationAttempt).
RetryableNeverShown ==
    \A g \in Group : state[g] \in {"retryable", "rejected"} => shown[g] = 0

\* The delivery ledger holds exactly the refs of the rows marked sent, and a
\* sent row was really delivered (ConfirmNotificationAttempt is atomic).
LedgerIsSent ==
    /\ ledger = UNION {g \in Group : state[g] = "sent"}
    /\ \A g \in Group : state[g] = "sent" => shown[g] = 1

\* The shared dialogue never contains an autonomous turn the person did not
\* get, and a projection marker always has its two chat rows.
HistoryOnlyShown ==
    /\ \A g \in history : shown[g] = 1
    /\ projected \subseteq history

\* Eager append, gateway finalization, reconciler and their retries count the
\* two rows of a turn once in the session counters.
HistoryCountedOnce == messageCount = 2 * Cardinality(history)

\* What the journal guarantees about deliveries in every state: the types,
\* nothing shown twice, nothing retried that was shown, and a truthful ledger
\* (BeginNotificationAttempt to ConfirmNotificationAttempt).
JournalSound ==
    /\ TypeOK
    /\ AtMostOnceShown
    /\ RetryableNeverShown
    /\ LedgerIsSent

\* What it guarantees about the shared dialogue: only delivered autonomous
\* turns are in it, and each is counted once (projectAutonomousTurn).
HistorySound == HistoryOnlyShown /\ HistoryCountedOnce

\* sent, uncertain and rejected are final: no path revives such a row.
TerminalIsFinal ==
    [][\A g \in Group : state[g] \in Terminal => state'[g] = state[g]]_vars

\* The journal implements at-most-once delivery of occurrences.
Abstract == INSTANCE OccurrenceDelivery WITH
    holder <- owner, receipts <- shown, acked <- ledger

ImplementsOccurrenceDelivery == Abstract!Spec
=============================================================================
