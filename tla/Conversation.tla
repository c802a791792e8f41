---------------------------- MODULE Conversation ----------------------------
(***************************************************************************)
(* One conversation of the gateway, a (user, soul) pair: everything that   *)
(* reads or writes its dialogue, and the three fences between them.        *)
(*                                                                         *)
(*   turnMu    the turn lock: interactive turns, autonomous drafts and     *)
(*             commits, background messages, /reset and exclusive commands *)
(*             hold it while they look at the session;                     *)
(*   act       the activity state, under a mutex of its own (actMu): a     *)
(*             message counts from its arrival at the transport, before    *)
(*             any turn has persisted it;                                  *)
(*   active    the cancel handle of the turn that runs.                    *)
(*                                                                         *)
(* Times are counted in admissions: `now' grows with every one, a row is   *)
(* stamped with it, and time.Time.After is ">".  Messages, drafts and rows *)
(* carry no text.                                                          *)
(***************************************************************************)
EXTENDS Naturals, Sequences, FiniteSets

CONSTANTS
    Msg,            \* messages that people send
    Pulse,          \* autonomous messages the soul may send
    DebounceCap,    \* Config.Gateway.DebounceCap
    MaxTools,       \* bound: tool rounds of a turn
    MaxBudget,      \* bound: disturbances (background messages, resets,
                    \* exclusive commands, crashes, failing calls)
    None, Draft, Commit, Note, Reset, Quiet   \* the other holders of the locks

ASSUME CapAssumption == DebounceCap \in Nat \ {0}
ASSUME BoundAssumption == MaxTools \in Nat /\ MaxBudget \in Nat
ASSUME NamesAssumption ==
    /\ IsFiniteSet(Msg) /\ IsFiniteSet(Pulse) /\ Msg \cap Pulse = {}
    /\ (Msg \cup Pulse) \cap {None, Draft, Commit, Note, Reset, Quiet} = {}
    /\ None \notin {Draft, Commit, Note, Reset, Quiet} /\ Draft \notin {Commit, Note, Reset, Quiet}
    /\ Commit \notin {Note, Reset, Quiet} /\ Note \notin {Reset, Quiet} /\ Reset # Quiet

Holder == Msg \cup {Draft, Commit, Note, Reset, Quiet, None}

VARIABLES
    act,        \* conversationActivityState: version, pending, last inbound
    actMu,      \* who holds its mutex over several steps
    turnMu,     \* who holds the turn lock
    active,     \* activeTurns[key]
    cancelled,  \* turns whose context is cancelled
    retired,    \* the in-memory mark of retireConversation
    unfinalized,\* UnfinalizedAutonomous
    msg,        \* per message: where it is, its admission version, its turn
    turn,       \* per turn, named after its first message
    draft,      \* DraftAutonomousTurn: where it is, what it has read
    commit,     \* CommitAutonomousTurn: where it is, and for which pulse
    note,       \* CoordinateTaskNotification
    reset,      \* the goroutine of /reset
    quiet,      \* the exclusive command
    session,    \* the active chat session
    dialog,     \* its rows
    pulse,      \* the journaled drafts
    confirmed,  \* journal rows confirmed as sent
    gone,       \* the account was reset to its first day
    visible,    \* pulses people can see
    now, boot, budget

memory == <<act, actMu, turnMu, active, cancelled, retired, unfinalized>>
actors == <<msg, turn, draft, commit, note, reset, quiet>>
store  == <<session, dialog, pulse, confirmed, gone>>
vars   == <<memory, actors, store, visible, now, boot, budget>>

-----------------------------------------------------------------------------
(* The session store (runtime/session) and the activity state. *)

Row(role, of, at) == [role |-> role, of |-> of, at |-> at]

HumanRows == {i \in 1..Len(dialog) : dialog[i].role = "user"}

\* The latest message of a person; tool results and pulses do not move it.
LatestUserMessageAnchor ==
    IF HumanRows = {} THEN Row("user", None, 0)
    ELSE dialog[CHOOSE i \in HumanRows : \A j \in HumanRows : j <= i]

\* The newest dialogue row: a second version number for drafts.
LatestDialogMessageID(rows) == Len(rows)

\* Mutant: a tool result is not taken for a row to answer.
EndsOnQuestion == dialog # <<>> /\ dialog[Len(dialog)].role = "user"

\* The newest row is a question or a tool result, both stored with role user.
EndsOnUser == dialog # <<>> /\ dialog[Len(dialog)].role \in {"user", "tool"}

InDialog(p) == \E i \in 1..Len(dialog) : dialog[i].of = p

\* Some order of a finite set.
Listed(S) == CHOOSE f \in [1..Cardinality(S) -> S] : \A x \in S : \E i \in DOMAIN f : f[i] = x

Token == <<boot, act.ver>>

\* Mutant: a message with a caption and a picture is counted twice.
AdmittedPerPart == [ver |-> act.ver + 1, pending |-> act.pending + 2, last |-> now + 1]

\* admitInboundActivity: a message counts from here on.
Admitted == [ver |-> act.ver + 1, pending |-> act.pending + 1, last |-> now + 1]

\* Mutant: one admission is retired per turn, not one per message.
CompletedOne(n, v, durable) ==
    LET left == IF act.pending > 1 THEN act.pending - 1 ELSE 0
    IN [act EXCEPT !.pending = left,
                   !.last = IF left = 0 /\ (~durable \/ act.ver > v) THEN 0 ELSE @]

\* completeInboundActivity, for a turn of n tracked messages, the latest of
\* them admitted as version v.
Completed(n, v, durable) ==
    LET left == IF act.pending > n THEN act.pending - n ELSE 0
    IN [act EXCEPT !.pending = left,
                   !.last = IF left = 0 /\ (~durable \/ act.ver > v) THEN 0 ELSE @]

\* rollbackInboundActivity, for the admission with version v.
RolledBack(v) ==
    LET left == IF act.pending > 0 THEN act.pending - 1 ELSE 0
    IN [act EXCEPT !.pending = left,
                   !.last = IF act.ver = v /\ left = 0 THEN 0 ELSE @]

\* A person has written since the anchor, as far as the gateway knows.
UserActive(anchor, a) == a.pending > 0 \/ a.last > anchor.at

Spend == budget > 0 /\ budget' = budget - 1

-----------------------------------------------------------------------------
(* ensureAutonomousHistoryLocked: pulses that were sent are in the dialogue  *)
(* before anything reads it.                                                 *)

\* Mutant: receipts that are only in memory are left out.
OwedConfirmed == {p \in confirmed : pulse[p].session = session /\ ~InDialog(p)}

\* Pulses of this session that were sent and are missing.
Owed == {p \in unfinalized \cup confirmed : pulse[p].session = session /\ ~InDialog(p)}

\* ProjectAutonomousHistoryAttempt, for each of the pulses S; a second projection
\* finds the row and adds nothing.
Projected(S) == dialog \o [i \in 1..Cardinality(S) |-> Row("assistant", Listed(S)[i], 0)]

EnsureHistory ==
    /\ confirmed' = confirmed \cup unfinalized
    /\ unfinalized' = {}
    /\ dialog' = Projected(Owed)

\* It fails at some receipt, after the ones before it were finalized, and before
\* or after the confirmation of that one; or later, among the confirmed rows.
EnsureHistoryFails ==
    \E done \in SUBSET unfinalized : \E also \in SUBSET (unfinalized \ done) :
        /\ Cardinality(also) <= 1
        /\ confirmed' = confirmed \cup done \cup also
        /\ unfinalized' = unfinalized \ done
        /\ \E S \in SUBSET (Owed \cap (confirmed \cup done)) :
              Owed \cap done \subseteq S /\ dialog' = Projected(S)

history == <<confirmed, unfinalized, dialog>>

-----------------------------------------------------------------------------
(* Messages on their way to a turn. *)

NoMsg  == [st |-> "new", ver |-> 0, lead |-> None]
NoTurn == [pc |-> "none", base |-> "nosession", screen |-> "none", end |-> "none"]

\* The messages B leave the gateway; their admission is forgotten.
Retired(B, st) == [m \in Msg |-> IF m \in B THEN [NoMsg EXCEPT !.st = st] ELSE msg[m]]

\* After a restart nothing leads to an account that is gone.
Reachable == gone => retired

\* prepareTelegramInbound, ProcessInbound, ProcessInboundForUser.
Admit(m) ==
    /\ msg[m].st = "new" /\ actMu = None /\ Reachable
    /\ act' = Admitted
    /\ now' = now + 1
    /\ msg' = [msg EXCEPT ![m].st = "prep", ![m].ver = act.ver + 1]
    /\ UNCHANGED <<actMu, turnMu, active, cancelled, retired, unfinalized, turn, draft,
                   commit, note, reset, quiet, store, visible, boot, budget>>

\* Nothing usable was in the message: the deferred rollback.
Unusable(m) ==
    /\ msg[m].st = "prep" /\ actMu = None
    /\ act' = RolledBack(msg[m].ver)
    /\ msg' = Retired({m}, "dropped")
    /\ UNCHANGED <<actMu, turnMu, active, cancelled, retired, unfinalized, turn, draft,
                   commit, note, reset, quiet, store, visible, now, boot, budget>>

Debounced == {m \in Msg : msg[m].st = "debounced"}

\* processMessages is called for the messages B, as the turn of one of them.
Dispatch(B, lead) ==
    /\ msg' = [m \in Msg |-> IF m \in B THEN [msg[m] EXCEPT !.st = "turn", !.lead = lead]
                             ELSE msg[m]]
    /\ turn' = [turn EXCEPT ![lead].pc = "queued"]

\* The web and voice transports start the turn at once.
StartTurn(m) ==
    /\ msg[m].st = "prep"
    /\ Dispatch({m}, m)
    /\ UNCHANGED <<memory, draft, commit, note, reset, quiet, store, visible, now, boot, budget>>

\* debouncer.Add: a full queue fires at once.
Debounce(m) ==
    /\ msg[m].st = "prep"
    /\ IF Cardinality(Debounced) + 1 >= DebounceCap
       THEN Dispatch(Debounced \cup {m}, m)
       ELSE msg' = [msg EXCEPT ![m].st = "debounced"] /\ UNCHANGED turn
    /\ UNCHANGED <<memory, draft, commit, note, reset, quiet, store, visible, now, boot, budget>>

\* fireNow, when the window has passed.
DebounceFires ==
    /\ \E lead \in Debounced : Dispatch(Debounced, lead)
    /\ UNCHANGED <<memory, draft, commit, note, reset, quiet, store, visible, now, boot, budget>>

-----------------------------------------------------------------------------
(* processMessages. *)

Batch(m) == {x \in Msg : msg[x].st = "turn" /\ msg[x].lead = m}

Tracked(m) == Cardinality(Batch(m))

LatestBatchVersion(m) ==
    CHOOSE v \in {msg[x].ver : x \in Batch(m)} : \A x \in Batch(m) : msg[x].ver <= v

\* Mutant: nobody looks at the mark.
NeverRetired == FALSE

conversationRetired == retired

\* A call under the turn's context fails: it is cancelled, or the store is down.
CallFails(m) == (m \in cancelled /\ UNCHANGED budget) \/ Spend

CallWorks(m) == m \notin cancelled /\ UNCHANGED budget

\* Queued for an account that was reset while it waited.
TurnDropped(m) ==
    /\ turn[m].pc = "queued" /\ turnMu = None /\ actMu = None
    /\ conversationRetired
    /\ act' = Completed(Tracked(m), LatestBatchVersion(m), FALSE)
    /\ msg' = Retired(Batch(m), "done")
    /\ turn' = [turn EXCEPT ![m].pc = "ended"]
    /\ UNCHANGED <<actMu, turnMu, active, cancelled, retired, unfinalized, draft,
                   commit, note, reset, quiet, store, visible, now, boot, budget>>

\* The lock, and beginTurn.
TurnBegins(m) ==
    /\ turn[m].pc = "queued" /\ turnMu = None
    /\ ~conversationRetired
    /\ turnMu' = m
    /\ active' = m
    /\ turn' = [turn EXCEPT ![m].pc = "begun"]
    /\ UNCHANGED <<act, actMu, cancelled, retired, unfinalized, msg, draft, commit, note,
                   reset, quiet, store, visible, now, boot, budget>>

\* The session, the history barrier, and the anchor before this turn.
TurnReady(m) ==
    /\ turn[m].pc = "begun"
    /\ EnsureHistory
    /\ \/ /\ turn' = [turn EXCEPT ![m].pc = "ready", ![m].base = LatestUserMessageAnchor.of]
          /\ CallWorks(m)
       \/ /\ turn' = [turn EXCEPT ![m].pc = "ready", ![m].base = "unknown"]
          /\ CallFails(m)
    /\ UNCHANGED <<act, actMu, turnMu, active, cancelled, retired, msg, draft, commit, note,
                   reset, quiet, session, pulse, gone, visible, now, boot>>

TurnNotReady(m) ==
    /\ turn[m].pc = "begun"
    /\ CallFails(m)
    /\ EnsureHistoryFails
    /\ turn' = [turn EXCEPT ![m].pc = "unwinding"]
    /\ UNCHANGED <<act, actMu, turnMu, active, cancelled, retired, msg, draft, commit, note,
                   reset, quiet, session, pulse, gone, visible, now, boot>>

TurnStep(m, from, to, rows) ==
    /\ turn[m].pc = from
    /\ turn' = [turn EXCEPT ![m].pc = to]
    /\ dialog' = dialog \o rows
    /\ UNCHANGED <<memory, msg, draft, commit, note, reset, quiet, session, pulse,
                   confirmed, gone, visible, now, boot>>

\* A silent rule, a missing prompt or a failed append ends the turn unasked.
TurnSilent(m) == TurnStep(m, "ready", "unwinding", <<>>) /\ UNCHANGED budget

\* The question is persisted, under the turn's context.
AskUser(m) == TurnStep(m, "ready", "asked", <<Row("user", m, now)>>) /\ CallWorks(m)

\* RunStream, one tool round: the calls are persisted, then the results. Both
\* writes outlive a cancelled turn (persistCtx).
ToolCalls(m) ==
    /\ Cardinality({i \in 1..Len(dialog) : dialog[i].role = "tool" /\ dialog[i].of = m}) < MaxTools
    /\ TurnStep(m, "asked", "tooling", <<Row("assistant", m, 0)>>)
    /\ UNCHANGED budget

ToolResults(m) == TurnStep(m, "tooling", "asked", <<Row("tool", m, 0)>>) /\ UNCHANGED budget

\* The provider fails, also because the turn was cancelled, or a write does.
ModelFails(m) ==
    \/ TurnStep(m, "asked", "unwinding", <<>>) /\ CallFails(m)
    \/ TurnStep(m, "tooling", "unwinding", <<>>) /\ Spend

\* A chunk of the answer reaches the screen.
StreamText(m) ==
    /\ turn[m].pc = "asked" /\ turn[m].screen = "none"
    /\ turn' = [turn EXCEPT ![m].screen = "partial"]
    /\ UNCHANGED <<memory, msg, draft, commit, note, reset, quiet, store, visible, now, boot,
                   budget>>

Delivered(m, rows) ==
    /\ turn[m].pc = "asked"
    /\ turn' = [turn EXCEPT ![m].pc = "unwinding", ![m].screen = "full"]
    /\ dialog' = dialog \o rows
    /\ UNCHANGED <<memory, msg, draft, commit, note, reset, quiet, session, pulse,
                   confirmed, gone, visible, now, boot>>

\* The answer is persisted, then delivered; a stop no longer prevents either. A
\* turn that has spent its tool budget ends on the results.
Answer(m) ==
    /\ \/ Delivered(m, <<Row("assistant", m, 0)>>)
       \/ dialog # <<>> /\ dialog[Len(dialog)].role = "tool" /\ Delivered(m, <<>>)
    /\ UNCHANGED budget

\* The fast tier's answer is persisted under the turn's context, and delivered
\* whether that worked or not (runInteraction).
ReflexAnswer(m) ==
    \/ Delivered(m, <<Row("assistant", m, 0)>>) /\ CallWorks(m)
    \/ Delivered(m, <<>>) /\ CallFails(m)

\* The deferred functions, in their order. First the activity.
CompleteActivity(m) ==
    /\ turn[m].pc = "unwinding" /\ actMu = None
    /\ \E durable \in BOOLEAN :
         /\ \/ UNCHANGED budget
               /\ durable = (/\ turn[m].base \notin {"nosession", "unknown"}
                             /\ LatestUserMessageAnchor.of \notin {None, turn[m].base})
            \/ durable = FALSE /\ Spend
         /\ act' = Completed(Tracked(m), LatestBatchVersion(m), durable)
    /\ msg' = Retired(Batch(m), "done")
    /\ turn' = [turn EXCEPT ![m].pc = "settling"]
    /\ UNCHANGED <<actMu, turnMu, active, cancelled, retired, unfinalized, draft, commit, note,
                   reset, quiet, store, visible, now, boot>>

\* Mutant: the message stays as the reader saw it.
SettledAsSeen(screen, recorded) == screen

\* telegramPreview.settle: what stays on the screen of an unfinished answer.
Settled(screen, recorded) == IF screen = "partial" /\ ~recorded THEN "none" ELSE screen

Settling(m, recorded, end) ==
    turn' = [turn EXCEPT ![m].pc = "closing", ![m].end = end,
                         ![m].screen = Settled(@, recorded)]

\* Then the interrupted answer (persistInterrupted) and the screen.
SettleTurn(m) ==
    /\ turn[m].pc = "settling"
    /\ LET interrupted == m \in cancelled /\ turn[m].base # "nosession" IN
       \/ ~interrupted /\ Settling(m, TRUE, "clean") /\ UNCHANGED <<dialog, budget>>
       \/ /\ interrupted /\ EndsOnUser /\ UNCHANGED budget
          /\ dialog' = Append(dialog, Row("assistant", m, 0))
          /\ Settling(m, TRUE, "marked")
       \/ /\ interrupted /\ ~EndsOnUser /\ UNCHANGED <<dialog, budget>>
          /\ Settling(m, FALSE, "unasked")
       \/ interrupted /\ Spend /\ Settling(m, FALSE, "unmarked") /\ UNCHANGED dialog
    /\ UNCHANGED <<memory, msg, draft, commit, note, reset, quiet, session, pulse, confirmed,
                   gone, visible, now, boot>>

\* Mutant: a stopped turn returns without the lock being released.
EndTurnHoldingLock(m) ==
    /\ turn[m].pc = "closing"
    /\ turn' = [turn EXCEPT ![m].pc = "ended", ![m].base = "nosession"]
    /\ active' = IF active = m THEN None ELSE active
    /\ cancelled' = cancelled \ {m}
    /\ turnMu' = IF m \in cancelled THEN turnMu ELSE None
    /\ UNCHANGED <<act, actMu, retired, unfinalized, msg, draft, commit, note, reset,
                   quiet, store, visible, now, boot, budget>>

\* Then the handle and the lock.
EndTurn(m) ==
    /\ turn[m].pc = "closing"
    /\ turn' = [turn EXCEPT ![m].pc = "ended", ![m].base = "nosession"]
    /\ active' = IF active = m THEN None ELSE active
    /\ cancelled' = cancelled \ {m}
    /\ turnMu' = None
    /\ UNCHANGED <<act, actMu, retired, unfinalized, msg, draft, commit, note, reset,
                   quiet, store, visible, now, boot, budget>>

\* CancelTurn, from a stop button with the id of its turn or from /stop.
CancelTurn(id) ==
    /\ active # None /\ id \in {None, active}
    /\ cancelled' = cancelled \cup {active}
    /\ UNCHANGED <<act, actMu, turnMu, active, retired, unfinalized, actors, store, visible,
                   now, boot, budget>>

TurnSteps(m) ==
    \/ TurnReady(m) \/ TurnNotReady(m) \/ TurnSilent(m) \/ AskUser(m)
    \/ ToolCalls(m) \/ ToolResults(m) \/ ModelFails(m) \/ StreamText(m)
    \/ Answer(m) \/ ReflexAnswer(m) \/ CompleteActivity(m) \/ SettleTurn(m) \/ EndTurn(m)

TurnStarts(m) == TurnDropped(m) \/ TurnBegins(m)

-----------------------------------------------------------------------------
(* DraftAutonomousTurn. *)

NoDraft == [pc |-> "idle", anchor |-> None, rows |-> 0, token |-> <<0, 0>>, seen |-> 0]

NewPulse == {p \in Pulse : pulse[p].st = "none"}

\* The scheduler names the message the pulse would follow.
DraftRequested ==
    /\ draft.pc = "idle" /\ NewPulse # {} /\ LatestUserMessageAnchor.of # None
    /\ draft' = [draft EXCEPT !.pc = "waiting", !.anchor = LatestUserMessageAnchor.of]
    /\ UNCHANGED <<memory, msg, turn, commit, note, reset, quiet, store, visible, now, boot, budget>>

DraftLock ==
    /\ draft.pc = "waiting" /\ turnMu = None
    /\ IF conversationRetired
       THEN draft' = NoDraft /\ UNCHANGED turnMu
       ELSE draft' = [draft EXCEPT !.pc = "locked"] /\ turnMu' = Draft
    /\ UNCHANGED <<act, actMu, active, cancelled, retired, unfinalized, msg, turn, commit, note,
                   reset, quiet, store, visible, now, boot, budget>>

\* The dialogue the draft is written against, if nobody is active.
DraftReads ==
    /\ draft.pc = "locked" /\ actMu = None
    /\ EnsureHistory
    /\ IF LatestUserMessageAnchor.of # draft.anchor \/ UserActive(LatestUserMessageAnchor, act)
       THEN draft' = NoDraft /\ turnMu' = None
       ELSE /\ draft' = [draft EXCEPT !.pc = "thinking", !.token = Token, !.seen = now,
                                      !.rows = LatestDialogMessageID(dialog')]
            /\ UNCHANGED turnMu
    /\ UNCHANGED <<act, actMu, active, cancelled, retired, msg, turn, commit, note, reset, quiet,
                   session, pulse, gone, visible, now, boot, budget>>

DraftBarred ==
    /\ draft.pc = "locked" /\ Spend
    /\ EnsureHistoryFails
    /\ draft' = NoDraft
    /\ turnMu' = None
    /\ UNCHANGED <<act, actMu, active, cancelled, retired, msg, turn, commit, note, reset, quiet,
                   session, pulse, gone, visible, now, boot>>

\* The draft is dropped if a person became active while the model wrote it.
DraftEnds ==
    /\ draft.pc = "thinking" /\ actMu = None
    /\ \/ UNCHANGED pulse
       \/ /\ ~UserActive(LatestUserMessageAnchor, act) /\ Token = draft.token
          /\ \E p \in NewPulse :
               pulse' = [pulse EXCEPT ![p] = [st |-> "drafted", session |-> session, draft |-> draft]]
    /\ draft' = NoDraft
    /\ turnMu' = None
    /\ UNCHANGED <<act, actMu, active, cancelled, retired, unfinalized, msg, turn, commit, note,
                   reset, quiet, session, dialog, confirmed, gone, visible, now, boot, budget>>

-----------------------------------------------------------------------------
(* CommitAutonomousTurn, for a journaled draft. *)

NoCommit == [pc |-> "idle", of |-> None]

\* The row is closed; its draft is not read again.
PulseIs(p, st) == pulse' = [pulse EXCEPT ![p].st = st, ![p].draft = NoDraft]

CommitLock(p) ==
    /\ commit.pc = "idle" /\ pulse[p].st = "drafted" /\ turnMu = None
    /\ IF conversationRetired
       THEN PulseIs(p, "refused") /\ UNCHANGED <<commit, turnMu>>
       ELSE /\ commit' = [pc |-> "locked", of |-> p]
            /\ turnMu' = Commit
            /\ UNCHANGED pulse
    /\ UNCHANGED <<act, actMu, active, cancelled, retired, unfinalized, msg, turn, draft, note,
                   reset, quiet, session, dialog, confirmed, gone, visible, now, boot, budget>>

\* Mutant: the activity token is not compared.
StaleWithoutToken(d, rows) ==
    \/ LatestUserMessageAnchor.of # d.anchor
    \/ UserActive(LatestUserMessageAnchor, act)
    \/ LatestDialogMessageID(rows) # d.rows

\* The draft no longer fits the conversation.
Stale(d, rows) ==
    \/ LatestUserMessageAnchor.of # d.anchor
    \/ UserActive(LatestUserMessageAnchor, act)
    \/ Token # d.token
    \/ LatestDialogMessageID(rows) # d.rows

\* The send starts with the activity mutex held: nobody is admitted during it.
CommitChecks ==
    LET p == commit.of IN
    /\ commit.pc = "locked" /\ actMu = None
    /\ \/ /\ session # pulse[p].session
          /\ PulseIs(p, "refused") /\ commit' = NoCommit /\ turnMu' = None
          /\ UNCHANGED <<history, actMu, budget>>
       \/ /\ session = pulse[p].session
          /\ Spend /\ EnsureHistoryFails
          /\ commit' = NoCommit /\ turnMu' = None
          /\ UNCHANGED <<pulse, actMu>>
       \/ /\ session = pulse[p].session
          /\ EnsureHistory
          /\ IF Stale(pulse[p].draft, dialog')
             THEN PulseIs(p, "refused") /\ commit' = NoCommit /\ turnMu' = None /\ UNCHANGED actMu
             ELSE commit' = [commit EXCEPT !.pc = "sending"] /\ actMu' = Commit
                  /\ UNCHANGED <<pulse, turnMu>>
          /\ UNCHANGED budget
    /\ UNCHANGED <<act, active, cancelled, retired, msg, turn, draft, note, reset, quiet,
                   session, gone, visible, now, boot>>

\* SendToUserOnce. A failure is definite, for now or for good, or it leaves the
\* outcome unknown.
CommitSends ==
    LET p == commit.of IN
    /\ commit.pc = "sending"
    /\ actMu' = None
    /\ \/ /\ visible' = visible \cup {p}
          /\ commit' = [commit EXCEPT !.pc = "sent"]
          /\ UNCHANGED <<pulse, turnMu, budget>>
       \/ /\ Spend /\ commit' = NoCommit /\ turnMu' = None
          /\ \/ UNCHANGED <<pulse, visible>>
             \/ PulseIs(p, "refused") /\ UNCHANGED visible
             \/ PulseIs(p, "uncertain") /\ visible' \in {visible, visible \cup {p}}
    /\ UNCHANGED <<act, active, cancelled, retired, unfinalized, msg, turn, draft, note, reset,
                   quiet, session, dialog, confirmed, gone, now, boot>>

\* rememberAutonomousFinalization and the eager append, whose failure is logged.
CommitRemembers ==
    /\ commit.pc = "sent"
    /\ unfinalized' = unfinalized \cup {commit.of}
    /\ \/ dialog' = Append(dialog, Row("assistant", commit.of, 0)) /\ UNCHANGED budget
       \/ UNCHANGED dialog /\ Spend
    /\ commit' = [commit EXCEPT !.pc = "remembered"]
    /\ UNCHANGED <<act, actMu, turnMu, active, cancelled, retired, msg, turn, draft, note, reset,
                   quiet, session, pulse, confirmed, gone, visible, now, boot>>

\* The durable finalization; the receipt is returned whether it worked or not.
CommitEnds ==
    /\ commit.pc = "remembered"
    /\ \/ EnsureHistory /\ UNCHANGED budget
       \/ EnsureHistoryFails /\ Spend
    /\ PulseIs(commit.of, "sent")
    /\ commit' = NoCommit
    /\ turnMu' = None
    /\ UNCHANGED <<act, actMu, active, cancelled, retired, msg, turn, draft, note, reset, quiet,
                   session, gone, visible, now, boot>>

\* The dispatcher of the journal confirms the receipt it was given.
JournalConfirms(p) ==
    /\ pulse[p].st = "sent" /\ p \notin confirmed
    /\ confirmed' = confirmed \cup {p}
    /\ UNCHANGED <<memory, actors, session, dialog, pulse, gone, visible, now, boot, budget>>

-----------------------------------------------------------------------------
(* SendConversationMessage and CoordinateTaskNotification. *)

NoteLock ==
    /\ note = "idle" /\ turnMu = None /\ Reachable /\ Spend
    /\ IF conversationRetired THEN UNCHANGED <<note, turnMu>>
       ELSE note' = "locked" /\ turnMu' = Note
    /\ UNCHANGED <<act, actMu, active, cancelled, retired, unfinalized, msg, turn, draft, commit,
                   reset, quiet, store, visible, now, boot>>

NoteChecks ==
    /\ note = "locked" /\ actMu = None
    /\ \/ /\ EnsureHistory
          /\ UNCHANGED budget
          /\ IF act.pending > 0 THEN note' = "idle" /\ turnMu' = None /\ UNCHANGED actMu
             ELSE note' = "sending" /\ actMu' = Note /\ UNCHANGED turnMu
       \/ EnsureHistoryFails /\ Spend /\ note' = "idle" /\ turnMu' = None /\ UNCHANGED actMu
    /\ UNCHANGED <<act, active, cancelled, retired, msg, turn, draft, commit, reset, quiet,
                   session, pulse, gone, visible, now, boot>>

\* The message is sent and appended; an append that fails is only logged.
NoteDelivers ==
    /\ note = "sending"
    /\ \/ dialog' = Append(dialog, Row("assistant", Note, 0)) /\ UNCHANGED budget
       \/ UNCHANGED dialog /\ Spend
    /\ note' = "idle" /\ actMu' = None /\ turnMu' = None
    /\ UNCHANGED <<act, active, cancelled, retired, unfinalized, msg, turn, draft, commit, reset,
                   quiet, session, pulse, confirmed, gone, visible, now, boot>>

-----------------------------------------------------------------------------
(* /reset: admitted like a message, then ResetSession in a goroutine. *)

NoReset == [pc |-> "idle", ver |-> 0]

ResetAdmitted ==
    /\ reset.pc = "idle" /\ actMu = None /\ Reachable /\ Spend
    /\ act' = Admitted
    /\ now' = now + 1
    /\ reset' = [pc |-> "waiting", ver |-> act.ver + 1]
    /\ UNCHANGED <<actMu, turnMu, active, cancelled, retired, unfinalized, msg, turn, draft,
                   commit, note, quiet, store, visible, boot>>

ResetLock ==
    /\ reset.pc = "waiting" /\ turnMu = None
    /\ reset' = [reset EXCEPT !.pc = "locked"]
    /\ turnMu' = Reset
    /\ UNCHANGED <<act, actMu, active, cancelled, retired, unfinalized, msg, turn, draft,
                   commit, note, quiet, store, visible, now, boot, budget>>

\* The session is archived and a new one opened. If only the second fails, the
\* next lookup opens it.
ResetSession ==
    /\ reset.pc = "locked"
    /\ turnMu' = None
    /\ \/ /\ confirmed' = confirmed \cup unfinalized /\ unfinalized' = {}
          /\ session' = session + 1 /\ dialog' = <<>>
          /\ \/ reset' = [reset EXCEPT !.pc = "done"] /\ UNCHANGED budget
             \/ reset' = [reset EXCEPT !.pc = "failed"] /\ Spend
       \/ /\ EnsureHistoryFails /\ Spend
          /\ reset' = [reset EXCEPT !.pc = "failed"]
          /\ UNCHANGED session
    /\ UNCHANGED <<act, actMu, active, cancelled, retired, msg, turn, draft, commit, note, quiet,
                   pulse, gone, visible, now, boot>>

\* clearInboundActivityCount, or the rollback.
ResetEnds ==
    /\ reset.pc \in {"done", "failed"} /\ actMu = None
    /\ act' = IF reset.pc = "failed" THEN RolledBack(reset.ver)
              ELSE [act EXCEPT !.pending = IF @ > 1 THEN @ - 1 ELSE 0]
    /\ reset' = NoReset
    /\ UNCHANGED <<actMu, turnMu, active, cancelled, retired, unfinalized, msg, turn, draft,
                   commit, note, quiet, store, visible, now, boot, budget>>

-----------------------------------------------------------------------------
(* An exclusive host command: quietConversation, then perhaps a restart of   *)
(* the account.                                                              *)

QuietAsked ==
    /\ quiet = "idle" /\ Reachable /\ Spend
    /\ quiet' = "stopping"
    /\ UNCHANGED <<memory, msg, turn, draft, commit, note, reset, store, visible, now, boot>>

\* The stop is repeated while waiting, for a turn that started meanwhile.
QuietStops ==
    /\ quiet = "stopping"
    /\ active # None /\ active \notin cancelled
    /\ cancelled' = cancelled \cup {active}
    /\ UNCHANGED <<act, actMu, turnMu, active, retired, unfinalized, actors, store, visible, now,
                   boot, budget>>

QuietLock ==
    /\ quiet = "stopping" /\ turnMu = None
    /\ quiet' = "quiet"
    /\ turnMu' = Quiet
    /\ UNCHANGED <<act, actMu, active, cancelled, retired, unfinalized, msg, turn, draft, commit,
                   note, reset, store, visible, now, boot, budget>>

\* ErrConversationBusy after quietWait.
QuietGivesUp ==
    /\ quiet = "stopping"
    /\ quiet' = "idle"
    /\ UNCHANGED <<memory, msg, turn, draft, commit, note, reset, store, visible, now, boot, budget>>

\* The host deletes the account; the mark is set before the lock is released.
QuietRestarts ==
    /\ quiet = "quiet"
    /\ gone' = TRUE /\ retired' = TRUE
    /\ session' = session + 1 /\ dialog' = <<>>
    /\ quiet' = "idle" /\ turnMu' = None
    /\ UNCHANGED <<act, actMu, active, cancelled, unfinalized, msg, turn, draft, commit, note,
                   reset, pulse, confirmed, visible, now, boot, budget>>

QuietReleases ==
    /\ quiet = "quiet"
    /\ quiet' = "idle" /\ turnMu' = None
    /\ UNCHANGED <<act, actMu, active, cancelled, retired, unfinalized, msg, turn, draft, commit,
                   note, reset, store, visible, now, boot, budget>>

-----------------------------------------------------------------------------

\* The process dies and comes back: what was in memory is lost, and the boot id
\* of the activity tokens changes.
Crash ==
    /\ Spend
    /\ act' = [ver |-> 0, pending |-> 0, last |-> 0]
    /\ actMu' = None /\ turnMu' = None /\ active' = None
    /\ cancelled' = {} /\ retired' = FALSE /\ unfinalized' = {}
    /\ boot' = boot + 1
    /\ msg' = Retired({m \in Msg : msg[m].st \in {"prep", "debounced", "turn"}}, "dropped")
    /\ turn' = [m \in Msg |-> IF turn[m].pc \in {"none", "ended"} THEN turn[m]
                              ELSE [turn[m] EXCEPT !.pc = "ended", !.end = "crashed",
                                                   !.base = "nosession"]]
    /\ draft' = NoDraft /\ commit' = NoCommit /\ note' = "idle" /\ reset' = NoReset /\ quiet' = "idle"
    /\ pulse' = [p \in Pulse |->
                   IF p = commit.of \/ (pulse[p].st = "sent" /\ p \notin confirmed)
                   THEN [pulse[p] EXCEPT !.st = "uncertain", !.draft = NoDraft] ELSE pulse[p]]
    /\ UNCHANGED <<session, dialog, confirmed, gone, visible, now>>

Init ==
    /\ act = [ver |-> 0, pending |-> 0, last |-> 0]
    /\ actMu = None /\ turnMu = None /\ active = None
    /\ cancelled = {} /\ retired = FALSE /\ unfinalized = {}
    /\ msg = [m \in Msg |-> NoMsg]
    /\ turn = [m \in Msg |-> NoTurn]
    /\ draft = NoDraft /\ commit = NoCommit /\ note = "idle" /\ reset = NoReset /\ quiet = "idle"
    /\ session = 1 /\ dialog = <<>>
    /\ pulse = [p \in Pulse |-> [st |-> "none", session |-> 0, draft |-> NoDraft]]
    /\ confirmed = {} /\ gone = FALSE /\ visible = {}
    /\ now = 0 /\ boot = 1 /\ budget = MaxBudget

MessageStep(m) == Admit(m) \/ Unusable(m) \/ StartTurn(m) \/ Debounce(m)
DraftStep  == DraftLock \/ DraftReads \/ DraftBarred \/ DraftEnds
CommitStep == CommitChecks \/ CommitSends \/ CommitRemembers \/ CommitEnds
NoteStep   == NoteChecks \/ NoteDelivers
ResetStep  == ResetLock \/ ResetSession \/ ResetEnds
QuietStep  == QuietStops \/ QuietLock \/ QuietGivesUp \/ QuietRestarts \/ QuietReleases

Next ==
    \/ \E m \in Msg : MessageStep(m) \/ TurnStarts(m) \/ TurnSteps(m)
    \/ DebounceFires
    \/ \E id \in Msg \cup {None} : CancelTurn(id)
    \/ DraftRequested \/ DraftStep
    \/ \E p \in Pulse : CommitLock(p) \/ JournalConfirms(p)
    \/ CommitStep
    \/ NoteLock \/ NoteStep
    \/ ResetAdmitted \/ ResetStep
    \/ QuietAsked \/ QuietStep
    \/ Crash

Spec == Init /\ [][Next]_vars

\* Whoever holds the turn lock goes on, and sync.Mutex does not starve a waiter.
FairSpec ==
    /\ Spec
    /\ \A m \in Msg : WF_vars(TurnSteps(m)) /\ SF_vars(TurnStarts(m))
    /\ WF_vars(DraftStep) /\ WF_vars(CommitStep) /\ WF_vars(NoteStep)
    /\ WF_vars(ResetStep) /\ WF_vars(QuietStep)

-----------------------------------------------------------------------------
(* Properties. *)

\* The type invariant.
TypeOK ==
    /\ act \in [ver : Nat, pending : 0..Cardinality(Msg) + 1, last : 0..now]
    /\ actMu \in {None, Commit, Note} /\ turnMu \in Holder
    /\ active \in Msg \cup {None} /\ cancelled \subseteq Msg
    /\ unfinalized \subseteq Pulse /\ confirmed \subseteq visible /\ visible \subseteq Pulse
    /\ \A m \in Msg : msg[m].ver \in Nat /\ msg[m].lead \in Msg \cup {None}
    /\ \A i \in 1..Len(dialog) : dialog[i].of \in Msg \cup Pulse \cup {Note}

\* Pending counts the admitted messages that no turn has retired, exactly: a
\* count that drifted up would silence the soul, one that drifted down would let
\* a pulse cut in front of a waiting message.
PendingIsExact ==
    act.pending = Cardinality({m \in Msg : msg[m].st \in {"prep", "debounced", "turn"}})
                    + (IF reset.pc = "idle" THEN 0 ELSE 1)

\* A pulse goes out only into the dialogue it was written for: since its draft
\* nobody was admitted, not even a message that was dropped again, no row was
\* added, and the session is the same (CommitAutonomousTurn, "Version stays
\* monotonic so every older autonomous draft remains stale").
PulseFitsDialogue ==
    [][\A p \in visible' \ visible :
         LET d == pulse[p].draft IN
           /\ d.seen = now /\ act.pending = 0
           /\ pulse[p].session = session /\ d.rows = Len(dialog)]_vars

\* The model never runs on a dialogue that omits a pulse people can see, unless
\* its delivery was uncertain ("running Cortex on a dialogue that omits its own
\* visible message would break conversational continuity").
DialogueComplete ==
    (draft.pc = "thinking" \/ \E m \in Msg : turn[m].pc \in {"ready", "asked", "tooling"}) =>
        \A p \in visible :
            pulse[p].session = session /\ pulse[p].st # "uncertain" => InDialog(p)

\* The question of a stopped turn is never left without an answer for the next
\* turn to trip over ("a user message with no reply breaks the next provider
\* call"), wherever the stop falls, unless the store refused the marker.
StoppedTurnAnswered ==
    \A i \in 1..Len(dialog) : \A m \in Msg :
        /\ dialog[i].of = m /\ dialog[i].role \in {"user", "tool"}
        /\ turn[m].end \in {"marked", "unasked"}
        => i < Len(dialog) /\ dialog[i + 1].of = m

\* Half an answer stays on the screen of a stopped turn only if the transcript
\* has it (telegramPreview.settle).
StoppedScreenRecorded ==
    \A m \in Msg :
        turn[m].screen = "partial" /\ turn[m].end \in {"marked", "unasked", "unmarked"}
            => turn[m].end = "marked"

\* The conversation's own state in every step: the types, and a pending count
\* that is the number of messages and commands still to be served.
ConversationSound == TypeOK /\ PendingIsExact

\* A stop leaves transcript and screen agreeing: the question is answered, and
\* what stays on the screen is in the transcript.
StoppedTurnRecorded == StoppedTurnAnswered /\ StoppedScreenRecorded

\* Once an account was reset nothing speaks for it any more: no row is written
\* and no pulse goes out, whatever was queued when the command took the lock
\* (retireConversation).
RetiredIsSilent == [][gone => UNCHANGED <<dialog, visible>>]_vars

\* Every turn that was dispatched ends: no order of the locks and no stop leaves
\* a conversation waiting for good.
TurnsEnd == \A m \in Msg : turn[m].pc = "queued" ~> turn[m].pc = "ended"
=============================================================================
