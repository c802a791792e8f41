----------------------- MODULE NotificationJournalProofs -----------------------
(* Theorems about the notification journal, for all sets of refs, groupings *)
(* and workers.                                                             *)
EXTENDS NotificationJournal, FiniteSetTheorems, TLAPS

(***************************************************************************)
(* The inductive invariant.  AtMostOnceShown is not inductive by itself: it*)
(* needs that a row owns its refs for good, that one worker at a time holds*)
(* a row, and what a worker's position says about the row it holds.        *)
(***************************************************************************)

\* A row in the table owns exactly its refs.
Reservations ==
    /\ \A g \in Group : state[g] # "absent" => \A r \in g : owner[r] = g
    /\ \A r \in Ref : owner[r] # None => r \in owner[r] /\ state[owner[r]] # "absent"

\* A worker beyond admission holds a row.
Holding(w) == pc[w] \in {"send", "append", "resolve"}

\* Only one worker holds a given row.
Exclusive ==
    \A v, w \in Worker : (Holding(v) /\ Holding(w) /\ job[v] = job[w]) => v = w

\* What the worker knows about its row.
Held(w) ==
    /\ pc[w] # "idle" => job[w] \in Group
    /\ pc[w] = "send" => state[job[w]] = "dispatching" /\ shown[job[w]] = 0
    /\ pc[w] = "append" => outcome[w] = "ok" /\ job[w] \in Autonomous
    /\ pc[w] \in {"append", "resolve"} =>
          \/ outcome[w] = "ok" /\ state[job[w]] \in {"dispatching", "sent"} /\ shown[job[w]] = 1
          \/ outcome[w] \in {"permanent", "deferred"}
             /\ state[job[w]] = "dispatching" /\ shown[job[w]] = 0
          \/ outcome[w] = "unknown" /\ state[job[w]] = "dispatching"

\* What the row's state says about the provider.
Evidence ==
    \A g \in Group :
        /\ shown[g] \in {0, 1}
        /\ state[g] \in {"absent", "retryable", "rejected"} => shown[g] = 0
        /\ state[g] = "sent" => shown[g] = 1

\* The gateway remembers only acknowledged rows, and no worker thinks
\* otherwise of them.
Remembered ==
    \A g \in unfinalized :
        /\ state[g] \in {"dispatching", "sent"}
        /\ shown[g] = 1
        /\ \A w \in Worker : (Holding(w) /\ job[w] = g) => outcome[w] = "ok" /\ pc[w] # "send"

\* The ledger repeats the sent rows.
Ledger == ledger = UNION {g \in Group : state[g] = "sent"}

\* Chat rows exist only for delivered rows; a marker implies its rows.
Chat ==
    /\ \A g \in history : shown[g] = 1
    /\ projected \subseteq history
    /\ \A g \in projected : state[g] = "sent"

IInv ==
    /\ TypeOK
    /\ Reservations
    /\ Exclusive
    /\ \A w \in Worker : Held(w)
    /\ Evidence
    /\ Remembered
    /\ Ledger
    /\ Chat

-----------------------------------------------------------------------------

\* The initial states satisfy the inductive invariant.
LEMMA InitIInv == Init => IInv
BY GroupAssumption, AutonomousAssumption, NoneAssumption
   DEF Init, IInv, TypeOK, States, Terminal, Outcomes, MaxConfirms, Reservations, Exclusive,
       Holding, Held, Evidence, Remembered, Ledger, Chat

\* LookupDelivered preserves the inductive invariant.
LEMMA LookupKeepsIInv ==
    ASSUME IInv, NEW w \in Worker, NEW g \in Group, LookupDelivered(w, g)
    PROVE  IInv'
<1> USE DEF LookupDelivered, Goto, journal, chat
<1>1. TypeOK'
  BY DEF IInv, TypeOK, States, Terminal
<1>2. Reservations'
  BY DEF IInv, Reservations
<1>3. Exclusive'
  BY DEF IInv, TypeOK, Exclusive, Holding
<1>4. \A v \in Worker : Held(v)'
  BY DEF IInv, TypeOK, Held
<1>5. Evidence'
  BY DEF IInv, Evidence
<1>6. Remembered'
  BY DEF IInv, TypeOK, Remembered, Holding
<1>7. Ledger'
  BY DEF IInv, Ledger
<1>8. Chat'
  BY DEF IInv, Chat
<1>9. QED
  BY <1>1, <1>2, <1>3, <1>4, <1>5, <1>6, <1>7, <1>8 DEF IInv

\* Creating a reservation preserves the inductive invariant.
LEMMA BeginCreatedKeepsIInv ==
    ASSUME IInv, NEW w \in Worker, NEW ok \in BOOLEAN, BeginCreated(w, ok)
    PROVE  IInv'
<1> DEFINE g == job[w]
<1> USE DEF BeginCreated, Goto, Release, Reserve, chat
<1>0. /\ g \in Group /\ g \subseteq Ref /\ g # {}
      /\ state[g] = "absent" /\ pc[w] = "planned"
  BY GroupAssumption DEF IInv, Held
<1>1. TypeOK'
  BY <1>0 DEF IInv, TypeOK, States, Terminal
<1>2. Reservations'
  <2>1. \A r \in g : owner[r] = None
    BY DEF AllFree, Free
  <2>2. ASSUME NEW h \in Group, state'[h] # "absent", NEW r \in h
        PROVE  owner'[r] = h
    <3>1. CASE h = g
      BY <1>0, <2>2, <3>1
    <3>2. CASE h # g
      <4>1. r \in Ref /\ owner[r] = h
        BY <1>0, <2>2, <3>2, GroupAssumption DEF IInv, TypeOK, Reservations
      <4>2. r \notin g
        BY <2>1, <4>1, NoneAssumption
      <4>3. QED
        BY <4>1, <4>2
    <3>3. QED
      BY <3>1, <3>2
  <2>3. ASSUME NEW r \in Ref, owner'[r] # None
        PROVE  r \in owner'[r] /\ state'[owner'[r]] # "absent"
    BY <1>0, <2>3 DEF IInv, TypeOK, Reservations
  <2>4. QED
    BY <2>2, <2>3 DEF Reservations
<1>3. Exclusive'
  BY <1>0 DEF IInv, TypeOK, Exclusive, Holding, Held
<1>4. \A v \in Worker : Held(v)'
  BY <1>0 DEF IInv, TypeOK, Held, Evidence
<1>5. Evidence'
  BY <1>0 DEF IInv, TypeOK, Evidence
<1>6. Remembered'
  BY <1>0 DEF IInv, TypeOK, Remembered, Holding
<1>7. Ledger'
  BY <1>0 DEF IInv, TypeOK, Ledger
<1>8. Chat'
  BY <1>0 DEF IInv, TypeOK, Chat
<1>9. QED
  BY <1>1, <1>2, <1>3, <1>4, <1>5, <1>6, <1>7, <1>8 DEF IInv

\* A refused reservation preserves the inductive invariant.
LEMMA BeginRefusedKeepsIInv ==
    ASSUME IInv, NEW w \in Worker, BeginRefused(w)
    PROVE  IInv'
<1> USE DEF BeginRefused, Goto, Release, journal, chat
<1>1. TypeOK'
  BY DEF IInv, TypeOK, States, Terminal
<1>2. Reservations'
  BY DEF IInv, TypeOK, Reservations
<1>3. Exclusive'
  BY DEF IInv, TypeOK, Exclusive, Holding
<1>4. \A v \in Worker : Held(v)'
  BY DEF IInv, TypeOK, Held
<1>5. Evidence'
  BY DEF IInv, TypeOK, Evidence
<1>6. Remembered'
  BY DEF IInv, TypeOK, Remembered, Holding
<1>7. Ledger'
  BY DEF IInv, TypeOK, Ledger
<1>8. Chat'
  BY DEF IInv, TypeOK, Chat
<1>9. QED
  BY <1>1, <1>2, <1>3, <1>4, <1>5, <1>6, <1>7, <1>8 DEF IInv

\* Claiming a retryable row preserves the inductive invariant.
LEMMA ClaimKeepsIInv ==
    ASSUME IInv, NEW w \in Worker, NEW g \in Group, NEW ok \in BOOLEAN,
           ClaimRetryableNotification(w, g, ok)
    PROVE  IInv'
<1> USE DEF ClaimRetryableNotification, Claimable, Goto, worker, chat
<1>1. TypeOK'
  BY DEF IInv, TypeOK, States, Terminal
<1>2. Reservations'
  BY DEF IInv, TypeOK, Reservations
<1>3. Exclusive'
  BY DEF IInv, TypeOK, Exclusive, Holding, Held
<1>4. \A v \in Worker : Held(v)'
  BY DEF IInv, TypeOK, Held, Evidence
<1>5. Evidence'
  BY DEF IInv, TypeOK, Evidence
<1>6. Remembered'
  BY DEF IInv, TypeOK, Remembered, Holding
<1>7. Ledger'
  BY DEF IInv, TypeOK, Ledger
<1>8. Chat'
  BY DEF IInv, TypeOK, Chat
<1>9. QED
  BY <1>1, <1>2, <1>3, <1>4, <1>5, <1>6, <1>7, <1>8 DEF IInv

\* The transport call preserves the inductive invariant.
LEMMA NotifyKeepsIInv ==
    ASSUME IInv, NEW w \in Worker, NEW o \in Outcomes, NEW seen \in BOOLEAN, Notify(w, o, seen)
    PROVE  IInv'
<1> DEFINE g == job[w]
<1> USE DEF Notify, Goto, journal, chat
<1>0. /\ g \in Group /\ pc[w] = "send"
      /\ state[g] = "dispatching" /\ shown[g] = 0
  BY DEF IInv, Held
<1>1. TypeOK'
  BY <1>0 DEF IInv, TypeOK, MaxConfirms
<1>2. Reservations'
  BY <1>0 DEF IInv, TypeOK, Reservations
<1>3. Exclusive'
  BY <1>0 DEF IInv, TypeOK, Exclusive, Holding
<1>4. \A v \in Worker : Held(v)'
  BY <1>0 DEF IInv, TypeOK, Held, Exclusive, Holding, Outcomes
<1>5. Evidence'
  BY <1>0 DEF IInv, TypeOK, Evidence
<1>6. Remembered'
  BY <1>0 DEF IInv, TypeOK, Remembered, Holding
<1>7. Ledger'
  BY <1>0 DEF IInv, TypeOK, Ledger
<1>8. Chat'
  BY <1>0 DEF IInv, TypeOK, Chat
<1>9. QED
  BY <1>1, <1>2, <1>3, <1>4, <1>5, <1>6, <1>7, <1>8 DEF IInv

\* The committed chat turn preserves the inductive invariant.
LEMMA AppendKeepsIInv ==
    ASSUME IInv, NEW w \in Worker, NEW ok \in BOOLEAN, AppendAutonomousAssistant(w, ok)
    PROVE  IInv'
<1> DEFINE g == job[w]
<1> USE DEF AppendAutonomousAssistant, InsertTurn, RowsInserted, Goto, journal
<1>0. /\ g \in Autonomous /\ g \in Group /\ pc[w] = "append" /\ outcome[w] = "ok"
      /\ state[g] \in {"dispatching", "sent"} /\ shown[g] = 1
  BY AutonomousAssumption DEF IInv, Held
<1>1. TypeOK'
  BY <1>0 DEF IInv, TypeOK, States, Terminal
<1>2. Reservations'
  BY <1>0 DEF IInv, TypeOK, Reservations
<1>3. Exclusive'
  BY <1>0 DEF IInv, TypeOK, Exclusive, Holding
<1>4. \A v \in Worker : Held(v)'
  BY <1>0 DEF IInv, TypeOK, Held
<1>5. Evidence'
  BY <1>0 DEF IInv, TypeOK, Evidence
<1>6. Remembered'
  BY <1>0 DEF IInv, TypeOK, Remembered, Exclusive, Holding
<1>7. Ledger'
  BY <1>0 DEF IInv, TypeOK, Ledger
<1>8. Chat'
  BY <1>0 DEF IInv, TypeOK, Chat
<1>9. QED
  BY <1>1, <1>2, <1>3, <1>4, <1>5, <1>6, <1>7, <1>8 DEF IInv

\* A confirmation preserves the inductive invariant.
LEMMA ConfirmKeepsIInv ==
    ASSUME IInv, NEW w \in Worker, Confirm(w)
    PROVE  IInv'
<1> DEFINE g == job[w]
<1> USE DEF Confirm, ConfirmTx, Goto, Release, journal, chat
<1>0. /\ g \in Group /\ pc[w] = "resolve" /\ outcome[w] = "ok"
      /\ state[g] \in {"dispatching", "sent"} /\ shown[g] = 1
  BY DEF IInv, Held
<1>1. TypeOK'
  BY <1>0 DEF IInv, TypeOK, States, Terminal, ReservedRefs
<1>2. Reservations'
  BY <1>0 DEF IInv, TypeOK, Reservations
<1>3. Exclusive'
  BY <1>0 DEF IInv, TypeOK, Exclusive, Holding
<1>4. \A v \in Worker : Held(v)'
  BY <1>0 DEF IInv, TypeOK, Held, Exclusive, Holding
<1>5. Evidence'
  BY <1>0 DEF IInv, TypeOK, Evidence
<1>6. Remembered'
  BY <1>0, AutonomousAssumption DEF IInv, TypeOK, Remembered, Holding
<1>7. Ledger'
  <2>1. CASE state[g] = "dispatching"
    <3>1. ReservedRefs(g) = g
      BY <1>0, <2>1, GroupAssumption, NoneAssumption DEF IInv, TypeOK, Reservations, ReservedRefs
    <3>2. {h \in Group : state'[h] = "sent"} = {h \in Group : state[h] = "sent"} \cup {g}
      BY <1>0, <2>1 DEF IInv, TypeOK
    <3>3. QED
      BY <1>0, <2>1, <3>1, <3>2 DEF IInv, Ledger
  <2>2. CASE state[g] = "sent"
    BY <1>0, <2>2 DEF IInv, Ledger
  <2>3. QED
    BY <1>0, <2>1, <2>2
<1>8. Chat'
  BY <1>0, AutonomousAssumption DEF IInv, TypeOK, Chat
<1>9. QED
  BY <1>1, <1>2, <1>3, <1>4, <1>5, <1>6, <1>7, <1>8 DEF IInv

\* A confirmation whose response is lost preserves the inductive invariant.
LEMMA ConfirmFailedKeepsIInv ==
    ASSUME IInv, NEW w \in Worker, NEW done \in BOOLEAN, NEW budget \in BOOLEAN,
           ConfirmFailed(w, done, budget)
    PROVE  IInv'
<1> DEFINE g == job[w]
<1> USE DEF ConfirmFailed, ConfirmTx, Goto, Release, journal, chat
<1>0. /\ g \in Group /\ pc[w] = "resolve" /\ outcome[w] = "ok"
      /\ state[g] \in {"dispatching", "sent"} /\ shown[g] = 1
  BY DEF IInv, Held
<1>1. TypeOK'
  BY <1>0 DEF IInv, TypeOK, States, Terminal, ReservedRefs, ConfirmAgain, MaxConfirms
<1>2. Reservations'
  BY <1>0 DEF IInv, TypeOK, Reservations
<1>3. Exclusive'
  BY <1>0 DEF IInv, TypeOK, Exclusive, Holding
<1>4. \A v \in Worker : Held(v)'
  BY <1>0 DEF IInv, TypeOK, Held, Exclusive, Holding
<1>5. Evidence'
  BY <1>0 DEF IInv, TypeOK, Evidence
<1>6. Remembered'
  BY <1>0, AutonomousAssumption DEF IInv, TypeOK, Remembered, Holding
<1>7. Ledger'
  <2>1. CASE done /\ state[g] = "dispatching"
    <3>1. ReservedRefs(g) = g
      BY <1>0, <2>1, GroupAssumption, NoneAssumption DEF IInv, TypeOK, Reservations, ReservedRefs
    <3>2. {h \in Group : state'[h] = "sent"} = {h \in Group : state[h] = "sent"} \cup {g}
      BY <1>0, <2>1 DEF IInv, TypeOK
    <3>3. QED
      BY <1>0, <2>1, <3>1, <3>2 DEF IInv, Ledger
  <2>2. CASE ~done \/ state[g] = "sent"
    BY <1>0, <2>2 DEF IInv, Ledger
  <2>3. QED
    BY <1>0, <2>1, <2>2
<1>8. Chat'
  BY <1>0, AutonomousAssumption DEF IInv, TypeOK, Chat
<1>9. QED
  BY <1>1, <1>2, <1>3, <1>4, <1>5, <1>6, <1>7, <1>8 DEF IInv

\* Recording a failed transport call preserves the inductive invariant.
LEMMA RecordKeepsIInv ==
    ASSUME IInv, NEW w \in Worker, NEW done \in BOOLEAN, NEW o, NEW to,
           Record(w, o, to, done),
           <<o, to>> \in {<<"permanent", "rejected">>, <<"deferred", "retryable">>,
                          <<"unknown", "uncertain">>}
    PROVE  IInv'
<1> DEFINE g == job[w]
<1> USE DEF Record, Goto, Release, chat
<1>0. /\ g \in Group /\ pc[w] = "resolve" /\ outcome[w] = o /\ state[g] = "dispatching"
      /\ o # "ok" /\ to \in {"rejected", "retryable", "uncertain"}
      /\ to # "uncertain" => shown[g] = 0
  BY DEF IInv, Held
<1>1. TypeOK'
  BY <1>0 DEF IInv, TypeOK, States, Terminal
<1>2. Reservations'
  BY <1>0 DEF IInv, TypeOK, Reservations
<1>3. Exclusive'
  BY <1>0 DEF IInv, TypeOK, Exclusive, Holding
<1>4. \A v \in Worker : Held(v)'
  BY <1>0 DEF IInv, TypeOK, Held, Exclusive, Holding
<1>5. Evidence'
  BY <1>0 DEF IInv, TypeOK, Evidence
<1>6. Remembered'
  BY <1>0 DEF IInv, TypeOK, Remembered, Holding
<1>7. Ledger'
  BY <1>0 DEF IInv, TypeOK, Ledger
<1>8. Chat'
  BY <1>0 DEF IInv, TypeOK, Chat
<1>9. QED
  BY <1>1, <1>2, <1>3, <1>4, <1>5, <1>6, <1>7, <1>8 DEF IInv

\* The terminal write of a task preserves the inductive invariant.
LEMMA FinalizeTaskKeepsIInv ==
    ASSUME IInv, NEW g \in Group, FinalizeTask(g)
    PROVE  IInv'
<1> USE DEF FinalizeTask, Reserve, worker, chat
<1>0. g \subseteq Ref /\ g # {} /\ state[g] = "absent"
  BY GroupAssumption
<1>1. TypeOK'
  BY <1>0 DEF IInv, TypeOK, States, Terminal
<1>2. Reservations'
  <2>1. \A r \in g : owner[r] = None
    BY DEF AllFree, Free
  <2>2. ASSUME NEW h \in Group, state'[h] # "absent", NEW r \in h
        PROVE  owner'[r] = h
    <3>1. CASE h = g
      BY <1>0, <2>2, <3>1
    <3>2. CASE h # g
      <4>1. r \in Ref /\ owner[r] = h
        BY <1>0, <2>2, <3>2, GroupAssumption DEF IInv, TypeOK, Reservations
      <4>2. r \notin g
        BY <2>1, <4>1, NoneAssumption
      <4>3. QED
        BY <4>1, <4>2
    <3>3. QED
      BY <3>1, <3>2
  <2>3. ASSUME NEW r \in Ref, owner'[r] # None
        PROVE  r \in owner'[r] /\ state'[owner'[r]] # "absent"
    BY <1>0, <2>3 DEF IInv, TypeOK, Reservations
  <2>4. QED
    BY <2>2, <2>3 DEF Reservations
<1>3. Exclusive'
  BY <1>0 DEF IInv, TypeOK, Exclusive, Holding
<1>4. \A v \in Worker : Held(v)'
  BY <1>0 DEF IInv, TypeOK, Held
<1>5. Evidence'
  BY <1>0 DEF IInv, TypeOK, Evidence
<1>6. Remembered'
  BY <1>0 DEF IInv, TypeOK, Remembered, Holding
<1>7. Ledger'
  BY <1>0 DEF IInv, TypeOK, Ledger
<1>8. Chat'
  BY <1>0 DEF IInv, TypeOK, Chat
<1>9. QED
  BY <1>1, <1>2, <1>3, <1>4, <1>5, <1>6, <1>7, <1>8 DEF IInv

\* History reconciliation preserves the inductive invariant.
LEMMA ReconcileKeepsIInv ==
    ASSUME IInv, NEW g \in Autonomous, ReconcileAutonomousHistory(g)
    PROVE  IInv'
<1> USE DEF ReconcileAutonomousHistory, ProjectTx, Projectable, InsertTurn, RowsInserted, journal, worker
<1>0. g \in Group /\ state[g] = "sent" /\ shown[g] = 1
  BY AutonomousAssumption DEF IInv, Evidence
<1>1. TypeOK'
  BY <1>0 DEF IInv, TypeOK, States, Terminal
<1>2. Reservations'
  BY <1>0 DEF IInv, TypeOK, Reservations
<1>3. Exclusive'
  BY <1>0 DEF IInv, TypeOK, Exclusive, Holding
<1>4. \A v \in Worker : Held(v)'
  BY <1>0 DEF IInv, TypeOK, Held
<1>5. Evidence'
  BY <1>0 DEF IInv, TypeOK, Evidence
<1>6. Remembered'
  BY <1>0 DEF IInv, TypeOK, Remembered, Holding
<1>7. Ledger'
  BY <1>0 DEF IInv, TypeOK, Ledger
<1>8. Chat'
  BY <1>0 DEF IInv, TypeOK, Chat
<1>9. QED
  BY <1>1, <1>2, <1>3, <1>4, <1>5, <1>6, <1>7, <1>8 DEF IInv

\* The finalizer's confirmation preserves the inductive invariant.
LEMMA FinalizeConfirmKeepsIInv ==
    ASSUME IInv, NEW g \in Group, FinalizeConfirm(g)
    PROVE  IInv'
<1> USE DEF FinalizeConfirm, ConfirmTx, worker, journal, chat
<1>0. state[g] \in {"dispatching", "sent"} /\ shown[g] = 1 /\ g \in unfinalized
  BY DEF IInv, Remembered
<1>1. TypeOK'
  BY <1>0 DEF IInv, TypeOK, States, Terminal, ReservedRefs
<1>2. Reservations'
  BY <1>0 DEF IInv, TypeOK, Reservations
<1>3. Exclusive'
  BY <1>0 DEF IInv, TypeOK, Exclusive, Holding
<1>4. \A v \in Worker : Held(v)'
  BY <1>0 DEF IInv, TypeOK, Held, Remembered, Holding
<1>5. Evidence'
  BY <1>0 DEF IInv, TypeOK, Evidence
<1>6. Remembered'
  BY <1>0, AutonomousAssumption DEF IInv, TypeOK, Remembered, Holding
<1>7. Ledger'
  <2>1. CASE state[g] = "dispatching"
    <3>1. ReservedRefs(g) = g
      BY <1>0, <2>1, GroupAssumption, NoneAssumption DEF IInv, TypeOK, Reservations, ReservedRefs
    <3>2. {h \in Group : state'[h] = "sent"} = {h \in Group : state[h] = "sent"} \cup {g}
      BY <1>0, <2>1 DEF IInv, TypeOK
    <3>3. QED
      BY <1>0, <2>1, <3>1, <3>2 DEF IInv, Ledger
  <2>2. CASE state[g] = "sent"
    BY <1>0, <2>2 DEF IInv, Ledger
  <2>3. QED
    BY <1>0, <2>1, <2>2
<1>8. Chat'
  BY <1>0, AutonomousAssumption DEF IInv, TypeOK, Chat
<1>9. QED
  BY <1>1, <1>2, <1>3, <1>4, <1>5, <1>6, <1>7, <1>8 DEF IInv

\* The finalizer's projection preserves the inductive invariant.
LEMMA FinalizeProjectKeepsIInv ==
    ASSUME IInv, NEW g \in Group, FinalizeProject(g)
    PROVE  IInv'
<1> USE DEF FinalizeProject, ProjectTx, Projectable, InsertTurn, RowsInserted, journal, worker, chat
<1>0. g \in Autonomous /\ shown[g] = 1
  BY DEF IInv, TypeOK, Remembered
<1>1. TypeOK'
  BY <1>0 DEF IInv, TypeOK, States, Terminal
<1>2. Reservations'
  BY <1>0 DEF IInv, TypeOK, Reservations
<1>3. Exclusive'
  BY <1>0 DEF IInv, TypeOK, Exclusive, Holding
<1>4. \A v \in Worker : Held(v)'
  BY <1>0 DEF IInv, TypeOK, Held
<1>5. Evidence'
  BY <1>0 DEF IInv, TypeOK, Evidence
<1>6. Remembered'
  BY <1>0 DEF IInv, TypeOK, Remembered, Holding
<1>7. Ledger'
  BY <1>0 DEF IInv, TypeOK, Ledger
<1>8. Chat'
  BY <1>0 DEF IInv, TypeOK, Chat
<1>9. QED
  BY <1>1, <1>2, <1>3, <1>4, <1>5, <1>6, <1>7, <1>8 DEF IInv

\* A retry coming due preserves the inductive invariant.
LEMMA RetryTimeKeepsIInv ==
    ASSUME IInv, NEW g \in Group, RetryTimePasses(g)
    PROVE  IInv'
<1> USE DEF RetryTimePasses, worker, chat
<1>1. TypeOK'
  BY DEF IInv, TypeOK, States, Terminal
<1>2. Reservations'
  BY DEF IInv, TypeOK, Reservations
<1>3. Exclusive'
  BY DEF IInv, TypeOK, Exclusive, Holding
<1>4. \A v \in Worker : Held(v)'
  BY DEF IInv, TypeOK, Held
<1>5. Evidence'
  BY DEF IInv, TypeOK, Evidence
<1>6. Remembered'
  BY DEF IInv, TypeOK, Remembered, Holding
<1>7. Ledger'
  BY DEF IInv, TypeOK, Ledger
<1>8. Chat'
  BY DEF IInv, TypeOK, Chat
<1>9. QED
  BY <1>1, <1>2, <1>3, <1>4, <1>5, <1>6, <1>7, <1>8 DEF IInv

\* A crash preserves the inductive invariant.
LEMMA CrashKeepsIInv ==
    ASSUME IInv, Crash
    PROVE  IInv'
<1> USE DEF Crash, journal, chat
<1>1. TypeOK'
  BY DEF IInv, TypeOK, States, Terminal
<1>2. Reservations'
  BY DEF IInv, TypeOK, Reservations
<1>3. Exclusive'
  BY DEF IInv, TypeOK, Exclusive, Holding
<1>4. \A v \in Worker : Held(v)'
  BY DEF IInv, TypeOK, Held
<1>5. Evidence'
  BY DEF IInv, TypeOK, Evidence
<1>6. Remembered'
  BY DEF IInv, TypeOK, Remembered, Holding
<1>7. Ledger'
  BY DEF IInv, TypeOK, Ledger
<1>8. Chat'
  BY DEF IInv, TypeOK, Chat
<1>9. QED
  BY <1>1, <1>2, <1>3, <1>4, <1>5, <1>6, <1>7, <1>8 DEF IInv

\* A stuttering step preserves the inductive invariant.
LEMMA StutterKeepsIInv ==
    ASSUME IInv, UNCHANGED vars
    PROVE  IInv'
BY DEF vars, journal, chat, worker, IInv, TypeOK, Reservations, Exclusive, Holding, Held,
       Evidence, Remembered, Ledger, Chat

\* Every step preserves the inductive invariant.
LEMMA NextKeepsIInv == IInv /\ [Next]_vars => IInv'
<1> SUFFICES ASSUME IInv, [Next]_vars PROVE IInv'
  OBVIOUS
<1>1. ASSUME NEW w \in Worker, WorkerStep(w)
      PROVE  IInv'
  BY <1>1, LookupKeepsIInv, BeginCreatedKeepsIInv, BeginRefusedKeepsIInv, ClaimKeepsIInv,
     NotifyKeepsIInv, AppendKeepsIInv, ConfirmKeepsIInv, ConfirmFailedKeepsIInv, RecordKeepsIInv
     DEF WorkerStep, RejectNotificationAttempt, DeferNotificationAttempt, MarkNotificationUncertain
<1>2. ASSUME NEW g \in Group, RowStep(g)
      PROVE  IInv'
  BY <1>2, FinalizeTaskKeepsIInv, RetryTimeKeepsIInv, ReconcileKeepsIInv,
     FinalizeConfirmKeepsIInv, FinalizeProjectKeepsIInv DEF RowStep
<1>3. CASE Crash
  BY <1>3, CrashKeepsIInv
<1>4. CASE UNCHANGED vars
  BY <1>4, StutterKeepsIInv
<1>5. QED
  BY <1>1, <1>2, <1>3, <1>4 DEF Next

-----------------------------------------------------------------------------

\* The strengthened invariant holds in every reachable state of the journal.
THEOREM Invariance == Spec => []IInv
<1>1. Init => IInv
  BY InitIInv
<1>2. IInv /\ [Next]_vars => IInv'
  BY NextKeepsIInv
<1>3. QED
  BY <1>1, <1>2, PTL DEF Spec

\* Every variable keeps its type (the shapes of the journal tables).
THEOREM TypeCorrect == Spec => []TypeOK
<1>1. IInv => TypeOK
  BY DEF IInv
<1>2. QED
  BY <1>1, Invariance, PTL

\* No ref is shown to the person twice, for any number of refs, groupings,
\* workers, crashes and lost commit responses.
THEOREM AtMostOnce == Spec => []AtMostOnceShown
<1>1. IInv => AtMostOnceShown
  <2> SUFFICES ASSUME IInv, NEW g \in Group, NEW h \in Group,
                      shown[g] > 0, shown[h] > 0, g \cap h # {}
               PROVE  g = h /\ shown[g] = 1
    BY DEF AtMostOnceShown
  <2>1. shown[g] = 1 /\ state[g] # "absent" /\ state[h] # "absent"
    BY DEF IInv, Evidence
  <2>2. PICK r \in g : r \in h
    OBVIOUS
  <2>3. owner[r] = g /\ owner[r] = h
    BY <2>1, <2>2 DEF IInv, Reservations
  <2>4. QED
    BY <2>1, <2>3
<1>2. QED
  BY <1>1, Invariance, PTL

\* A row that may still be retried, or was rejected, was never delivered.
THEOREM RetryIsSafe == Spec => []RetryableNeverShown
<1>1. IInv => RetryableNeverShown
  BY DEF IInv, Evidence, RetryableNeverShown
<1>2. QED
  BY <1>1, Invariance, PTL

\* The ledger holds the refs of the sent rows, all of them delivered.
THEOREM LedgerIsTruthful == Spec => []LedgerIsSent
<1>1. IInv => LedgerIsSent
  BY DEF IInv, Evidence, Ledger, LedgerIsSent
<1>2. QED
  BY <1>1, Invariance, PTL

\* The dialogue shows only autonomous turns the person really got.
THEOREM HistoryIsTruthful == Spec => []HistoryOnlyShown
<1>1. IInv => HistoryOnlyShown
  BY DEF IInv, Chat, HistoryOnlyShown
<1>2. QED
  BY <1>1, Invariance, PTL

\* No step takes a row out of sent, uncertain or rejected.
THEOREM TerminalStatesAreFinal == Spec => TerminalIsFinal
<1> DEFINE Final == \A g \in Group : state[g] \in Terminal => state'[g] = state[g]
<1>1. ASSUME IInv, [Next]_vars
      PROVE  Final \/ UNCHANGED vars
  <2>1. ASSUME NEW w \in Worker, WorkerStep(w)
        PROVE  Final
    <3>1. CASE \E ok \in BOOLEAN : BeginCreated(w, ok)
      BY <1>1, <3>1 DEF BeginCreated, IInv, TypeOK, Held, Terminal
    <3>2. CASE \E g \in Group, ok \in BOOLEAN : ClaimRetryableNotification(w, g, ok)
      BY <1>1, <3>2 DEF ClaimRetryableNotification, Claimable, IInv, TypeOK, Terminal
    <3>3. CASE Confirm(w) \/ \E done, budget \in BOOLEAN : ConfirmFailed(w, done, budget)
      BY <1>1, <3>3 DEF Confirm, ConfirmFailed, ConfirmTx, journal, IInv, TypeOK, Terminal
    <3>4. ASSUME NEW o, NEW to, NEW done, Record(w, o, to, done)
          PROVE  Final
      BY <1>1, <3>4 DEF Record, IInv, TypeOK, Terminal
    <3>5. CASE state' = state
      BY <3>5
    <3>6. QED
      BY <2>1, <3>1, <3>2, <3>3, <3>4, <3>5
         DEF WorkerStep, LookupDelivered, BeginRefused, Notify, AppendAutonomousAssistant,
             RejectNotificationAttempt, DeferNotificationAttempt, MarkNotificationUncertain, journal
  <2>2. ASSUME NEW g \in Group, RowStep(g)
        PROVE  Final
    BY <1>1, <2>2 DEF RowStep, FinalizeTask, RetryTimePasses, ReconcileAutonomousHistory,
       FinalizeConfirm, FinalizeProject, ConfirmTx, journal, IInv, TypeOK, Terminal
  <2>3. CASE Crash
    BY <2>3 DEF Crash, journal
  <2>4. QED
    BY <1>1, <2>1, <2>2, <2>3 DEF Next
<1>2. QED
  BY <1>1, Invariance, PTL DEF Spec, TerminalIsFinal

-----------------------------------------------------------------------------

\* The refs reserved for a row are the row's own refs.
LEMMA ReservedRefsOfRow ==
    ASSUME IInv, NEW g \in Group, state[g] # "absent"
    PROVE  ReservedRefs(g) = g
BY GroupAssumption, NoneAssumption DEF IInv, TypeOK, Reservations, ReservedRefs

\* A confirmation is an abstract acknowledgement, or invisible.
LEMMA ConfirmRefines ==
    ASSUME IInv, NEW g \in Group, ConfirmTx(g), shown[g] = 1, UNCHANGED shown
    PROVE  Abstract!Next \/ UNCHANGED Abstract!vars
<1>1. CASE state[g] = "dispatching"
  <2>1. ledger' = ledger \cup g
    BY <1>1, ReservedRefsOfRow DEF ConfirmTx
  <2>2. Abstract!Acknowledge(g)
    BY <1>1, <2>1 DEF ConfirmTx, Abstract!Acknowledge
  <2>3. QED
    BY <2>2 DEF Abstract!Next
<1>2. CASE state[g] = "sent"
  BY <1>2 DEF ConfirmTx, journal, Abstract!vars
<1>3. QED
  BY <1>1, <1>2 DEF ConfirmTx

\* A new row is an abstract admission.
LEMMA AdmitRefines ==
    ASSUME IInv, NEW g \in Group, AllFree(g), Reserve(g), UNCHANGED <<shown, ledger>>
    PROVE  Abstract!Next \/ UNCHANGED Abstract!vars
<1>1. Abstract!Admit(g)
  BY DEF AllFree, Free, Reserve, Abstract!Admit
<1>2. QED
  BY <1>1 DEF Abstract!Next

\* A delivery is an abstract delivery.
LEMMA NotifyRefines ==
    ASSUME IInv, NEW w \in Worker, NEW o \in Outcomes, NEW seen \in BOOLEAN, Notify(w, o, seen)
    PROVE  Abstract!Next \/ UNCHANGED Abstract!vars
<1> DEFINE g == job[w]
<1>1. g \in Group /\ state[g] = "dispatching" /\ shown[g] = 0
  BY DEF IInv, Held, Notify
<1>2. CASE seen
  <2>1. \A r \in g : owner[r] = g
    BY <1>1 DEF IInv, Reservations
  <2>2. Abstract!Deliver(g)
    BY <1>1, <1>2, <2>1 DEF Notify, journal, IInv, TypeOK, Abstract!Deliver, Abstract!Held
  <2>3. QED
    BY <1>1, <2>2 DEF Abstract!Next
<1>3. CASE ~seen
  BY <1>1, <1>3 DEF Notify, journal, IInv, TypeOK, Abstract!vars
<1>4. QED
  BY <1>2, <1>3

\* The journal implements the abstract at-most-once delivery: a step of the
\* journal admits, delivers or acknowledges one notification, or is invisible.
THEOREM Refinement == Spec => ImplementsOccurrenceDelivery
<1>1. Init => Abstract!Init
  BY DEF Init, Abstract!Init
<1>2. ASSUME IInv, [Next]_vars
      PROVE  Abstract!Next \/ UNCHANGED Abstract!vars
  <2>1. ASSUME NEW w \in Worker, WorkerStep(w)
        PROVE  Abstract!Next \/ UNCHANGED Abstract!vars
    <3>1. ASSUME NEW ok \in BOOLEAN, BeginCreated(w, ok)
          PROVE  Abstract!Next \/ UNCHANGED Abstract!vars
      BY <1>2, <3>1, AdmitRefines DEF BeginCreated, IInv, Held
    <3>2. ASSUME NEW o \in Outcomes, NEW seen \in BOOLEAN, Notify(w, o, seen)
          PROVE  Abstract!Next \/ UNCHANGED Abstract!vars
      BY <1>2, <3>2, NotifyRefines
    <3>3. CASE Confirm(w)
      BY <1>2, <3>3, ConfirmRefines DEF Confirm, IInv, Held
    <3>4. ASSUME NEW done \in BOOLEAN, NEW budget \in BOOLEAN, ConfirmFailed(w, done, budget)
          PROVE  Abstract!Next \/ UNCHANGED Abstract!vars
      <4>1. CASE done
        BY <1>2, <3>4, <4>1, ConfirmRefines DEF ConfirmFailed, IInv, Held
      <4>2. CASE ~done
        BY <3>4, <4>2 DEF ConfirmFailed, journal, Abstract!vars
      <4>3. QED
        BY <4>1, <4>2
    <3>5. CASE UNCHANGED <<owner, ledger, shown>>
      BY <3>5 DEF Abstract!vars
    <3>6. QED
      BY <2>1, <3>1, <3>2, <3>3, <3>4, <3>5
         DEF WorkerStep, LookupDelivered, BeginRefused, ClaimRetryableNotification,
             AppendAutonomousAssistant, RejectNotificationAttempt, DeferNotificationAttempt,
             MarkNotificationUncertain, Record, journal
  <2>2. ASSUME NEW g \in Group, RowStep(g)
        PROVE  Abstract!Next \/ UNCHANGED Abstract!vars
    <3>1. CASE FinalizeTask(g)
      BY <1>2, <3>1, AdmitRefines DEF FinalizeTask
    <3>2. CASE FinalizeConfirm(g)
      BY <1>2, <3>2, ConfirmRefines DEF FinalizeConfirm, IInv, Remembered
    <3>3. CASE UNCHANGED <<owner, ledger, shown>>
      BY <3>3 DEF Abstract!vars
    <3>4. QED
      BY <2>2, <3>1, <3>2, <3>3 DEF RowStep, RetryTimePasses, ReconcileAutonomousHistory,
         FinalizeProject, journal
  <2>3. CASE Crash \/ UNCHANGED vars
    BY <2>3 DEF Crash, vars, journal, Abstract!vars
  <2>4. QED
    BY <1>2, <2>1, <2>2, <2>3 DEF Next
<1>3. QED
  BY <1>1, <1>2, Invariance, PTL DEF Spec, ImplementsOccurrenceDelivery, Abstract!Spec

-----------------------------------------------------------------------------

\* HistoryCountedOnce with the finiteness that cardinalities need.
Counted == IsFiniteSet(history) /\ messageCount = 2 * Cardinality(history)

\* An inserted turn keeps the message count equal to two per turn.
LEMMA InsertTurnCounts ==
    ASSUME TypeOK, Counted, NEW g \in Group, InsertTurn(g)
    PROVE  Counted'
<1>1. Cardinality(history) \in Nat
  BY FS_CardinalityType DEF Counted
<1>2. IsFiniteSet(history')
  BY FS_AddElement DEF Counted, InsertTurn
<1>3. CASE g \in history
  <2>1. history' = history /\ messageCount' = messageCount
    BY <1>3 DEF InsertTurn, RowsInserted, TypeOK
  <2>2. QED
    BY <2>1 DEF Counted
<1>4. CASE g \notin history
  <2>1. Cardinality(history') = Cardinality(history) + 1
    BY <1>4, FS_AddElement DEF Counted, InsertTurn
  <2>2. messageCount' = messageCount + 2
    BY <1>4 DEF InsertTurn, RowsInserted
  <2>3. QED
    BY <1>1, <1>2, <2>1, <2>2 DEF Counted
<1>5. QED
  BY <1>3, <1>4

\* Session counters and chat rows agree, whichever path inserted the rows.
THEOREM HistoryIsCountedOnce == Spec => []HistoryCountedOnce
<1>1. Init => Counted
  BY FS_EmptySet DEF Init, Counted
<1>2. ASSUME IInv, Counted, [Next]_vars
      PROVE  Counted'
  <2>1. CASE UNCHANGED <<history, messageCount>>
    BY <1>2, <2>1 DEF Counted
  <2>2. ASSUME NEW w \in Worker, NEW ok \in BOOLEAN, AppendAutonomousAssistant(w, ok)
        PROVE  Counted'
    <3>1. job[w] \in Group
      BY <1>2, <2>2 DEF IInv, Held, AppendAutonomousAssistant
    <3>2. CASE ok
      BY <1>2, <2>2, <3>1, <3>2, InsertTurnCounts DEF AppendAutonomousAssistant, IInv
    <3>3. CASE ~ok
      BY <2>2, <3>3, <2>1 DEF AppendAutonomousAssistant
    <3>4. QED
      BY <3>2, <3>3
  <2>3. ASSUME NEW g \in Group, ReconcileAutonomousHistory(g) \/ FinalizeProject(g)
        PROVE  Counted'
    <3>1. CASE ProjectTx(g)
      BY <1>2, <3>1, InsertTurnCounts DEF ProjectTx, IInv
    <3>2. CASE UNCHANGED chat
      BY <2>1, <3>2 DEF chat
    <3>3. QED
      BY <2>3, <3>1, <3>2 DEF ReconcileAutonomousHistory, FinalizeProject
  <2>4. ASSUME NEW w \in Worker, WorkerStep(w)
        PROVE  Counted'
    BY <2>1, <2>2, <2>4 DEF WorkerStep, LookupDelivered, BeginCreated, BeginRefused,
       ClaimRetryableNotification, Notify, Confirm, ConfirmFailed, Record,
       RejectNotificationAttempt, DeferNotificationAttempt, MarkNotificationUncertain, chat
  <2>5. ASSUME NEW g \in Group, RowStep(g)
        PROVE  Counted'
    BY <2>1, <2>3, <2>5 DEF RowStep, FinalizeTask, RetryTimePasses, FinalizeConfirm, chat
  <2>6. CASE Crash \/ UNCHANGED vars
    BY <2>1, <2>6 DEF Crash, vars, chat
  <2>7. QED
    BY <1>2, <2>4, <2>5, <2>6 DEF Next
<1>3. Counted => HistoryCountedOnce
  BY DEF Counted, HistoryCountedOnce
<1>4. QED
  BY <1>1, <1>2, <1>3, Invariance, PTL DEF Spec

\* The journal is sound: types, at-most-once display, safe retries and a
\* truthful ledger together, for every set of refs, groupings and workers.
THEOREM JournalIsSound == Spec => []JournalSound
  BY TypeCorrect, AtMostOnce, RetryIsSafe, LedgerIsTruthful, PTL DEF JournalSound

\* The dialogue is sound: only delivered turns, each counted once.
THEOREM HistoryIsSound == Spec => []HistorySound
  BY HistoryIsTruthful, HistoryIsCountedOnce, PTL DEF HistorySound
=============================================================================
