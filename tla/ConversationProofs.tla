-------------------------- MODULE ConversationProofs --------------------------
(* Proofs about Conversation for every set of messages and pulses, every cap of *)
(* the debouncer and every number of disturbances.                              *)
EXTENDS Conversation, FiniteSetTheorems, TLAPS

Inside  == {"begun", "ready", "asked", "tooling", "unwinding", "settling", "closing"}
Serving == {"queued", "begun", "ready", "asked", "tooling", "unwinding"}
Waiting == {"prep", "debounced", "turn"}

TurnFields  == {"pc", "base", "screen", "end"}
DraftFields == {"pc", "anchor", "rows", "token", "seen"}
RowType == [role : {"user", "tool", "assistant"}, of : Msg \cup Pulse \cup {Note}, at : Nat]

ConvShape ==
    /\ DOMAIN turn = Msg /\ \A m \in Msg : DOMAIN turn[m] = TurnFields
    /\ DOMAIN msg = Msg /\ \A m \in Msg : DOMAIN msg[m] = {"st", "ver", "lead"}
    /\ DOMAIN draft = DraftFields /\ DOMAIN commit = {"pc", "of"} /\ DOMAIN reset = {"pc", "ver"}
    /\ DOMAIN pulse = Pulse /\ \A p \in Pulse : DOMAIN pulse[p] = {"st", "session", "draft"}
    /\ active \in Msg \cup {None} /\ cancelled \subseteq Msg

\* Who holds a lock, by where everybody is.
LockHolders ==
    /\ turnMu \in Holder
    /\ \A m \in Msg : turn[m].pc \in Inside <=> turnMu = m
    /\ draft.pc \in {"locked", "thinking"} <=> turnMu = Draft
    /\ commit.pc # "idle" <=> turnMu = Commit
    /\ note # "idle" <=> turnMu = Note
    /\ reset.pc = "locked" <=> turnMu = Reset
    /\ quiet = "quiet" <=> turnMu = Quiet
    /\ actMu \in {None, Commit, Note}
    /\ commit.pc = "sending" <=> actMu = Commit
    /\ note = "sending" <=> actMu = Note

\* A message in a turn is in one that still serves it, and a serving turn has its
\* own message.
MessagesServed ==
    \A m \in Msg :
        /\ msg[m].ver \in Nat /\ msg[m].lead \in Msg \cup {None}
        /\ msg[m].st = "turn" => msg[m].lead \in Msg /\ turn[msg[m].lead].pc \in Serving
        /\ turn[m].pc \in Serving => msg[m].st = "turn" /\ msg[m].lead = m
        /\ msg[m].st \in {"new", "prep", "debounced"} => turn[m].pc = "none"

\* The activity state.
Clocks ==
    /\ act \in [ver : Nat, pending : Nat, last : Nat] /\ now \in Nat /\ boot \in Nat /\ session \in Nat
    /\ act.last <= now

\* What has become of a pulse people can see.
Seen(p) ==
    \/ pulse[p].st = "uncertain"
    \/ pulse[p].st = "sent" /\ p \in unfinalized \cup confirmed
    \/ pulse[p].st = "drafted" /\ commit.of = p /\ commit.pc = "sent"
    \/ pulse[p].st = "drafted" /\ commit.of = p /\ commit.pc = "remembered" /\ p \in unfinalized \cup confirmed
Pulses ==
    /\ visible \subseteq Pulse /\ unfinalized \subseteq visible /\ confirmed \subseteq visible
    /\ commit.pc \in {"idle", "locked", "sending", "sent", "remembered"}
    /\ commit.pc # "idle" => commit.of \in Pulse /\ pulse[commit.of].st = "drafted"
    /\ commit.pc \in {"sent", "remembered"} => commit.of \in visible
    /\ commit.pc = "remembered" => commit.of \in unfinalized \cup confirmed
    /\ \A p \in visible : Seen(p)
    /\ \A p \in Pulse : pulse[p].st = "sent" => p \in visible
    /\ \A p \in Pulse : pulse[p].session \in Nat /\ pulse[p].session <= session

\* A draft with the present token was written after the latest admission.
Fresh(d, b, v, t) ==
    \E i, j \in Nat : d.token = <<i, j>> /\ i <= b /\ (i = b => j <= v /\ (j = v => d.seen = t))
Drafts ==
    /\ draft.pc = "thinking" => Fresh(draft, boot, act.ver, now)
    /\ \A p \in Pulse : pulse[p].st = "drafted" => Fresh(pulse[p].draft, boot, act.ver, now)
Fits(p) ==
    /\ pulse[p].draft.seen = now /\ act.pending = 0
    /\ pulse[p].session = session /\ pulse[p].draft.rows = Len(dialog)
SendingFits == commit.pc = "sending" => Fits(commit.of)

\* Rows of a turn follow each other while it runs.
Mine(i, m) == dialog[i].of = m /\ dialog[i].role \in {"user", "tool"}
Rows ==
    /\ dialog \in Seq(RowType)
    /\ \A m \in Msg : turn[m].pc \notin {"closing", "ended"} => turn[m].end = "none"
    /\ \A m \in Msg : turn[m].pc \in {"none", "queued", "begun", "ready"} => \A i \in 1..Len(dialog) : dialog[i].of # m
    /\ \A m \in Msg : turn[m].pc \in Inside \ {"closing"} =>
          \A i \in 1..Len(dialog) : Mine(i, m) => i = Len(dialog) \/ dialog[i + 1].of = m

\* Nothing is left that could speak for an account that is gone.
Silenced ==
    gone =>
        /\ dialog = <<>> /\ \A p \in Pulse : pulse[p].session < session
        /\ turnMu \in {None, Reset, Quiet, Commit} /\ commit.pc \in {"idle", "locked"}
        /\ ~retired => draft.pc = "idle" /\ \A m \in Msg : msg[m].st \notin Waiting

ConvIInv ==
    /\ ConvShape /\ LockHolders /\ MessagesServed /\ Clocks /\ PendingIsExact /\ Pulses /\ DialogueComplete
    /\ Drafts /\ SendingFits /\ Rows /\ StoppedTurnRecorded /\ Silenced

-----------------------------------------------------------------------------
(* What a step does to one turn                                               *)

TurnAt(m, pc, screen, end) ==
    /\ DOMAIN turn' = Msg /\ \A x \in Msg : DOMAIN turn'[x] = TurnFields
    /\ turn'[m].pc = pc /\ turn'[m].screen = screen /\ turn'[m].end = end
    /\ \A x \in Msg : x # m => turn'[x] = turn[x]

LEMMA TurnMoves ==
  ASSUME ConvShape, NEW m \in Msg, NEW to
  PROVE  /\ turn' = [turn EXCEPT ![m].pc = to] => TurnAt(m, to, turn[m].screen, turn[m].end)
         /\ \A b : turn' = [turn EXCEPT ![m].pc = to, ![m].base = b] => TurnAt(m, to, turn[m].screen, turn[m].end)
         /\ \A s : turn' = [turn EXCEPT ![m].pc = to, ![m].screen = s] => TurnAt(m, to, s, turn[m].end)
         /\ \A s : turn' = [turn EXCEPT ![m].screen = s] => TurnAt(m, turn[m].pc, s, turn[m].end)
<1>1. DOMAIN turn = Msg /\ \A x \in Msg : DOMAIN turn[x] = TurnFields BY DEF ConvShape
<1>2. "pc" \in TurnFields /\ "base" \in TurnFields /\ "screen" \in TurnFields /\ "end" \in TurnFields BY DEF TurnFields
<1> QED BY <1>1, <1>2 DEF TurnAt

LEMMA TurnSettles ==
  ASSUME ConvShape, NEW m \in Msg, NEW recorded, NEW end, Settling(m, recorded, end)
  PROVE  TurnAt(m, "closing", Settled(turn[m].screen, recorded), end)
<1>1. DOMAIN turn = Msg /\ \A x \in Msg : DOMAIN turn[x] = TurnFields BY DEF ConvShape
<1>2. "pc" \in TurnFields /\ "base" \in TurnFields /\ "screen" \in TurnFields /\ "end" \in TurnFields BY DEF TurnFields
<1> QED BY <1>1, <1>2 DEF TurnAt, Settling

-----------------------------------------------------------------------------
(* The rows a projection adds                                                 *)

Grown(rows) == rows \in Seq(RowType) /\ dialog' = dialog \o rows
OfPulses(rows) == \A i \in 1..Len(rows) : rows[i].of \in Pulse
HistoryMoved ==
    /\ confirmed \subseteq confirmed' /\ confirmed' \subseteq confirmed \cup unfinalized
    /\ unfinalized' \subseteq unfinalized /\ unfinalized' \cup confirmed' = unfinalized \cup confirmed
    /\ \E rows : Grown(rows) /\ OfPulses(rows)

LEMMA ListedAll ==
  ASSUME NEW S, IsFiniteSet(S)
  PROVE  /\ Cardinality(S) \in Nat /\ Listed(S) \in [1..Cardinality(S) -> S]
         /\ \A x \in S : \E i \in 1..Cardinality(S) : Listed(S)[i] = x
<1>1. Cardinality(S) \in Nat BY FS_CardinalityType
<1>2. \E f \in [1..Cardinality(S) -> S] : \A x \in S : \E i \in DOMAIN f : f[i] = x
  <2>1. ExistsBijection(1..Cardinality(S), S) BY FS_CardinalityType
  <2>2. PICK f : f \in Bijection(1..Cardinality(S), S) BY <2>1 DEF ExistsBijection
  <2>3. f \in [1..Cardinality(S) -> S] /\ \A x \in S : \E i \in 1..Cardinality(S) : f[i] = x
    BY <2>2 DEF Bijection, Surjection
  <2> QED BY <2>3
<1>3. Listed(S) \in [1..Cardinality(S) -> S] /\ \A x \in S : \E i \in DOMAIN Listed(S) : Listed(S)[i] = x
  BY <1>2 DEF Listed
<1> QED BY <1>1, <1>3

LEMMA ProjectedRows ==
  ASSUME Rows, NEW S \in SUBSET Pulse
  PROVE  \E rows : /\ rows \in Seq(RowType) /\ Projected(S) = dialog \o rows /\ OfPulses(rows)
                   /\ \A p \in S : \E i \in 1..Len(rows) : rows[i].of = p
<1> DEFINE n == Cardinality(S)
           rows == [i \in 1..n |-> Row("assistant", Listed(S)[i], 0)]
<1>1. IsFiniteSet(S) BY NamesAssumption, FS_Subset
<1>2. n \in Nat /\ \A i \in 1..n : Listed(S)[i] \in S BY <1>1, ListedAll
<1>3. \A p \in S : \E i \in 1..n : Listed(S)[i] = p BY <1>1, ListedAll
<1>4. \A i \in 1..n : rows[i] \in RowType /\ rows[i].of = Listed(S)[i]
  <2> TAKE i \in 1..n
  <2>1. Listed(S)[i] \in Pulse BY <1>2
  <2> QED BY <2>1 DEF Row, RowType
<1>5. rows \in Seq(RowType) /\ Len(rows) = n BY <1>2, <1>4
<1>6. Projected(S) = dialog \o rows BY DEF Projected
<1> HIDE DEF rows, n
<1>7. OfPulses(rows) BY <1>2, <1>4, <1>5 DEF OfPulses
<1>8. \A p \in S : \E i \in 1..Len(rows) : rows[i].of = p BY <1>3, <1>4, <1>5
<1> QED BY <1>5, <1>6, <1>7, <1>8

LEMMA HistoryMoves == ASSUME Rows, Pulses, EnsureHistory \/ EnsureHistoryFails PROVE HistoryMoved
<1>1. Owed \subseteq Pulse BY DEF Owed, Pulses
<1>2. CASE EnsureHistory
  <2>1. \E rows : rows \in Seq(RowType) /\ Projected(Owed) = dialog \o rows /\ OfPulses(rows) BY <1>1, ProjectedRows
  <2>2. \E rows : Grown(rows) /\ OfPulses(rows) BY <1>2, <2>1 DEF EnsureHistory, Grown
  <2>3. confirmed' = confirmed \cup unfinalized /\ unfinalized' = {} BY <1>2 DEF EnsureHistory
  <2> QED BY <2>2, <2>3 DEF HistoryMoved
<1>3. CASE EnsureHistoryFails
  <2>1. PICK done \in SUBSET unfinalized : \E also \in SUBSET (unfinalized \ done) :
          /\ confirmed' = confirmed \cup done \cup also /\ unfinalized' = unfinalized \ done
          /\ \E S \in SUBSET (Owed \cap (confirmed \cup done)) : dialog' = Projected(S)
    BY <1>3 DEF EnsureHistoryFails
  <2>2. PICK S \in SUBSET Owed : dialog' = Projected(S) BY <2>1
  <2>3. S \in SUBSET Pulse BY <1>1
  <2>4. \E rows : rows \in Seq(RowType) /\ Projected(S) = dialog \o rows /\ OfPulses(rows) BY <2>3, ProjectedRows
  <2>5. \E rows : Grown(rows) /\ OfPulses(rows) BY <2>2, <2>4 DEF Grown
  <2> QED BY <2>1, <2>5 DEF HistoryMoved
<1> QED BY <1>2, <1>3

\* After the barrier every pulse known as sent is in the dialogue.
LEMMA HistoryComplete ==
  ASSUME Rows, Pulses, EnsureHistory, UNCHANGED <<pulse, session>>
  PROVE  \A p \in unfinalized \cup confirmed : pulse[p].session = session => InDialog(p)'
<1>1. Owed \subseteq Pulse BY DEF Owed, Pulses
<1>2. PICK rows : /\ rows \in Seq(RowType) /\ Projected(Owed) = dialog \o rows /\ OfPulses(rows)
                  /\ \A p \in Owed : \E i \in 1..Len(rows) : rows[i].of = p
  BY <1>1, ProjectedRows
<1>3. dialog' = dialog \o rows BY <1>2 DEF EnsureHistory
<1>4. dialog \in Seq(RowType) BY DEF Rows
<1>5. /\ Len(dialog') = Len(dialog) + Len(rows) /\ Len(dialog) \in Nat /\ Len(rows) \in Nat
      /\ \A i \in 1..Len(dialog) : dialog'[i] = dialog[i]
      /\ \A i \in 1..Len(rows) : dialog'[Len(dialog) + i] = rows[i]
  BY <1>2, <1>3, <1>4
<1>6. ASSUME NEW p \in unfinalized \cup confirmed, pulse[p].session = session PROVE InDialog(p)'
  <2>1. CASE InDialog(p)
    <3>1. PICK i \in 1..Len(dialog) : dialog[i].of = p BY <2>1 DEF InDialog
    <3>2. i \in 1..Len(dialog') /\ dialog'[i].of = p BY <1>5, <3>1
    <3> QED BY <3>2 DEF InDialog
  <2>2. CASE ~InDialog(p)
    <3>1. p \in Owed BY <1>6, <2>2 DEF Owed
    <3>2. PICK i \in 1..Len(rows) : rows[i].of = p BY <1>2, <3>1
    <3>3. Len(dialog) + i \in 1..Len(dialog') /\ dialog'[Len(dialog) + i].of = p BY <1>5, <3>2
    <3> QED BY <3>3 DEF InDialog
  <2> QED BY <2>1, <2>2
<1> QED BY <1>6

-----------------------------------------------------------------------------
(* The fences: shapes, locks and messages                                     *)

FenceInv == ConvShape /\ LockHolders /\ MessagesServed

LEMMA NamesDiffer ==
    /\ \A m \in Msg : m # None /\ m # Draft /\ m # Commit /\ m # Note /\ m # Reset /\ m # Quiet
    /\ None # Draft /\ None # Commit /\ None # Note /\ None # Reset /\ None # Quiet
    /\ Draft # Commit /\ Draft # Note /\ Draft # Reset /\ Draft # Quiet
    /\ Commit # Note /\ Commit # Reset /\ Commit # Quiet /\ Note # Reset /\ Note # Quiet /\ Reset # Quiet
BY NamesAssumption

\* Turns and messages stay as they are.
LEMMA OthersFence ==
  ASSUME FenceInv, ConvShape', LockHolders', UNCHANGED <<turn, msg>>
  PROVE  FenceInv'
BY DEF FenceInv, MessagesServed

LEMMA CancelTurnFence == ASSUME FenceInv, NEW id \in Msg \cup {None}, CancelTurn(id) PROVE FenceInv'
<1>1. ConvShape' BY DEF CancelTurn, actors, store, FenceInv, ConvShape, DraftFields
<1>2. LockHolders' BY NamesDiffer DEF CancelTurn, actors, store, FenceInv, ConvShape, DraftFields, LockHolders, Holder
<1>3. UNCHANGED <<turn, msg>> BY DEF CancelTurn, actors, store
<1> QED BY <1>1, <1>2, <1>3, OthersFence

LEMMA DraftRequestedFence == ASSUME FenceInv, DraftRequested PROVE FenceInv'
<1>1. ConvShape' BY DEF DraftRequested, memory, store, FenceInv, ConvShape, DraftFields
<1>2. LockHolders' BY NamesDiffer DEF DraftRequested, memory, store, FenceInv, ConvShape, DraftFields, LockHolders, Holder
<1>3. UNCHANGED <<turn, msg>> BY DEF DraftRequested, memory, store
<1> QED BY <1>1, <1>2, <1>3, OthersFence

LEMMA DraftLockFence == ASSUME FenceInv, DraftLock PROVE FenceInv'
<1>1. ConvShape' BY DEF DraftLock, NoDraft, store, FenceInv, ConvShape, DraftFields
<1>2. LockHolders' BY NamesDiffer DEF DraftLock, NoDraft, store, FenceInv, ConvShape, DraftFields, LockHolders, Holder
<1>3. UNCHANGED <<turn, msg>> BY DEF DraftLock, NoDraft, store
<1> QED BY <1>1, <1>2, <1>3, OthersFence

LEMMA DraftReadsFence == ASSUME FenceInv, DraftReads PROVE FenceInv'
<1>0. ConvShape /\ LockHolders BY DEF FenceInv
<1>1. ConvShape' BY DEF DraftReads, NoDraft, FenceInv, ConvShape, DraftFields
<1>2. turnMu = Draft BY <1>0 DEF DraftReads, LockHolders
<1>3. (draft'.pc = "idle" /\ turnMu' = None) \/ (draft'.pc = "thinking" /\ turnMu' = Draft)
  <2>1. DOMAIN draft = DraftFields /\ "pc" \in DraftFields BY <1>0 DEF ConvShape, DraftFields
  <2>2. CASE LatestUserMessageAnchor.of # draft.anchor \/ UserActive(LatestUserMessageAnchor, act)
    <3>1. draft' = NoDraft /\ turnMu' = None BY <2>2 DEF DraftReads
    <3> QED BY <3>1 DEF NoDraft
  <2>3. CASE ~(LatestUserMessageAnchor.of # draft.anchor \/ UserActive(LatestUserMessageAnchor, act))
    <3>1. draft' = [draft EXCEPT !.pc = "thinking", !.token = Token, !.seen = now, !.rows = LatestDialogMessageID(dialog')] /\ turnMu' = turnMu
      BY <2>3 DEF DraftReads
    <3> QED BY <1>2, <2>1, <3>1
  <2> QED BY <2>2, <2>3
<1>4. UNCHANGED <<actMu, msg, turn, commit, note, reset, quiet>> BY DEF DraftReads
<1>5. LockHolders' BY <1>0, <1>2, <1>3, <1>4, NamesDiffer DEF LockHolders, Holder
<1> QED BY <1>1, <1>4, <1>5, OthersFence

LEMMA DraftBarredFence == ASSUME FenceInv, DraftBarred PROVE FenceInv'
<1>1. ConvShape' BY DEF DraftBarred, NoDraft, FenceInv, ConvShape, DraftFields
<1>2. LockHolders' BY NamesDiffer DEF DraftBarred, NoDraft, FenceInv, ConvShape, DraftFields, LockHolders, Holder
<1>3. UNCHANGED <<turn, msg>> BY DEF DraftBarred, NoDraft
<1> QED BY <1>1, <1>2, <1>3, OthersFence

LEMMA DraftEndsFence == ASSUME FenceInv, DraftEnds PROVE FenceInv'
<1>1. ConvShape' BY DEF DraftEnds, NoDraft, FenceInv, ConvShape, DraftFields
<1>2. LockHolders' BY NamesDiffer DEF DraftEnds, NoDraft, FenceInv, ConvShape, DraftFields, LockHolders, Holder
<1>3. UNCHANGED <<turn, msg>> BY DEF DraftEnds, NoDraft
<1> QED BY <1>1, <1>2, <1>3, OthersFence

LEMMA CommitLockFence == ASSUME FenceInv, NEW p \in Pulse, CommitLock(p) PROVE FenceInv'
<1>1. ConvShape' BY DEF CommitLock, PulseIs, FenceInv, ConvShape, DraftFields
<1>2. LockHolders' BY NamesDiffer DEF CommitLock, PulseIs, FenceInv, ConvShape, DraftFields, LockHolders, Holder
<1>3. UNCHANGED <<turn, msg>> BY DEF CommitLock, PulseIs
<1> QED BY <1>1, <1>2, <1>3, OthersFence

LEMMA CommitChecksFence == ASSUME FenceInv, CommitChecks PROVE FenceInv'
<1>1. ConvShape' BY DEF CommitChecks, PulseIs, NoCommit, FenceInv, ConvShape, DraftFields
<1>2. LockHolders' BY NamesDiffer DEF CommitChecks, PulseIs, NoCommit, FenceInv, ConvShape, DraftFields, LockHolders, Holder
<1>3. UNCHANGED <<turn, msg>> BY DEF CommitChecks, PulseIs, NoCommit
<1> QED BY <1>1, <1>2, <1>3, OthersFence

LEMMA CommitSendsFence == ASSUME FenceInv, CommitSends PROVE FenceInv'
<1>1. ConvShape' BY DEF CommitSends, PulseIs, NoCommit, FenceInv, ConvShape, DraftFields
<1>2. LockHolders' BY NamesDiffer DEF CommitSends, PulseIs, NoCommit, FenceInv, ConvShape, DraftFields, LockHolders, Holder
<1>3. UNCHANGED <<turn, msg>> BY DEF CommitSends, PulseIs, NoCommit
<1> QED BY <1>1, <1>2, <1>3, OthersFence

LEMMA CommitRemembersFence == ASSUME FenceInv, CommitRemembers PROVE FenceInv'
<1>1. ConvShape' BY DEF CommitRemembers, FenceInv, ConvShape, DraftFields
<1>2. LockHolders' BY NamesDiffer DEF CommitRemembers, FenceInv, ConvShape, DraftFields, LockHolders, Holder
<1>3. UNCHANGED <<turn, msg>> BY DEF CommitRemembers
<1> QED BY <1>1, <1>2, <1>3, OthersFence

LEMMA CommitEndsFence == ASSUME FenceInv, CommitEnds PROVE FenceInv'
<1>1. ConvShape' BY DEF CommitEnds, PulseIs, NoCommit, FenceInv, ConvShape, DraftFields
<1>2. LockHolders' BY NamesDiffer DEF CommitEnds, PulseIs, NoCommit, FenceInv, ConvShape, DraftFields, LockHolders, Holder
<1>3. UNCHANGED <<turn, msg>> BY DEF CommitEnds, PulseIs, NoCommit
<1> QED BY <1>1, <1>2, <1>3, OthersFence

LEMMA JournalConfirmsFence == ASSUME FenceInv, NEW p \in Pulse, JournalConfirms(p) PROVE FenceInv'
<1>1. ConvShape' BY DEF JournalConfirms, memory, actors, FenceInv, ConvShape, DraftFields
<1>2. LockHolders' BY NamesDiffer DEF JournalConfirms, memory, actors, FenceInv, ConvShape, DraftFields, LockHolders, Holder
<1>3. UNCHANGED <<turn, msg>> BY DEF JournalConfirms, memory, actors
<1> QED BY <1>1, <1>2, <1>3, OthersFence

LEMMA NoteLockFence == ASSUME FenceInv, NoteLock PROVE FenceInv'
<1>1. ConvShape' BY DEF NoteLock, store, FenceInv, ConvShape, DraftFields
<1>2. LockHolders' BY NamesDiffer DEF NoteLock, store, FenceInv, ConvShape, DraftFields, LockHolders, Holder
<1>3. UNCHANGED <<turn, msg>> BY DEF NoteLock, store
<1> QED BY <1>1, <1>2, <1>3, OthersFence

LEMMA NoteChecksFence == ASSUME FenceInv, NoteChecks PROVE FenceInv'
<1>1. ConvShape' BY DEF NoteChecks, FenceInv, ConvShape, DraftFields
<1>2. LockHolders' BY NamesDiffer DEF NoteChecks, FenceInv, ConvShape, DraftFields, LockHolders, Holder
<1>3. UNCHANGED <<turn, msg>> BY DEF NoteChecks
<1> QED BY <1>1, <1>2, <1>3, OthersFence

LEMMA NoteDeliversFence == ASSUME FenceInv, NoteDelivers PROVE FenceInv'
<1>1. ConvShape' BY DEF NoteDelivers, FenceInv, ConvShape, DraftFields
<1>2. LockHolders' BY NamesDiffer DEF NoteDelivers, FenceInv, ConvShape, DraftFields, LockHolders, Holder
<1>3. UNCHANGED <<turn, msg>> BY DEF NoteDelivers
<1> QED BY <1>1, <1>2, <1>3, OthersFence

LEMMA ResetAdmittedFence == ASSUME FenceInv, ResetAdmitted PROVE FenceInv'
<1>1. ConvShape' BY DEF ResetAdmitted, store, FenceInv, ConvShape, DraftFields
<1>2. LockHolders' BY NamesDiffer DEF ResetAdmitted, store, FenceInv, ConvShape, DraftFields, LockHolders, Holder
<1>3. UNCHANGED <<turn, msg>> BY DEF ResetAdmitted, store
<1> QED BY <1>1, <1>2, <1>3, OthersFence

LEMMA ResetLockFence == ASSUME FenceInv, ResetLock PROVE FenceInv'
<1>1. ConvShape' BY DEF ResetLock, store, FenceInv, ConvShape, DraftFields
<1>2. LockHolders' BY NamesDiffer DEF ResetLock, store, FenceInv, ConvShape, DraftFields, LockHolders, Holder
<1>3. UNCHANGED <<turn, msg>> BY DEF ResetLock, store
<1> QED BY <1>1, <1>2, <1>3, OthersFence

LEMMA ResetSessionFence == ASSUME FenceInv, ResetSession PROVE FenceInv'
<1>1. ConvShape' BY DEF ResetSession, FenceInv, ConvShape, DraftFields
<1>2. LockHolders' BY NamesDiffer DEF ResetSession, FenceInv, ConvShape, DraftFields, LockHolders, Holder
<1>3. UNCHANGED <<turn, msg>> BY DEF ResetSession
<1> QED BY <1>1, <1>2, <1>3, OthersFence

LEMMA ResetEndsFence == ASSUME FenceInv, ResetEnds PROVE FenceInv'
<1>1. ConvShape' BY DEF ResetEnds, NoReset, store, FenceInv, ConvShape, DraftFields
<1>2. LockHolders' BY NamesDiffer DEF ResetEnds, NoReset, store, FenceInv, ConvShape, DraftFields, LockHolders, Holder
<1>3. UNCHANGED <<turn, msg>> BY DEF ResetEnds, NoReset, store
<1> QED BY <1>1, <1>2, <1>3, OthersFence

LEMMA QuietAskedFence == ASSUME FenceInv, QuietAsked PROVE FenceInv'
<1>1. ConvShape' BY DEF QuietAsked, memory, store, FenceInv, ConvShape, DraftFields
<1>2. LockHolders' BY NamesDiffer DEF QuietAsked, memory, store, FenceInv, ConvShape, DraftFields, LockHolders, Holder
<1>3. UNCHANGED <<turn, msg>> BY DEF QuietAsked, memory, store
<1> QED BY <1>1, <1>2, <1>3, OthersFence

LEMMA QuietStopsFence == ASSUME FenceInv, QuietStops PROVE FenceInv'
<1>1. ConvShape' BY DEF QuietStops, actors, store, FenceInv, ConvShape, DraftFields
<1>2. LockHolders' BY NamesDiffer DEF QuietStops, actors, store, FenceInv, ConvShape, DraftFields, LockHolders, Holder
<1>3. UNCHANGED <<turn, msg>> BY DEF QuietStops, actors, store
<1> QED BY <1>1, <1>2, <1>3, OthersFence

LEMMA QuietLockFence == ASSUME FenceInv, QuietLock PROVE FenceInv'
<1>1. ConvShape' BY DEF QuietLock, store, FenceInv, ConvShape, DraftFields
<1>2. LockHolders' BY NamesDiffer DEF QuietLock, store, FenceInv, ConvShape, DraftFields, LockHolders, Holder
<1>3. UNCHANGED <<turn, msg>> BY DEF QuietLock, store
<1> QED BY <1>1, <1>2, <1>3, OthersFence

LEMMA QuietGivesUpFence == ASSUME FenceInv, QuietGivesUp PROVE FenceInv'
<1>1. ConvShape' BY DEF QuietGivesUp, memory, store, FenceInv, ConvShape, DraftFields
<1>2. LockHolders' BY NamesDiffer DEF QuietGivesUp, memory, store, FenceInv, ConvShape, DraftFields, LockHolders, Holder
<1>3. UNCHANGED <<turn, msg>> BY DEF QuietGivesUp, memory, store
<1> QED BY <1>1, <1>2, <1>3, OthersFence

LEMMA QuietRestartsFence == ASSUME FenceInv, QuietRestarts PROVE FenceInv'
<1>1. ConvShape' BY DEF QuietRestarts, FenceInv, ConvShape, DraftFields
<1>2. LockHolders' BY NamesDiffer DEF QuietRestarts, FenceInv, ConvShape, DraftFields, LockHolders, Holder
<1>3. UNCHANGED <<turn, msg>> BY DEF QuietRestarts
<1> QED BY <1>1, <1>2, <1>3, OthersFence

LEMMA QuietReleasesFence == ASSUME FenceInv, QuietReleases PROVE FenceInv'
<1>1. ConvShape' BY DEF QuietReleases, store, FenceInv, ConvShape, DraftFields
<1>2. LockHolders' BY NamesDiffer DEF QuietReleases, store, FenceInv, ConvShape, DraftFields, LockHolders, Holder
<1>3. UNCHANGED <<turn, msg>> BY DEF QuietReleases, store
<1> QED BY <1>1, <1>2, <1>3, OthersFence

-----------------------------------------------------------------------------
(* The fences: messages and turns                                             *)

\* A step of a turn between the lock and the deferred functions.
LEMMA InsideFence ==
  ASSUME FenceInv, NEW m \in Msg, NEW pc, NEW s, NEW e, TurnAt(m, pc, s, e),
         turn[m].pc \in Inside \cap Serving, pc \in Inside \cap Serving, ConvShape',
         UNCHANGED <<actMu, turnMu, msg, draft, commit, note, reset, quiet>>
  PROVE  FenceInv'
<1>1. LockHolders /\ MessagesServed BY DEF FenceInv
<1>2. /\ turn'[m].pc \in Inside \cap Serving /\ \A x \in Msg : x # m => turn'[x] = turn[x]
  BY DEF TurnAt
<1>3. \A x \in Msg : (turn'[x].pc \in Inside <=> turn[x].pc \in Inside) /\ (turn'[x].pc \in Serving <=> turn[x].pc \in Serving)
  BY <1>2
<1>4. "none" \notin Serving BY DEF Serving
<1>5. \A x \in Msg : turn[x].pc = "none" => turn'[x].pc = "none" BY <1>2, <1>4
<1>6. LockHolders' BY <1>1, <1>3 DEF LockHolders
<1>7. MessagesServed'
  <2> SUFFICES ASSUME NEW x \in Msg
               PROVE  /\ msg[x].ver \in Nat /\ msg[x].lead \in Msg \cup {None}
                      /\ msg[x].st = "turn" => msg[x].lead \in Msg /\ turn'[msg[x].lead].pc \in Serving
                      /\ turn'[x].pc \in Serving => msg[x].st = "turn" /\ msg[x].lead = x
                      /\ msg[x].st \in {"new", "prep", "debounced"} => turn'[x].pc = "none"
    BY DEF MessagesServed
  <2> QED BY <1>1, <1>3, <1>5 DEF MessagesServed
<1> QED BY <1>6, <1>7 DEF FenceInv

LEMMA TurnReadyFence == ASSUME FenceInv, NEW m \in Msg, TurnReady(m) PROVE FenceInv'
<1>0. ConvShape BY DEF FenceInv
<1>1. \E b : turn' = [turn EXCEPT ![m].pc = "ready", ![m].base = b] BY DEF TurnReady
<1>2. TurnAt(m, "ready", turn[m].screen, turn[m].end) BY <1>0, <1>1, TurnMoves
<1>3. ConvShape' BY <1>0, <1>2 DEF TurnReady, ConvShape, TurnAt
<1>4. turn[m].pc \in Inside \cap Serving /\ "ready" \in Inside \cap Serving BY DEF TurnReady, Inside, Serving
<1>5. UNCHANGED <<actMu, turnMu, msg, draft, commit, note, reset, quiet>> BY DEF TurnReady
<1> QED BY <1>2, <1>3, <1>4, <1>5, InsideFence

LEMMA TurnNotReadyFence == ASSUME FenceInv, NEW m \in Msg, TurnNotReady(m) PROVE FenceInv'
<1>0. ConvShape BY DEF FenceInv
<1>2. TurnAt(m, "unwinding", turn[m].screen, turn[m].end) BY <1>0, TurnMoves DEF TurnNotReady
<1>3. ConvShape' BY <1>0, <1>2 DEF TurnNotReady, ConvShape, TurnAt
<1>4. turn[m].pc \in Inside \cap Serving /\ "unwinding" \in Inside \cap Serving BY DEF TurnNotReady, Inside, Serving
<1>5. UNCHANGED <<actMu, turnMu, msg, draft, commit, note, reset, quiet>> BY DEF TurnNotReady
<1> QED BY <1>2, <1>3, <1>4, <1>5, InsideFence

LEMMA TurnStepFence ==
  ASSUME FenceInv, NEW m \in Msg, NEW from \in Inside \cap Serving, NEW to \in Inside \cap Serving, NEW rows,
         TurnStep(m, from, to, rows)
  PROVE  FenceInv'
<1>0. ConvShape BY DEF FenceInv
<1>2. TurnAt(m, to, turn[m].screen, turn[m].end) BY <1>0, TurnMoves DEF TurnStep
<1>3. ConvShape' BY <1>0, <1>2 DEF TurnStep, ConvShape, TurnAt, memory
<1>4. turn[m].pc \in Inside \cap Serving BY DEF TurnStep
<1>5. UNCHANGED <<actMu, turnMu, msg, draft, commit, note, reset, quiet>> BY DEF TurnStep, memory
<1> QED BY <1>2, <1>3, <1>4, <1>5, InsideFence

LEMMA StreamTextFence == ASSUME FenceInv, NEW m \in Msg, StreamText(m) PROVE FenceInv'
<1>0. ConvShape BY DEF FenceInv
<1>2. TurnAt(m, turn[m].pc, "partial", turn[m].end) BY <1>0, TurnMoves DEF StreamText
<1>3. ConvShape' BY <1>0, <1>2 DEF StreamText, ConvShape, TurnAt, memory, store
<1>4. turn[m].pc \in Inside \cap Serving BY DEF StreamText, Inside, Serving
<1>5. UNCHANGED <<actMu, turnMu, msg, draft, commit, note, reset, quiet>> BY DEF StreamText, memory
<1> QED BY <1>2, <1>3, <1>4, <1>5, InsideFence

LEMMA DeliveredFence == ASSUME FenceInv, NEW m \in Msg, NEW rows, Delivered(m, rows) PROVE FenceInv'
<1>0. ConvShape BY DEF FenceInv
<1>2. TurnAt(m, "unwinding", "full", turn[m].end) BY <1>0, TurnMoves DEF Delivered
<1>3. ConvShape' BY <1>0, <1>2 DEF Delivered, ConvShape, TurnAt, memory
<1>4. turn[m].pc \in Inside \cap Serving /\ "unwinding" \in Inside \cap Serving BY DEF Delivered, Inside, Serving
<1>5. UNCHANGED <<actMu, turnMu, msg, draft, commit, note, reset, quiet>> BY DEF Delivered, memory
<1> QED BY <1>2, <1>3, <1>4, <1>5, InsideFence

\* What a retired message looks like.
LEMMA RetiredAt ==
  ASSUME NEW B, NEW st, msg' = Retired(B, st)
  PROVE  /\ DOMAIN msg' = Msg
         /\ \A x \in Msg : x \notin B => msg'[x] = msg[x]
         /\ \A x \in Msg : x \in B => msg'[x].st = st /\ msg'[x].lead = None /\ msg'[x].ver = 0
                                      /\ DOMAIN msg'[x] = {"st", "ver", "lead"}
BY DEF Retired, NoMsg

\* A turn retires its batch.
LEMMA BatchFence ==
  ASSUME FenceInv, NEW m \in Msg, NEW pc, NEW s, NEW e, TurnAt(m, pc, s, e), msg' = Retired(Batch(m), "done"),
         turn[m].pc \in Serving, pc \in {"settling", "ended"}, pc = "settling" <=> turn[m].pc \in Inside,
         UNCHANGED <<actMu, turnMu, active, cancelled, pulse, draft, commit, note, reset, quiet>>
  PROVE  FenceInv'
<1>1. ConvShape /\ LockHolders /\ MessagesServed BY DEF FenceInv
<1>2. /\ DOMAIN turn' = Msg /\ \A x \in Msg : DOMAIN turn'[x] = TurnFields
      /\ turn'[m].pc = pc /\ \A x \in Msg : x # m => turn'[x] = turn[x]
  BY DEF TurnAt
<1>3. /\ DOMAIN msg' = Msg
      /\ \A x \in Msg : x \notin Batch(m) => msg'[x] = msg[x]
      /\ \A x \in Msg : x \in Batch(m) => msg'[x].st = "done" /\ msg'[x].lead = None /\ msg'[x].ver = 0
                                      /\ DOMAIN msg'[x] = {"st", "ver", "lead"}
  BY RetiredAt
<1>4. ConvShape'
  <2>1. \A x \in Msg : DOMAIN msg'[x] = {"st", "ver", "lead"} BY <1>1, <1>3 DEF ConvShape
  <2> QED BY <1>1, <1>2, <1>3, <2>1 DEF ConvShape
<1>5. pc \notin Serving /\ pc # "none" /\ (pc \in Inside <=> turn[m].pc \in Inside) /\ 0 \in Nat BY DEF Serving, Inside
<1>6. \A x \in Msg : turn'[x].pc \in Inside <=> turn[x].pc \in Inside BY <1>2, <1>5
<1>7. LockHolders' BY <1>1, <1>6 DEF LockHolders
<1>8. ASSUME NEW x \in Msg
      PROVE  /\ msg'[x].ver \in Nat /\ msg'[x].lead \in Msg \cup {None}
             /\ msg'[x].st = "turn" => msg'[x].lead \in Msg /\ turn'[msg'[x].lead].pc \in Serving
             /\ turn'[x].pc \in Serving => msg'[x].st = "turn" /\ msg'[x].lead = x
             /\ msg'[x].st \in {"new", "prep", "debounced"} => turn'[x].pc = "none"
  <2>0. /\ msg[x].ver \in Nat /\ msg[x].lead \in Msg \cup {None}
        /\ msg[x].st = "turn" => msg[x].lead \in Msg /\ turn[msg[x].lead].pc \in Serving
        /\ turn[x].pc \in Serving => msg[x].st = "turn" /\ msg[x].lead = x
        /\ msg[x].st \in {"new", "prep", "debounced"} => turn[x].pc = "none"
        /\ turn[m].pc \in Serving => msg[m].st = "turn" /\ msg[m].lead = m
    BY <1>1 DEF MessagesServed
  <2>1. m \in Batch(m) BY <2>0 DEF Batch
  <2>2. CASE x \in Batch(m)
    <3>1. x # m => turn[x].pc \notin Serving BY <2>0, <2>2 DEF Batch
    <3>2. turn'[x].pc \notin Serving BY <1>2, <1>5, <3>1
    <3> QED BY <1>3, <1>5, <2>2, <3>2
  <2>3. CASE x \notin Batch(m)
    <3>1. msg'[x] = msg[x] /\ x # m BY <1>3, <2>1, <2>3
    <3>2. msg[x].st = "turn" => msg[x].lead # m BY <2>3 DEF Batch
    <3> QED BY <1>2, <2>0, <3>1, <3>2
  <2> QED BY <2>2, <2>3
<1>9. MessagesServed' BY <1>8 DEF MessagesServed
<1> QED BY <1>4, <1>7, <1>9 DEF FenceInv

LEMMA TurnDroppedFence == ASSUME FenceInv, NEW m \in Msg, TurnDropped(m) PROVE FenceInv'
<1>0. ConvShape BY DEF FenceInv
<1>1. TurnAt(m, "ended", turn[m].screen, turn[m].end) BY <1>0, TurnMoves DEF TurnDropped
<1>2. turn[m].pc \in Serving /\ turn[m].pc \notin Inside BY DEF TurnDropped, Serving, Inside
<1>3. msg' = Retired(Batch(m), "done") /\ UNCHANGED <<actMu, turnMu, active, cancelled, pulse, draft, commit, note, reset, quiet>>
  BY DEF TurnDropped, store
<1> QED BY <1>1, <1>2, <1>3, BatchFence

LEMMA CompleteActivityFence == ASSUME FenceInv, NEW m \in Msg, CompleteActivity(m) PROVE FenceInv'
<1>0. ConvShape BY DEF FenceInv
<1>1. TurnAt(m, "settling", turn[m].screen, turn[m].end) BY <1>0, TurnMoves DEF CompleteActivity
<1>2. turn[m].pc \in Serving /\ turn[m].pc \in Inside BY DEF CompleteActivity, Serving, Inside
<1>3. msg' = Retired(Batch(m), "done") /\ UNCHANGED <<actMu, turnMu, active, cancelled, pulse, draft, commit, note, reset, quiet>>
  BY DEF CompleteActivity, store
<1> QED BY <1>1, <1>2, <1>3, BatchFence

LEMMA TurnBeginsFence == ASSUME FenceInv, NEW m \in Msg, TurnBegins(m) PROVE FenceInv'
<1>1. ConvShape /\ LockHolders /\ MessagesServed BY DEF FenceInv
<1>2. TurnAt(m, "begun", turn[m].screen, turn[m].end) BY <1>1, TurnMoves DEF TurnBegins
<1>3. turn[m].pc = "queued" /\ turnMu = None /\ turnMu' = m BY DEF TurnBegins
<1>4. UNCHANGED <<actMu, msg, draft, commit, note, reset, quiet>> BY DEF TurnBegins
<1>5. ConvShape' BY <1>1, <1>2 DEF TurnBegins, ConvShape, TurnAt, store
<1>6. /\ turn'[m].pc = "begun" /\ \A x \in Msg : x # m => turn'[x] = turn[x] BY <1>2 DEF TurnAt
<1>7. "begun" \in Inside \cap Serving /\ "begun" # "none" /\ "queued" \in Serving BY DEF Inside, Serving
<1>8. LockHolders' BY <1>1, <1>3, <1>4, <1>6, <1>7, NamesDiffer DEF LockHolders, Holder
<1>9. MessagesServed'
  <2>1. \A x \in Msg : turn'[x].pc \in Serving <=> turn[x].pc \in Serving BY <1>3, <1>6, <1>7
  <2>2. \A x \in Msg : turn[x].pc = "none" => turn'[x].pc = "none" BY <1>3, <1>6
  <2> QED BY <1>1, <1>4, <2>1, <2>2 DEF MessagesServed
<1> QED BY <1>5, <1>8, <1>9 DEF FenceInv

LEMMA SettlingFence ==
  ASSUME FenceInv, NEW m \in Msg, NEW pc, NEW s, NEW e, TurnAt(m, pc, s, e),
         turn[m].pc \in {"settling", "closing"}, pc \in {"closing", "ended"},
         pc = "closing" => turnMu' = turnMu, pc = "ended" => turnMu' = None,
         active' \in Msg \cup {None}, cancelled' \subseteq Msg,
         UNCHANGED <<actMu, msg, pulse, draft, commit, note, reset, quiet>>
  PROVE  FenceInv'
<1>1. ConvShape /\ LockHolders /\ MessagesServed BY DEF FenceInv
<1>2. /\ DOMAIN turn' = Msg /\ \A x \in Msg : DOMAIN turn'[x] = TurnFields
      /\ turn'[m].pc = pc /\ \A x \in Msg : x # m => turn'[x] = turn[x]
  BY DEF TurnAt
<1>3. ConvShape' BY <1>1, <1>2 DEF ConvShape
<1>4. /\ turn[m].pc \in Inside /\ turn[m].pc \notin Serving /\ turn[m].pc # "none"
      /\ pc \notin Serving /\ pc # "none" /\ (pc \in Inside <=> pc = "closing")
  BY DEF Inside, Serving
<1>5. turnMu = m BY <1>1, <1>4 DEF LockHolders
<1>6. LockHolders'
  <2>1. CASE pc = "closing"
    <3>1. \A x \in Msg : turn'[x].pc \in Inside <=> turn[x].pc \in Inside BY <1>2, <1>4, <2>1
    <3> QED BY <1>1, <2>1, <3>1 DEF LockHolders
  <2>2. CASE pc = "ended"
    <3>1. \A x \in Msg : turn'[x].pc \notin Inside BY <1>1, <1>2, <1>4, <1>5, <2>2 DEF LockHolders
    <3> QED BY <1>1, <1>5, <2>2, <3>1, NamesDiffer DEF LockHolders, Holder
  <2> QED BY <2>1, <2>2
<1>7. MessagesServed'
  <2>1. \A x \in Msg : turn'[x].pc \in Serving <=> turn[x].pc \in Serving BY <1>2, <1>4
  <2>2. \A x \in Msg : turn[x].pc = "none" => turn'[x].pc = "none" BY <1>2, <1>4
  <2> QED BY <1>1, <2>1, <2>2 DEF MessagesServed
<1> QED BY <1>3, <1>6, <1>7 DEF FenceInv

LEMMA SettleTurnFence == ASSUME FenceInv, NEW m \in Msg, SettleTurn(m) PROVE FenceInv'
<1>1. ConvShape BY DEF FenceInv
<1>2. \E r, e : Settling(m, r, e) BY DEF SettleTurn
<1>3. \E s, e : TurnAt(m, "closing", s, e) BY <1>1, <1>2, TurnSettles
<1>4. UNCHANGED <<turnMu, active, cancelled, actMu, msg, pulse, draft, commit, note, reset, quiet>> BY DEF SettleTurn, memory
<1>5. turn[m].pc = "settling" BY DEF SettleTurn
<1>6. active' \in Msg \cup {None} /\ cancelled' \subseteq Msg BY <1>1, <1>4 DEF ConvShape
<1> QED BY <1>3, <1>4, <1>5, <1>6, SettlingFence

LEMMA EndTurnFence == ASSUME FenceInv, NEW m \in Msg, EndTurn(m) PROVE FenceInv'
<1>1. ConvShape BY DEF FenceInv
<1>2. turn' = [turn EXCEPT ![m].pc = "ended", ![m].base = "nosession"] /\ turn[m].pc = "closing" /\ turnMu' = None BY DEF EndTurn
<1>3. TurnAt(m, "ended", turn[m].screen, turn[m].end) BY <1>1, <1>2, TurnMoves
<1>4. UNCHANGED <<actMu, msg, pulse, draft, commit, note, reset, quiet>> BY DEF EndTurn, store
<1>5. active' \in Msg \cup {None} /\ cancelled' \subseteq Msg BY <1>1 DEF ConvShape, EndTurn
<1> QED BY <1>2, <1>3, <1>4, <1>5, SettlingFence

\* A message moves on before it is in a turn.
LEMMA MsgFence ==
  ASSUME FenceInv, UNCHANGED <<turn, pulse, actMu, turnMu, active, cancelled, draft, commit, note, quiet>>,
         reset' = reset, NEW m \in Msg, DOMAIN msg' = Msg, DOMAIN msg'[m] = {"st", "ver", "lead"},
         \A x \in Msg : x # m => msg'[x] = msg[x],
         msg[m].st \in {"new", "prep"}, msg'[m].st \in {"prep", "debounced", "dropped"},
         msg'[m].ver \in Nat, msg'[m].lead \in Msg \cup {None}
  PROVE  FenceInv'
<1>1. ConvShape /\ LockHolders /\ MessagesServed BY DEF FenceInv
<1>2. ConvShape' BY <1>1 DEF ConvShape
<1>3. LockHolders' BY <1>1 DEF LockHolders
<1>4. turn[m].pc = "none" BY <1>1 DEF MessagesServed
<1>5. "none" \notin Serving BY DEF Serving
<1>6. MessagesServed'
  <2> SUFFICES ASSUME NEW x \in Msg
      PROVE  /\ msg'[x].ver \in Nat /\ msg'[x].lead \in Msg \cup {None}
             /\ msg'[x].st = "turn" => msg'[x].lead \in Msg /\ turn[msg'[x].lead].pc \in Serving
             /\ turn[x].pc \in Serving => msg'[x].st = "turn" /\ msg'[x].lead = x
             /\ msg'[x].st \in {"new", "prep", "debounced"} => turn[x].pc = "none"
    BY DEF MessagesServed
  <2>1. CASE x = m BY <1>4, <1>5, <2>1
  <2>2. CASE x # m BY <1>1, <2>2 DEF MessagesServed
  <2> QED BY <2>1, <2>2
<1> QED BY <1>2, <1>3, <1>6 DEF FenceInv

LEMMA AdmitFence == ASSUME FenceInv, Clocks, NEW m \in Msg, Admit(m) PROVE FenceInv'
<1>1. ConvShape /\ MessagesServed BY DEF FenceInv
<1>2. msg' = [msg EXCEPT ![m].st = "prep", ![m].ver = act.ver + 1] BY DEF Admit
<1>3. DOMAIN msg = Msg /\ DOMAIN msg[m] = {"st", "ver", "lead"} BY <1>1 DEF ConvShape
<1>4. DOMAIN msg' = Msg /\ DOMAIN msg'[m] = {"st", "ver", "lead"} /\ \A x \in Msg : x # m => msg'[x] = msg[x]
  BY <1>2, <1>3
<1>5. msg'[m].st = "prep" /\ msg'[m].ver = act.ver + 1 /\ msg'[m].lead = msg[m].lead
  BY <1>2, <1>3
<1>6. act.ver + 1 \in Nat BY DEF Clocks
<1>7. msg[m].lead \in Msg \cup {None} BY <1>1 DEF MessagesServed
<1>8. UNCHANGED <<turn, pulse, actMu, turnMu, active, cancelled, draft, commit, note, quiet>> /\ reset' = reset
  BY DEF Admit, store
<1>9. msg[m].st = "new" BY DEF Admit
<1> QED BY <1>4, <1>5, <1>6, <1>7, <1>8, <1>9, MsgFence

LEMMA UnusableFence == ASSUME FenceInv, NEW m \in Msg, Unusable(m) PROVE FenceInv'
<1>1. msg' = Retired({m}, "dropped") /\ msg[m].st = "prep" BY DEF Unusable
<1>2. /\ DOMAIN msg' = Msg /\ \A x \in Msg : x # m => msg'[x] = msg[x]
      /\ msg'[m].st = "dropped" /\ msg'[m].lead = None /\ msg'[m].ver = 0 /\ DOMAIN msg'[m] = {"st", "ver", "lead"}
  <2>1. m \in {m} /\ \A x \in Msg : x # m => x \notin {m} OBVIOUS
  <2> HIDE <1>1
  <2>2. \A B : msg' = Retired(B, "dropped") => DOMAIN msg' = Msg /\ (\A x \in Msg : x \notin B => msg'[x] = msg[x])
          /\ (\A x \in Msg : x \in B => msg'[x].st = "dropped" /\ msg'[x].lead = None /\ msg'[x].ver = 0
                                      /\ DOMAIN msg'[x] = {"st", "ver", "lead"})
    BY RetiredAt
  <2> QED BY <1>1, <2>1, <2>2
<1>3. UNCHANGED <<turn, pulse, actMu, turnMu, active, cancelled, draft, commit, note, quiet>> /\ reset' = reset
  BY DEF Unusable, store
<1>4. 0 \in Nat OBVIOUS
<1> QED BY <1>1, <1>2, <1>3, <1>4, MsgFence

\* What Dispatch does.
LEMMA Dispatched ==
  ASSUME ConvShape, NEW B \in SUBSET Msg, NEW lead \in Msg, Dispatch(B, lead)
  PROVE  /\ DOMAIN msg' = Msg /\ \A x \in Msg : x \notin B => msg'[x] = msg[x]
         /\ \A x \in B : DOMAIN msg'[x] = {"st", "ver", "lead"} /\ msg'[x].st = "turn" /\ msg'[x].lead = lead /\ msg'[x].ver = msg[x].ver
         /\ TurnAt(lead, "queued", turn[lead].screen, turn[lead].end)
<1>1. DOMAIN msg = Msg /\ \A x \in Msg : DOMAIN msg[x] = {"st", "ver", "lead"} BY DEF ConvShape
<1>2. msg' = [x \in Msg |-> IF x \in B THEN [msg[x] EXCEPT !.st = "turn", !.lead = lead] ELSE msg[x]] BY DEF Dispatch
<1>3. \A x \in B : msg'[x] = [msg[x] EXCEPT !.st = "turn", !.lead = lead] BY <1>2
<1>4. \A x \in B : DOMAIN msg'[x] = {"st", "ver", "lead"} /\ msg'[x].st = "turn" /\ msg'[x].lead = lead /\ msg'[x].ver = msg[x].ver
  <2> TAKE x \in B
  <2>1. msg'[x] = [msg[x] EXCEPT !.st = "turn", !.lead = lead] /\ DOMAIN msg[x] = {"st", "ver", "lead"} BY <1>1, <1>3
  <2> QED BY <2>1
<1>5. TurnAt(lead, "queued", turn[lead].screen, turn[lead].end) BY TurnMoves DEF Dispatch
<1> QED BY <1>2, <1>4, <1>5

LEMMA DispatchFence ==
  ASSUME FenceInv, NEW B \in SUBSET Msg, NEW lead \in B, Dispatch(B, lead), \A x \in B : msg[x].st \in {"prep", "debounced"},
         UNCHANGED <<pulse, actMu, turnMu, active, cancelled, draft, commit, note, reset, quiet>>
  PROVE  FenceInv'
<1>1. ConvShape /\ LockHolders /\ MessagesServed BY DEF FenceInv
<1>2. /\ DOMAIN msg' = Msg /\ \A x \in Msg : x \notin B => msg'[x] = msg[x]
      /\ \A x \in B : DOMAIN msg'[x] = {"st", "ver", "lead"} /\ msg'[x].st = "turn" /\ msg'[x].lead = lead /\ msg'[x].ver = msg[x].ver
      /\ TurnAt(lead, "queued", turn[lead].screen, turn[lead].end)
  BY <1>1, Dispatched
<1>3. /\ DOMAIN turn' = Msg /\ \A x \in Msg : DOMAIN turn'[x] = TurnFields
      /\ turn'[lead].pc = "queued" /\ \A x \in Msg : x # lead => turn'[x] = turn[x]
  BY <1>2 DEF TurnAt
<1>4. ConvShape'
  <2>1. \A x \in Msg : DOMAIN msg'[x] = {"st", "ver", "lead"} BY <1>1, <1>2 DEF ConvShape
  <2> QED BY <1>1, <1>2, <1>3, <2>1 DEF ConvShape
<1>5. \A x \in B : turn[x].pc = "none" BY <1>1 DEF MessagesServed
<1>6. "none" \notin Inside /\ "queued" \notin Inside /\ "none" \notin Serving /\ "queued" \in Serving BY DEF Inside, Serving
<1>7. \A x \in Msg : turn'[x].pc \in Inside <=> turn[x].pc \in Inside BY <1>3, <1>5, <1>6
<1>8. LockHolders' BY <1>1, <1>7 DEF LockHolders
<1>9. MessagesServed'
  <2> SUFFICES ASSUME NEW x \in Msg
      PROVE  /\ msg'[x].ver \in Nat /\ msg'[x].lead \in Msg \cup {None}
             /\ msg'[x].st = "turn" => msg'[x].lead \in Msg /\ turn'[msg'[x].lead].pc \in Serving
             /\ turn'[x].pc \in Serving => msg'[x].st = "turn" /\ msg'[x].lead = x
             /\ msg'[x].st \in {"new", "prep", "debounced"} => turn'[x].pc = "none"
    BY DEF MessagesServed
  <2>0. /\ msg[x].ver \in Nat /\ msg[x].lead \in Msg \cup {None}
        /\ msg[x].st = "turn" => msg[x].lead \in Msg /\ turn[msg[x].lead].pc \in Serving
        /\ turn[x].pc \in Serving => msg[x].st = "turn" /\ msg[x].lead = x
        /\ msg[x].st \in {"new", "prep", "debounced"} => turn[x].pc = "none"
    BY <1>1 DEF MessagesServed
  <2>1. CASE x \in B BY <1>2, <1>3, <1>5, <1>6, <2>0, <2>1
  <2>2. CASE x \notin B
    <3>1. msg'[x] = msg[x] /\ turn'[x] = turn[x] BY <1>2, <1>3, <2>2
    <3>2. msg[x].st = "turn" => turn'[msg[x].lead].pc \in Serving BY <1>3, <1>6, <2>0
    <3> QED BY <2>0, <3>1, <3>2
  <2> QED BY <2>1, <2>2
<1> QED BY <1>4, <1>8, <1>9 DEF FenceInv

LEMMA StartTurnFence == ASSUME FenceInv, NEW m \in Msg, StartTurn(m) PROVE FenceInv'
<1>1. Dispatch({m}, m) /\ msg[m].st = "prep" BY DEF StartTurn
<1>2. UNCHANGED <<pulse, actMu, turnMu, active, cancelled, draft, commit, note, reset, quiet>> BY DEF StartTurn, memory, store
<1> QED BY <1>1, <1>2, DispatchFence

LEMMA DebounceFiresFence == ASSUME FenceInv, DebounceFires PROVE FenceInv'
<1>1. PICK lead \in Debounced : Dispatch(Debounced, lead) BY DEF DebounceFires
<1>2. UNCHANGED <<pulse, actMu, turnMu, active, cancelled, draft, commit, note, reset, quiet>> BY DEF DebounceFires, memory, store
<1>3. Debounced \in SUBSET Msg /\ \A x \in Debounced : msg[x].st \in {"prep", "debounced"} BY DEF Debounced
<1> QED BY <1>1, <1>2, <1>3, DispatchFence

LEMMA DebounceFence == ASSUME FenceInv, NEW m \in Msg, Debounce(m) PROVE FenceInv'
<1>0. ConvShape /\ MessagesServed BY DEF FenceInv
<1>1. msg[m].st = "prep" BY DEF Debounce
<1>2. UNCHANGED <<pulse, actMu, turnMu, active, cancelled, draft, commit, note, reset, quiet>> BY DEF Debounce, memory, store
<1>3. CASE Dispatch(Debounced \cup {m}, m)
  <2>1. Debounced \cup {m} \in SUBSET Msg /\ m \in Debounced \cup {m} BY DEF Debounced
  <2>2. \A x \in Debounced \cup {m} : msg[x].st \in {"prep", "debounced"} BY <1>1 DEF Debounced
  <2> QED BY <1>2, <1>3, <2>1, <2>2, DispatchFence
<1>4. CASE msg' = [msg EXCEPT ![m].st = "debounced"] /\ UNCHANGED turn
  <2>3. DOMAIN msg = Msg /\ DOMAIN msg[m] = {"st", "ver", "lead"} BY <1>0 DEF ConvShape
  <2>4. DOMAIN msg' = Msg /\ DOMAIN msg'[m] = {"st", "ver", "lead"} /\ \A x \in Msg : x # m => msg'[x] = msg[x]
    BY <1>4, <2>3
  <2>5. msg'[m].st = "debounced" /\ msg'[m].ver = msg[m].ver /\ msg'[m].lead = msg[m].lead BY <1>4, <2>3
  <2>6. msg[m].lead \in Msg \cup {None} /\ msg[m].ver \in Nat BY <1>0 DEF MessagesServed
  <2> QED BY <1>1, <1>2, <1>4, <2>4, <2>5, <2>6, MsgFence
<1> QED BY <1>3, <1>4 DEF Debounce

\* What a crash leaves of a message, a turn and a pulse.
LEMMA CrashLeaves ==
  ASSUME ConvShape, Crash
  PROVE  /\ ConvShape'
         /\ \A x \in Msg : msg[x].st \notin Waiting => msg'[x] = msg[x]
         /\ \A x \in Msg : msg[x].st \in Waiting => msg'[x].st = "dropped" /\ msg'[x].lead = None /\ msg'[x].ver = 0
         /\ \A x \in Msg : turn[x].pc \in {"none", "ended"} => turn'[x] = turn[x]
         /\ \A x \in Msg : turn[x].pc \notin {"none", "ended"} =>
              turn'[x].pc = "ended" /\ turn'[x].end = "crashed" /\ turn'[x].screen = turn[x].screen
<1>1. msg' = Retired({m \in Msg : msg[m].st \in Waiting}, "dropped") BY DEF Crash, Waiting
<1>2. DOMAIN turn = Msg /\ \A x \in Msg : DOMAIN turn[x] = TurnFields BY DEF ConvShape
<1>3. /\ DOMAIN turn' = Msg /\ \A x \in Msg : turn[x].pc \in {"none", "ended"} => turn'[x] = turn[x]
      /\ \A x \in Msg : turn[x].pc \notin {"none", "ended"} =>
           turn'[x] = [turn[x] EXCEPT !.pc = "ended", !.end = "crashed", !.base = "nosession"]
  BY DEF Crash
<1>4. \A x \in Msg : turn[x].pc \notin {"none", "ended"} =>
        /\ turn'[x].pc = "ended" /\ turn'[x].end = "crashed" /\ turn'[x].screen = turn[x].screen
        /\ DOMAIN turn'[x] = TurnFields
  BY <1>2, <1>3 DEF TurnFields
<1>5. /\ \A x \in Msg : msg[x].st \notin Waiting => msg'[x] = msg[x]
      /\ \A x \in Msg : msg[x].st \in Waiting => msg'[x].st = "dropped" /\ msg'[x].lead = None /\ msg'[x].ver = 0
                                                 /\ DOMAIN msg'[x] = {"st", "ver", "lead"}
      /\ DOMAIN msg' = Msg
  BY <1>1, RetiredAt
<1>6. ConvShape'
  <2>1. DOMAIN pulse' = Pulse /\ \A p \in Pulse : DOMAIN pulse'[p] = {"st", "session", "draft"} BY DEF Crash, ConvShape
  <2>2. \A x \in Msg : DOMAIN turn'[x] = TurnFields BY <1>2, <1>3, <1>4
  <2>3. \A x \in Msg : DOMAIN msg'[x] = {"st", "ver", "lead"} BY <1>5 DEF ConvShape
  <2>4. /\ DOMAIN draft' = DraftFields /\ DOMAIN commit' = {"pc", "of"} /\ DOMAIN reset' = {"pc", "ver"}
        /\ active' = None /\ cancelled' = {}
    BY DEF Crash, NoDraft, NoCommit, NoReset, DraftFields
  <2> QED BY <1>3, <1>5, <2>1, <2>2, <2>3, <2>4 DEF ConvShape
<1> QED BY <1>3, <1>4, <1>5, <1>6

LEMMA CrashFence == ASSUME FenceInv, Crash PROVE FenceInv'
<1>1. ConvShape /\ LockHolders /\ MessagesServed BY DEF FenceInv
<1>2. /\ ConvShape'
      /\ \A x \in Msg : msg[x].st \notin Waiting => msg'[x] = msg[x]
      /\ \A x \in Msg : msg[x].st \in Waiting => msg'[x].st = "dropped" /\ msg'[x].lead = None /\ msg'[x].ver = 0
      /\ \A x \in Msg : turn[x].pc \in {"none", "ended"} => turn'[x] = turn[x]
      /\ \A x \in Msg : turn[x].pc \notin {"none", "ended"} => turn'[x].pc = "ended"
  BY <1>1, CrashLeaves
<1>3. \A x \in Msg : turn'[x].pc \in {"none", "ended"} /\ turn'[x].pc \notin Inside /\ turn'[x].pc \notin Serving
  BY <1>2 DEF Inside, Serving
<1>4. /\ draft'.pc = "idle" /\ commit'.pc = "idle" /\ note' = "idle" /\ reset'.pc = "idle" /\ quiet' = "idle"
      /\ actMu' = None /\ turnMu' = None
  BY DEF Crash, NoDraft, NoCommit, NoReset
<1>5. LockHolders' BY <1>3, <1>4, NamesDiffer DEF LockHolders, Holder
<1>6. MessagesServed'
  <2> SUFFICES ASSUME NEW x \in Msg
      PROVE  /\ msg'[x].ver \in Nat /\ msg'[x].lead \in Msg \cup {None}
             /\ msg'[x].st # "turn"
             /\ msg'[x].st \in {"new", "prep", "debounced"} => turn'[x].pc = "none"
    BY <1>3 DEF MessagesServed
  <2>1. CASE msg[x].st \in Waiting BY <1>2, <2>1
  <2>2. CASE msg[x].st \notin Waiting
    <3>1. msg[x].st # "turn" BY <2>2 DEF Waiting
    <3> QED BY <1>1, <1>2, <2>2, <3>1 DEF MessagesServed
  <2> QED BY <2>1, <2>2
<1> QED BY <1>2, <1>5, <1>6 DEF FenceInv

-----------------------------------------------------------------------------
(* The pending count                                                          *)

Unserved(f) == {m \in Msg : f[m].st \in Waiting}
Asking(r) == IF r.pc = "idle" THEN 0 ELSE 1
CountInv == Clocks /\ PendingIsExact

LEMMA CountIs ==
  /\ PendingIsExact <=> act.pending = Cardinality(Unserved(msg)) + Asking(reset)
  /\ PendingIsExact' <=> act'.pending = Cardinality(Unserved(msg')) + Asking(reset')
  /\ \A f : IsFiniteSet(Unserved(f)) /\ Cardinality(Unserved(f)) \in Nat
  /\ \A r : Asking(r) \in 0..1
<1>1. PendingIsExact <=> act.pending = Cardinality(Unserved(msg)) + Asking(reset) BY DEF PendingIsExact, Unserved, Asking, Waiting
<1>2. PendingIsExact' <=> act'.pending = Cardinality(Unserved(msg')) + Asking(reset') BY DEF PendingIsExact, Unserved, Asking, Waiting
<1>3. ASSUME NEW f PROVE IsFiniteSet(Unserved(f)) /\ Cardinality(Unserved(f)) \in Nat
  <2>1. Unserved(f) \subseteq Msg /\ IsFiniteSet(Msg) BY NamesAssumption DEF Unserved
  <2> QED BY <2>1, FS_Subset, FS_CardinalityType
<1>4. \A r : Asking(r) \in 0..1 BY DEF Asking
<1> QED BY <1>1, <1>2, <1>3, <1>4

LEMMA SameCount ==
  ASSUME CountInv, UNCHANGED <<act, now, boot>>, session' \in Nat, Unserved(msg') = Unserved(msg), Asking(reset') = Asking(reset)
  PROVE  CountInv'
<1>1. Clocks' BY DEF Clocks, CountInv
<1>2. PendingIsExact' BY CountIs DEF CountInv
<1> QED BY <1>1, <1>2 DEF CountInv

\* Somebody is admitted.
LEMMA OneMoreCounted ==
  ASSUME CountInv, act' = Admitted, now' = now + 1, UNCHANGED <<boot, session>>,
         Cardinality(Unserved(msg')) + Asking(reset') = Cardinality(Unserved(msg)) + Asking(reset) + 1
  PROVE  CountInv'
<1>1. act \in [ver : Nat, pending : Nat, last : Nat] /\ now \in Nat /\ boot \in Nat /\ session \in Nat BY DEF CountInv, Clocks
<1>2. act' = [ver |-> act.ver + 1, pending |-> act.pending + 1, last |-> now + 1] BY DEF Admitted
<1>3. act' \in [ver : Nat, pending : Nat, last : Nat] /\ act'.pending = act.pending + 1 /\ act'.last = now + 1 BY <1>1, <1>2
<1>4. Clocks' BY <1>1, <1>3 DEF Clocks
<1>5. PendingIsExact' BY <1>1, <1>3, CountIs DEF CountInv
<1> QED BY <1>4, <1>5 DEF CountInv

\* The numbers of completeInboundActivity and rollbackInboundActivity.
Less(n) == act.pending = n + Cardinality(Unserved(msg')) + Asking(reset')
LEMMA SomeFewerCounted ==
  ASSUME CountInv, NEW n \in Nat, NEW v, NEW durable \in BOOLEAN, Less(n), UNCHANGED <<now, boot, session>>,
         \/ act' = Completed(n, v, durable)
         \/ n = 1 /\ act' = RolledBack(v)
         \/ n = 1 /\ act' = [act EXCEPT !.pending = IF @ > 1 THEN @ - 1 ELSE 0]
  PROVE  CountInv'
<1>1. act \in [ver : Nat, pending : Nat, last : Nat] /\ now \in Nat /\ boot \in Nat /\ session \in Nat /\ act.last <= now BY DEF CountInv, Clocks
<1>2. Cardinality(Unserved(msg')) \in Nat /\ Asking(reset') \in Nat BY CountIs
<1>3. act.pending = n + Cardinality(Unserved(msg')) + Asking(reset') BY DEF Less
<1>4. act' \in [ver : Nat, pending : Nat, last : Nat] /\ act'.pending = act.pending - n /\ act'.last <= now
  <2>0. \A y : y \in {0, act.last} /\ act' = [act EXCEPT !.pending = act.pending - n, !.last = y] =>
          act' \in [ver : Nat, pending : Nat, last : Nat] /\ act'.pending = act.pending - n /\ act'.last <= now
    <3>1. act.pending - n \in Nat BY <1>2, <1>3
    <3>2. ASSUME NEW y \in {0, act.last}, act' = [act EXCEPT !.pending = act.pending - n, !.last = y]
          PROVE  act' \in [ver : Nat, pending : Nat, last : Nat] /\ act'.pending = act.pending - n /\ act'.last <= now
      <4>1. y \in Nat /\ y <= now BY <1>1, <3>2
      <4> DEFINE k == act.pending - n
      <4>2. k \in Nat /\ act' = [act EXCEPT !.pending = k, !.last = y] BY <3>1, <3>2
      <4> HIDE DEF k
      <4>3. act' \in [ver : Nat, pending : Nat, last : Nat] /\ act'.pending = k /\ act'.last = y
        BY <1>1, <4>1, <4>2
      <4> QED BY <4>1, <4>3 DEF k
    <3> QED BY <3>2
  <2>1. CASE act' = Completed(n, v, durable)
    <3>1. (IF act.pending > n THEN act.pending - n ELSE 0) = act.pending - n BY <1>1, <1>2, <1>3
    <3>2. \E y : y \in {0, act.last} /\ act' = [act EXCEPT !.pending = act.pending - n, !.last = y]
      <4>1. act' = [act EXCEPT !.pending = act.pending - n,
                               !.last = IF act.pending - n = 0 /\ (~durable \/ act.ver > v) THEN 0 ELSE act.last]
        BY <2>1, <3>1 DEF Completed
      <4> QED BY <4>1
    <3> QED BY <2>0, <3>2
  <2>2. CASE n = 1 /\ act' = RolledBack(v)
    <3>1. (IF act.pending > 0 THEN act.pending - 1 ELSE 0) = act.pending - n BY <1>1, <1>2, <1>3, <2>2
    <3>2. \E y : y \in {0, act.last} /\ act' = [act EXCEPT !.pending = act.pending - n, !.last = y]
      <4>1. act' = [act EXCEPT !.pending = act.pending - n,
                               !.last = IF act.ver = v /\ act.pending - n = 0 THEN 0 ELSE act.last]
        BY <2>2, <3>1 DEF RolledBack
      <4> QED BY <4>1
    <3> QED BY <2>0, <3>2
  <2>3. CASE n = 1 /\ act' = [act EXCEPT !.pending = IF @ > 1 THEN @ - 1 ELSE 0] BY <1>1, <1>2, <1>3, <2>3
  <2> QED BY <2>1, <2>2, <2>3
<1>5. Clocks' BY <1>1, <1>4 DEF Clocks
<1>6. PendingIsExact' BY <1>1, <1>2, <1>3, <1>4, CountIs
<1> QED BY <1>5, <1>6 DEF CountInv

LEMMA BatchCount ==
  ASSUME FenceInv, CountInv, NEW m \in Msg, NEW v, NEW durable \in BOOLEAN,
         act' = Completed(Tracked(m), v, durable), msg' = Retired(Batch(m), "done"), UNCHANGED <<now, boot, session, reset>>
  PROVE  CountInv'
<1>1. Batch(m) \subseteq Unserved(msg) BY DEF Batch, Unserved, Waiting
<1>2. IsFiniteSet(Unserved(msg)) /\ IsFiniteSet(Batch(m)) BY <1>1, CountIs, FS_Subset
<1>3. Unserved(msg') = Unserved(msg) \ Batch(m)
  <2>1. /\ \A x \in Msg : x \notin Batch(m) => msg'[x] = msg[x]
        /\ \A x \in Msg : x \in Batch(m) => msg'[x].st = "done"
    BY RetiredAt
  <2>2. "done" \notin Waiting BY DEF Waiting
  <2> QED BY <2>1, <2>2 DEF Unserved
<1>4. Unserved(msg) \cap Batch(m) = Batch(m) BY <1>1
<1>5. /\ Cardinality(Unserved(msg')) = Cardinality(Unserved(msg)) - Cardinality(Batch(m))
      /\ Tracked(m) \in Nat
  BY <1>2, <1>3, <1>4, FS_Difference, FS_CardinalityType, ZenonT(40) DEF Tracked
<1>6. Less(Tracked(m))
  <2>1. act.pending = Cardinality(Unserved(msg)) + Asking(reset) BY CountIs DEF CountInv
  <2>2. Cardinality(Unserved(msg)) \in Nat /\ Asking(reset) \in Nat /\ Asking(reset') = Asking(reset) BY CountIs
  <2>3. Tracked(m) = Cardinality(Batch(m)) BY DEF Tracked
  <2> QED BY <1>5, <2>1, <2>2, <2>3 DEF Less
<1> QED BY <1>5, <1>6, SomeFewerCounted

LEMMA DispatchCount ==
  ASSUME FenceInv, CountInv, NEW B \in SUBSET Msg, NEW lead \in Msg, Dispatch(B, lead), \A x \in B : msg[x].st \in {"prep", "debounced"},
         UNCHANGED <<act, now, boot, session, reset>>
  PROVE  CountInv'
<1>1. (\A x \in Msg : x \notin B => msg'[x] = msg[x]) /\ (\A y \in B : msg'[y].st = "turn")
  BY Dispatched DEF FenceInv
<1>2. {"prep", "debounced"} \subseteq Waiting /\ "turn" \in Waiting BY DEF Waiting
<1>3. \A x \in Msg : msg'[x].st \in Waiting <=> msg[x].st \in Waiting BY <1>1, <1>2
<1>4. Unserved(msg') = Unserved(msg) BY <1>3 DEF Unserved
<1>5. session' \in Nat /\ Asking(reset') = Asking(reset) BY DEF CountInv, Clocks
<1> QED BY <1>4, <1>5, SameCount

LEMMA MessageCount ==
  ASSUME FenceInv, CountInv, NEW m \in Msg, MessageStep(m) \/ DebounceFires \/ TurnDropped(m) \/ CompleteActivity(m)
  PROVE  CountInv'
<1>0. ConvShape BY DEF FenceInv
<1>a. DOMAIN msg = Msg /\ DOMAIN msg[m] = {"st", "ver", "lead"} BY <1>0 DEF ConvShape
<1>1. CASE Admit(m)
  <2>1. msg[m].st = "new" /\ msg' = [msg EXCEPT ![m].st = "prep", ![m].ver = act.ver + 1] BY <1>1 DEF Admit
  <2>2. msg'[m].st = "prep" /\ \A x \in Msg : x # m => msg'[x] = msg[x] BY <1>a, <2>1
  <2>3. "prep" \in Waiting /\ "new" \notin Waiting BY DEF Waiting
  <2>4. Unserved(msg') = Unserved(msg) \cup {m} /\ m \notin Unserved(msg) BY <2>1, <2>2, <2>3 DEF Unserved
  <2>5. Cardinality(Unserved(msg')) = Cardinality(Unserved(msg)) + 1 BY <2>4, CountIs, FS_AddElement
  <2>6. act' = Admitted /\ now' = now + 1 /\ UNCHANGED <<boot, session, reset>> BY <1>1 DEF Admit, store
  <2>7. Cardinality(Unserved(msg')) + Asking(reset') = Cardinality(Unserved(msg)) + Asking(reset) + 1 BY <2>5, <2>6, CountIs
  <2> QED BY <2>6, <2>7, OneMoreCounted
<1>2. CASE Unusable(m)
  <2>1. msg[m].st = "prep" /\ msg' = Retired({m}, "dropped") BY <1>2 DEF Unusable
  <2>2. msg' = [x \in Msg |-> IF x \in {m} THEN [NoMsg EXCEPT !.st = "dropped"] ELSE msg[x]] BY <2>1 DEF Retired
  <2>3. msg'[m].st = "dropped" /\ \A x \in Msg : x # m => msg'[x] = msg[x] BY <2>2 DEF NoMsg
  <2>4. "prep" \in Waiting /\ "dropped" \notin Waiting BY DEF Waiting
  <2>5. Unserved(msg') = Unserved(msg) \ {m} /\ m \in Unserved(msg) BY <2>1, <2>3, <2>4 DEF Unserved
  <2>6. Cardinality(Unserved(msg')) = Cardinality(Unserved(msg)) - 1 BY <2>5, CountIs, FS_RemoveElement
  <2>7. act' = RolledBack(msg[m].ver) /\ UNCHANGED <<now, boot, session, reset>> BY <1>2 DEF Unusable, store
  <2>8. Less(1)
    <3>1. act.pending = Cardinality(Unserved(msg)) + Asking(reset) BY CountIs DEF CountInv
    <3>2. Cardinality(Unserved(msg)) \in Nat /\ Asking(reset) \in Nat /\ Asking(reset') = Asking(reset) BY <2>7, CountIs
    <3> QED BY <2>6, <3>1, <3>2 DEF Less
  <2> QED BY <2>7, <2>8, SomeFewerCounted
<1>3. CASE StartTurn(m)
  <2>1. Dispatch({m}, m) /\ msg[m].st = "prep" /\ UNCHANGED <<act, now, boot, session, reset>> BY <1>3 DEF StartTurn, memory, store
  <2> QED BY <2>1, DispatchCount
<1>4. CASE Debounce(m)
  <2>1. msg[m].st = "prep" /\ UNCHANGED <<act, now, boot, session, reset>> BY <1>4 DEF Debounce, memory, store
  <2>2. CASE Dispatch(Debounced \cup {m}, m)
    <3>1. Debounced \cup {m} \in SUBSET Msg /\ \A x \in Debounced \cup {m} : msg[x].st \in {"prep", "debounced"} BY <2>1 DEF Debounced
    <3> QED BY <2>1, <2>2, <3>1, DispatchCount
  <2>3. CASE msg' = [msg EXCEPT ![m].st = "debounced"]
    <3>1. msg'[m].st = "debounced" /\ \A x \in Msg : x # m => msg'[x] = msg[x] BY <1>a, <2>3
    <3>2. "prep" \in Waiting /\ "debounced" \in Waiting BY DEF Waiting
    <3>3. Unserved(msg') = Unserved(msg) BY <2>1, <3>1, <3>2 DEF Unserved
    <3>4. session' \in Nat /\ Asking(reset') = Asking(reset) BY <2>1 DEF CountInv, Clocks
    <3> QED BY <2>1, <3>3, <3>4, SameCount
  <2> QED BY <1>4, <2>2, <2>3 DEF Debounce
<1>5. CASE DebounceFires
  <2>1. PICK lead \in Debounced : Dispatch(Debounced, lead) BY <1>5 DEF DebounceFires
  <2>2. UNCHANGED <<act, now, boot, session, reset>> BY <1>5 DEF DebounceFires, memory, store
  <2>3. Debounced \in SUBSET Msg /\ lead \in Msg /\ \A x \in Debounced : msg[x].st \in {"prep", "debounced"} BY DEF Debounced
  <2> QED BY <2>1, <2>2, <2>3, DispatchCount
<1>6. CASE TurnDropped(m)
  <2>1. /\ act' = Completed(Tracked(m), LatestBatchVersion(m), FALSE) /\ msg' = Retired(Batch(m), "done")
        /\ UNCHANGED <<now, boot, session, reset>>
    BY <1>6 DEF TurnDropped, store
  <2> QED BY <2>1, BatchCount
<1>7. CASE CompleteActivity(m)
  <2>1. /\ \E durable \in BOOLEAN : act' = Completed(Tracked(m), LatestBatchVersion(m), durable)
        /\ msg' = Retired(Batch(m), "done") /\ UNCHANGED <<now, boot, session, reset>>
    BY <1>7 DEF CompleteActivity, store
  <2> QED BY <2>1, BatchCount
<1> QED BY <1>1, <1>2, <1>3, <1>4, <1>5, <1>6, <1>7 DEF MessageStep

LEMMA ResetCount ==
  ASSUME FenceInv, CountInv, ResetAdmitted \/ ResetStep
  PROVE  CountInv'
<1>0. DOMAIN reset = {"pc", "ver"} BY DEF FenceInv, ConvShape
<1>1. CASE ResetAdmitted
  <2>1. reset.pc = "idle" /\ reset'.pc = "waiting" BY <1>1 DEF ResetAdmitted
  <2>2. Asking(reset) = 0 /\ Asking(reset') = 1 BY <2>1 DEF Asking
  <2>3. act' = Admitted /\ now' = now + 1 /\ UNCHANGED <<boot, session, msg>> BY <1>1 DEF ResetAdmitted, store
  <2>4. Cardinality(Unserved(msg')) + Asking(reset') = Cardinality(Unserved(msg)) + Asking(reset) + 1 BY <2>2, <2>3, CountIs
  <2> QED BY <2>3, <2>4, OneMoreCounted
<1>2. CASE ResetLock
  <2>1. reset.pc = "waiting" /\ reset'.pc = "locked" BY <1>0, <1>2 DEF ResetLock
  <2>2. Asking(reset) = 1 /\ Asking(reset') = 1 BY <2>1 DEF Asking
  <2>3. UNCHANGED <<act, now, boot, session, msg>> BY <1>2 DEF ResetLock, store
  <2> QED BY <2>2, <2>3, SameCount DEF CountInv, Clocks
<1>3. CASE ResetSession
  <2>1. reset.pc = "locked" /\ reset'.pc \in {"done", "failed"} BY <1>0, <1>3 DEF ResetSession
  <2>2. Asking(reset) = 1 /\ Asking(reset') = 1 BY <2>1 DEF Asking
  <2>3. UNCHANGED <<act, now, boot, msg>> BY <1>3 DEF ResetSession
  <2>4. session' \in Nat
    <3>1. session \in Nat BY DEF CountInv, Clocks
    <3>2. session' = session + 1 \/ session' = session BY <1>3 DEF ResetSession
    <3> QED BY <3>1, <3>2
  <2> QED BY <2>2, <2>3, <2>4, SameCount
<1>4. CASE ResetEnds
  <2>1. reset.pc \in {"done", "failed"} /\ reset'.pc = "idle" BY <1>4 DEF ResetEnds, NoReset
  <2>2. Asking(reset) = 1 /\ Asking(reset') = 0 BY <2>1 DEF Asking
  <2>3. UNCHANGED <<now, boot, session, msg>> BY <1>4 DEF ResetEnds, store
  <2>4. Less(1)
    <3>1. act.pending = Cardinality(Unserved(msg)) + Asking(reset) BY CountIs DEF CountInv
    <3>2. Cardinality(Unserved(msg)) \in Nat /\ Cardinality(Unserved(msg')) = Cardinality(Unserved(msg)) BY <2>3, CountIs
    <3> QED BY <2>2, <3>1, <3>2 DEF Less
  <2>5. act' = RolledBack(reset.ver) \/ act' = [act EXCEPT !.pending = IF @ > 1 THEN @ - 1 ELSE 0] BY <1>4 DEF ResetEnds
  <2> QED BY <2>3, <2>4, <2>5, SomeFewerCounted
<1> QED BY <1>1, <1>2, <1>3, <1>4 DEF ResetStep

LEMMA CrashCount == ASSUME FenceInv, CountInv, Crash PROVE CountInv'
<1>1. act' = [ver |-> 0, pending |-> 0, last |-> 0] /\ now' = now /\ boot' = boot + 1 /\ session' = session BY DEF Crash
<1>2. now \in Nat /\ boot \in Nat /\ session \in Nat BY DEF CountInv, Clocks
<1>3. Clocks' BY <1>1, <1>2 DEF Clocks
<1>4. \A x \in Msg : msg'[x].st \notin Waiting
  <2>1. "dropped" \notin Waiting BY DEF Waiting
  <2> QED BY <2>1, CrashLeaves DEF FenceInv
<1>5. Unserved(msg') = {} BY <1>4 DEF Unserved
<1>6. Asking(reset') = 0 BY DEF Crash, NoReset, Asking
<1>7. Cardinality(Unserved(msg')) = 0 BY <1>5, FS_EmptySet
<1>8. PendingIsExact' BY <1>1, <1>6, <1>7, CountIs
<1> QED BY <1>3, <1>8 DEF CountInv

-----------------------------------------------------------------------------
(* The steps by what they leave alone                                         *)

\* A running turn moves, writes rows or fills the screen.
TurnWrites(m) ==
    \/ TurnSilent(m) \/ AskUser(m) \/ ToolCalls(m) \/ ToolResults(m) \/ ModelFails(m)
    \/ StreamText(m) \/ Answer(m) \/ ReflexAnswer(m) \/ SettleTurn(m)

LEMMA TurnWritesFrame ==
  ASSUME NEW m \in Msg, TurnWrites(m)
  PROVE  UNCHANGED <<memory, msg, draft, commit, note, reset, quiet, session, pulse, confirmed, gone, visible, now, boot>>
<1>1. CASE TurnSilent(m) \/ AskUser(m) \/ ToolCalls(m) \/ ToolResults(m) \/ ModelFails(m)
  <2>1. \E from, to, rows : TurnStep(m, from, to, rows) BY <1>1 DEF TurnSilent, AskUser, ToolCalls, ToolResults, ModelFails
  <2> QED BY <2>1 DEF TurnStep
<1>2. CASE Answer(m) \/ ReflexAnswer(m)
  <2>1. \E rows : Delivered(m, rows) BY <1>2 DEF Answer, ReflexAnswer
  <2> QED BY <2>1 DEF Delivered
<1>3. CASE StreamText(m) BY <1>3 DEF StreamText, store
<1>4. CASE SettleTurn(m) BY <1>4 DEF SettleTurn
<1> QED BY <1>1, <1>2, <1>3, <1>4 DEF TurnWrites

LEMMA TurnWritesFence == ASSUME FenceInv, NEW m \in Msg, TurnWrites(m) PROVE FenceInv'
<1>0. {"ready", "asked", "tooling", "unwinding"} \subseteq Inside \cap Serving BY DEF Inside, Serving
<1>1. CASE TurnSilent(m) \/ AskUser(m) \/ ToolCalls(m) \/ ToolResults(m) \/ ModelFails(m)
  <2>1. \E from, to \in {"ready", "asked", "tooling", "unwinding"} : \E rows : TurnStep(m, from, to, rows)
    BY <1>1 DEF TurnSilent, AskUser, ToolCalls, ToolResults, ModelFails
  <2> QED BY <1>0, <2>1, TurnStepFence
<1>2. CASE Answer(m) \/ ReflexAnswer(m)
  <2>1. \E rows : Delivered(m, rows) BY <1>2 DEF Answer, ReflexAnswer
  <2> QED BY <2>1, DeliveredFence
<1>3. CASE StreamText(m) BY <1>3, StreamTextFence
<1>4. CASE SettleTurn(m) BY <1>4, SettleTurnFence
<1> QED BY <1>1, <1>2, <1>3, <1>4 DEF TurnWrites

\* The steps of Next, one disjunct for each group that the proofs tell apart.
Steps ==
    \/ \E m \in Msg : \/ Admit(m) \/ Unusable(m) \/ StartTurn(m) \/ Debounce(m) \/ TurnDropped(m) \/ CompleteActivity(m)
                      \/ TurnBegins(m) \/ EndTurn(m) \/ TurnReady(m) \/ TurnNotReady(m) \/ TurnWrites(m)
    \/ DebounceFires
    \/ \E id \in Msg \cup {None} : CancelTurn(id)
    \/ DraftRequested \/ DraftLock \/ DraftReads \/ DraftBarred \/ DraftEnds
    \/ \E p \in Pulse : CommitLock(p) \/ JournalConfirms(p)
    \/ CommitChecks \/ CommitSends \/ CommitRemembers \/ CommitEnds
    \/ NoteLock \/ NoteChecks \/ NoteDelivers
    \/ ResetAdmitted \/ ResetLock \/ ResetSession \/ ResetEnds
    \/ QuietAsked \/ QuietStops \/ QuietLock \/ QuietGivesUp \/ QuietRestarts \/ QuietReleases
    \/ Crash

LEMMA NextIsSteps == Next => Steps
BY DEF Next, Steps, MessageStep, TurnStarts, TurnSteps, TurnWrites, DraftStep, CommitStep, NoteStep, ResetStep, QuietStep

-----------------------------------------------------------------------------
(* The fences and the count hold in every step                               *)

LEMMA FenceStep == ASSUME FenceInv, Clocks, Steps PROVE FenceInv'
<1>1. ASSUME NEW m \in Msg, Admit(m) PROVE FenceInv' BY <1>1, AdmitFence
<1>2. ASSUME NEW m \in Msg, Unusable(m) PROVE FenceInv' BY <1>2, UnusableFence
<1>3. ASSUME NEW m \in Msg, StartTurn(m) PROVE FenceInv' BY <1>3, StartTurnFence
<1>4. ASSUME NEW m \in Msg, Debounce(m) PROVE FenceInv' BY <1>4, DebounceFence
<1>5. ASSUME NEW m \in Msg, TurnDropped(m) PROVE FenceInv' BY <1>5, TurnDroppedFence
<1>6. ASSUME NEW m \in Msg, CompleteActivity(m) PROVE FenceInv' BY <1>6, CompleteActivityFence
<1>7. ASSUME NEW m \in Msg, TurnBegins(m) PROVE FenceInv' BY <1>7, TurnBeginsFence
<1>8. ASSUME NEW m \in Msg, EndTurn(m) PROVE FenceInv' BY <1>8, EndTurnFence
<1>9. ASSUME NEW m \in Msg, TurnReady(m) PROVE FenceInv' BY <1>9, TurnReadyFence
<1>10. ASSUME NEW m \in Msg, TurnNotReady(m) PROVE FenceInv' BY <1>10, TurnNotReadyFence
<1>11. ASSUME NEW m \in Msg, TurnWrites(m) PROVE FenceInv' BY <1>11, TurnWritesFence
<1>12. ASSUME NEW p \in Pulse, CommitLock(p) PROVE FenceInv' BY <1>12, CommitLockFence
<1>13. ASSUME NEW p \in Pulse, JournalConfirms(p) PROVE FenceInv' BY <1>13, JournalConfirmsFence
<1>14. ASSUME NEW id \in Msg \cup {None}, CancelTurn(id) PROVE FenceInv' BY <1>14, CancelTurnFence
<1>15. ASSUME DebounceFires PROVE FenceInv' BY <1>15, DebounceFiresFence
<1>16. ASSUME DraftRequested PROVE FenceInv' BY <1>16, DraftRequestedFence
<1>17. ASSUME DraftLock PROVE FenceInv' BY <1>17, DraftLockFence
<1>18. ASSUME DraftReads PROVE FenceInv' BY <1>18, DraftReadsFence
<1>19. ASSUME DraftBarred PROVE FenceInv' BY <1>19, DraftBarredFence
<1>20. ASSUME DraftEnds PROVE FenceInv' BY <1>20, DraftEndsFence
<1>21. ASSUME CommitChecks PROVE FenceInv' BY <1>21, CommitChecksFence
<1>22. ASSUME CommitSends PROVE FenceInv' BY <1>22, CommitSendsFence
<1>23. ASSUME CommitRemembers PROVE FenceInv' BY <1>23, CommitRemembersFence
<1>24. ASSUME CommitEnds PROVE FenceInv' BY <1>24, CommitEndsFence
<1>25. ASSUME NoteLock PROVE FenceInv' BY <1>25, NoteLockFence
<1>26. ASSUME NoteChecks PROVE FenceInv' BY <1>26, NoteChecksFence
<1>27. ASSUME NoteDelivers PROVE FenceInv' BY <1>27, NoteDeliversFence
<1>28. ASSUME ResetAdmitted PROVE FenceInv' BY <1>28, ResetAdmittedFence
<1>29. ASSUME ResetLock PROVE FenceInv' BY <1>29, ResetLockFence
<1>30. ASSUME ResetSession PROVE FenceInv' BY <1>30, ResetSessionFence
<1>31. ASSUME ResetEnds PROVE FenceInv' BY <1>31, ResetEndsFence
<1>32. ASSUME QuietAsked PROVE FenceInv' BY <1>32, QuietAskedFence
<1>33. ASSUME QuietStops PROVE FenceInv' BY <1>33, QuietStopsFence
<1>34. ASSUME QuietLock PROVE FenceInv' BY <1>34, QuietLockFence
<1>35. ASSUME QuietGivesUp PROVE FenceInv' BY <1>35, QuietGivesUpFence
<1>36. ASSUME QuietRestarts PROVE FenceInv' BY <1>36, QuietRestartsFence
<1>37. ASSUME QuietReleases PROVE FenceInv' BY <1>37, QuietReleasesFence
<1>38. ASSUME Crash PROVE FenceInv' BY <1>38, CrashFence
<1> QED BY <1>1, <1>2, <1>3, <1>4, <1>5, <1>6, <1>7, <1>8, <1>9, <1>10, <1>11, <1>12, <1>13, <1>14, <1>15, <1>16, <1>17, <1>18, <1>19, <1>20, <1>21, <1>22, <1>23, <1>24, <1>25, <1>26, <1>27, <1>28, <1>29, <1>30, <1>31, <1>32, <1>33, <1>34, <1>35, <1>36, <1>37, <1>38 DEF Steps

LEMMA CountStep == ASSUME FenceInv, CountInv, Steps PROVE CountInv'
<1>1. ASSUME NEW m \in Msg, Admit(m) \/ Unusable(m) \/ StartTurn(m) \/ Debounce(m) \/ TurnDropped(m) \/ CompleteActivity(m) PROVE CountInv' BY <1>1, MessageCount DEF MessageStep
<1>2. ASSUME NEW m \in Msg, TurnBegins(m) \/ EndTurn(m) \/ TurnReady(m) \/ TurnNotReady(m) PROVE CountInv'
  <2>1. UNCHANGED <<act, now, boot, session, msg, reset>> BY <1>2 DEF TurnBegins, EndTurn, TurnReady, TurnNotReady, store
  <2>2. session' \in Nat /\ Unserved(msg') = Unserved(msg) /\ Asking(reset') = Asking(reset) BY <2>1 DEF CountInv, Clocks
  <2> QED BY <2>1, <2>2, SameCount
<1>3. ASSUME NEW m \in Msg, TurnWrites(m) PROVE CountInv'
  <2>1. UNCHANGED <<act, now, boot, session, msg, reset>> BY <1>3, TurnWritesFrame DEF memory
  <2>2. session' \in Nat /\ Unserved(msg') = Unserved(msg) /\ Asking(reset') = Asking(reset) BY <2>1 DEF CountInv, Clocks
  <2> QED BY <2>1, <2>2, SameCount
<1>4. ASSUME DebounceFires PROVE CountInv'
  <2>1. \E m \in Msg : TRUE BY <1>4 DEF DebounceFires, Debounced
  <2> QED BY <1>4, <2>1, MessageCount
<1>5. ASSUME NEW id \in Msg \cup {None}, CancelTurn(id) PROVE CountInv'
  <2>1. UNCHANGED <<act, now, boot, session, msg, reset>> BY <1>5 DEF CancelTurn, actors, store
  <2>2. session' \in Nat /\ Unserved(msg') = Unserved(msg) /\ Asking(reset') = Asking(reset) BY <2>1 DEF CountInv, Clocks
  <2> QED BY <2>1, <2>2, SameCount
<1>6. ASSUME DraftRequested \/ DraftLock \/ DraftReads \/ DraftBarred \/ DraftEnds PROVE CountInv'
  <2>1. UNCHANGED <<act, now, boot, session, msg, reset>> BY <1>6 DEF DraftRequested, DraftLock, DraftReads, DraftBarred, DraftEnds, memory, store
  <2>2. session' \in Nat /\ Unserved(msg') = Unserved(msg) /\ Asking(reset') = Asking(reset) BY <2>1 DEF CountInv, Clocks
  <2> QED BY <2>1, <2>2, SameCount
<1>7. ASSUME NEW p \in Pulse, CommitLock(p) \/ JournalConfirms(p) PROVE CountInv'
  <2>1. UNCHANGED <<act, now, boot, session, msg, reset>> BY <1>7 DEF CommitLock, JournalConfirms, memory, actors
  <2>2. session' \in Nat /\ Unserved(msg') = Unserved(msg) /\ Asking(reset') = Asking(reset) BY <2>1 DEF CountInv, Clocks
  <2> QED BY <2>1, <2>2, SameCount
<1>8. ASSUME CommitChecks \/ CommitSends \/ CommitRemembers \/ CommitEnds PROVE CountInv'
  <2>1. UNCHANGED <<act, now, boot, session, msg, reset>> BY <1>8 DEF CommitChecks, CommitSends, CommitRemembers, CommitEnds
  <2>2. session' \in Nat /\ Unserved(msg') = Unserved(msg) /\ Asking(reset') = Asking(reset) BY <2>1 DEF CountInv, Clocks
  <2> QED BY <2>1, <2>2, SameCount
<1>9. ASSUME NoteLock \/ NoteChecks \/ NoteDelivers PROVE CountInv'
  <2>1. UNCHANGED <<act, now, boot, session, msg, reset>> BY <1>9 DEF NoteLock, NoteChecks, NoteDelivers, store
  <2>2. session' \in Nat /\ Unserved(msg') = Unserved(msg) /\ Asking(reset') = Asking(reset) BY <2>1 DEF CountInv, Clocks
  <2> QED BY <2>1, <2>2, SameCount
<1>10. ASSUME ResetAdmitted \/ ResetLock \/ ResetSession \/ ResetEnds PROVE CountInv' BY <1>10, ResetCount DEF ResetStep
<1>11. ASSUME QuietAsked \/ QuietStops \/ QuietLock \/ QuietGivesUp \/ QuietReleases PROVE CountInv'
  <2>1. UNCHANGED <<act, now, boot, session, msg, reset>> BY <1>11 DEF QuietAsked, QuietStops, QuietLock, QuietGivesUp, QuietReleases, memory, actors, store
  <2>2. session' \in Nat /\ Unserved(msg') = Unserved(msg) /\ Asking(reset') = Asking(reset) BY <2>1 DEF CountInv, Clocks
  <2> QED BY <2>1, <2>2, SameCount
<1>12. ASSUME QuietRestarts PROVE CountInv'
  <2>1. UNCHANGED <<act, now, boot, msg, reset>> /\ session' = session + 1 BY <1>12 DEF QuietRestarts
  <2>2. session' \in Nat /\ Unserved(msg') = Unserved(msg) /\ Asking(reset') = Asking(reset) BY <2>1 DEF CountInv, Clocks
  <2> QED BY <2>1, <2>2, SameCount
<1>13. ASSUME Crash PROVE CountInv' BY <1>13, CrashCount
<1> QED BY <1>1, <1>2, <1>3, <1>4, <1>5, <1>6, <1>7, <1>8, <1>9, <1>10, <1>11, <1>12, <1>13 DEF Steps

-----------------------------------------------------------------------------
(* What has become of the pulses                                              *)

LEMMA PulseAt ==
  ASSUME ConvShape, NEW p \in Pulse, NEW st, PulseIs(p, st)
  PROVE  /\ pulse'[p].st = st /\ pulse'[p].session = pulse[p].session
         /\ \A q \in Pulse : q # p => pulse'[q] = pulse[q]
BY DEF ConvShape, PulseIs

\* One pulse leaves the set of drafts while nothing is sent or remembered.
LEMMA PulseCloses ==
  ASSUME ConvShape, Pulses, NEW p \in Pulse, p \notin visible, PulseIs(p, "refused"),
         commit'.pc = "idle" \/ (commit.pc = "idle" /\ UNCHANGED commit),
         commit.pc = "idle" \/ commit.of = p,
         visible' = visible, session' = session, confirmed' \subseteq confirmed \cup unfinalized,
         unfinalized' \subseteq unfinalized, unfinalized' \cup confirmed' = unfinalized \cup confirmed
  PROVE  Pulses'
<1>1. /\ pulse'[p].st = "refused" /\ pulse'[p].session = pulse[p].session
      /\ \A q \in Pulse : q # p => pulse'[q] = pulse[q]
  BY PulseAt
<1>2. commit'.pc = "idle" OBVIOUS
<1>3. ASSUME NEW q \in visible PROVE Seen(q)'
  <2>1. Seen(q) /\ q # p /\ pulse'[q] = pulse[q] BY <1>1, <1>3 DEF Pulses
  <2>2. pulse[q].st = "uncertain" \/ (pulse[q].st = "sent" /\ q \in unfinalized \cup confirmed) BY <2>1 DEF Seen
  <2> QED BY <2>1, <2>2 DEF Seen
<1>4. \A q \in Pulse : pulse'[q].st = "sent" => q \in visible BY <1>1 DEF Pulses
<1>5. \A q \in Pulse : pulse'[q].session \in Nat /\ pulse'[q].session <= session BY <1>1 DEF Pulses
<1> QED BY <1>2, <1>3, <1>4, <1>5 DEF Pulses

\* The history barrier moves receipts from the memory to the journal.
LEMMA PulsesHistory ==
  ASSUME Rows, Pulses, EnsureHistory \/ EnsureHistoryFails, UNCHANGED <<visible, pulse, session>>,
         commit' = commit \/ (commit'.pc = "idle" /\ commit.pc \notin {"sent", "remembered"})
         \/ (commit'.pc = "sending" /\ commit'.of = commit.of /\ commit.pc = "locked")
  PROVE  Pulses'
<1>1. /\ confirmed' \subseteq confirmed \cup unfinalized /\ unfinalized' \subseteq unfinalized
      /\ unfinalized' \cup confirmed' = unfinalized \cup confirmed
  BY HistoryMoves DEF HistoryMoved
<1>2. ASSUME NEW q \in visible PROVE Seen(q)'
  <2>1. Seen(q) BY <1>2 DEF Pulses
  <2> QED BY <1>1, <2>1 DEF Seen
<1> QED BY <1>1, <1>2 DEF Pulses

\* The session moves on, perhaps after the receipts were confirmed.
LEMMA PulsesSession ==
  ASSUME Pulses, session \in Nat, UNCHANGED <<visible, pulse, commit>>, session' = session + 1, unfinalized' \subseteq unfinalized,
         confirmed' \subseteq confirmed \cup unfinalized, unfinalized' \cup confirmed' = unfinalized \cup confirmed
  PROVE  Pulses'
<1>1. ASSUME NEW q \in visible PROVE Seen(q)'
  <2>1. Seen(q) BY <1>1 DEF Pulses
  <2> QED BY <2>1 DEF Seen
<1>2. \A q \in Pulse : pulse'[q].session \in Nat /\ pulse'[q].session <= session' BY DEF Pulses
<1> QED BY <1>1, <1>2 DEF Pulses

LEMMA PulsesStep == ASSUME FenceInv, CountInv, Pulses, Rows, Steps PROVE Pulses'
<1>1. ASSUME NEW m \in Msg, Admit(m) \/ Unusable(m) \/ StartTurn(m) \/ Debounce(m) \/ TurnDropped(m) \/ CompleteActivity(m) \/ TurnBegins(m) \/ EndTurn(m) PROVE Pulses'
  <2>1. UNCHANGED <<visible, unfinalized, confirmed, commit, pulse, session>> BY <1>1 DEF Admit, Unusable, StartTurn, Debounce, TurnDropped, CompleteActivity, TurnBegins, EndTurn, memory, store
  <2> QED BY <2>1 DEF Pulses, Seen
<1>2. ASSUME NEW m \in Msg, TurnWrites(m) PROVE Pulses'
  <2>1. UNCHANGED <<visible, unfinalized, confirmed, commit, pulse, session>> BY <1>2, TurnWritesFrame DEF memory
  <2> QED BY <2>1 DEF Pulses, Seen
<1>3. ASSUME NEW m \in Msg, TurnReady(m) \/ TurnNotReady(m) PROVE Pulses'
  <2>1. (EnsureHistory \/ EnsureHistoryFails) /\ UNCHANGED <<visible, commit, pulse, session>> BY <1>3 DEF TurnReady, TurnNotReady
  <2> QED BY <2>1, PulsesHistory
<1>4. ASSUME DebounceFires \/ DraftRequested \/ DraftLock \/ NoteLock \/ NoteDelivers \/ ResetAdmitted \/ ResetLock \/ ResetEnds \/ QuietAsked \/ QuietStops \/ QuietLock \/ QuietGivesUp \/ QuietReleases PROVE Pulses'
  <2>1. UNCHANGED <<visible, unfinalized, confirmed, commit, pulse, session>> BY <1>4 DEF DebounceFires, DraftRequested, DraftLock, NoteLock, NoteDelivers, ResetAdmitted, ResetLock, ResetEnds, QuietAsked, QuietStops, QuietLock, QuietGivesUp, QuietReleases, memory, actors, store
  <2> QED BY <2>1 DEF Pulses, Seen
<1>5. ASSUME NEW id \in Msg \cup {None}, CancelTurn(id) PROVE Pulses'
  <2>1. UNCHANGED <<visible, unfinalized, confirmed, commit, pulse, session>> BY <1>5 DEF CancelTurn, actors, store
  <2> QED BY <2>1 DEF Pulses, Seen
<1>6. ASSUME DraftReads \/ DraftBarred \/ NoteChecks PROVE Pulses'
  <2>1. (EnsureHistory \/ EnsureHistoryFails) /\ UNCHANGED <<visible, commit, pulse, session>> BY <1>6 DEF DraftReads, DraftBarred, NoteChecks
  <2> QED BY <2>1, PulsesHistory
<1>7. ASSUME DraftEnds PROVE Pulses'
  <2>1. UNCHANGED <<visible, unfinalized, confirmed, commit, session>> BY <1>7 DEF DraftEnds
  <2>2. CASE pulse' = pulse BY <2>1, <2>2 DEF Pulses, Seen
  <2>3. CASE \E q \in NewPulse : pulse' = [pulse EXCEPT ![q] = [st |-> "drafted", session |-> session, draft |-> draft]]
    <3>1. PICK q \in NewPulse : pulse' = [pulse EXCEPT ![q] = [st |-> "drafted", session |-> session, draft |-> draft]] BY <2>3
    <3>2. q \in Pulse /\ pulse[q].st = "none" BY DEF NewPulse
    <3>3. DOMAIN pulse = Pulse BY DEF FenceInv, ConvShape
    <3>4. /\ pulse'[q].st = "drafted" /\ pulse'[q].session = session /\ \A r \in Pulse : r # q => pulse'[r] = pulse[r]
      BY <3>1, <3>2, <3>3
    <3>5. q \notin visible BY <3>2 DEF Pulses, Seen
    <3>6. \A r \in visible : Seen(r)' BY <2>1, <3>4, <3>5 DEF Pulses, Seen
    <3>7. session \in Nat /\ session <= session BY DEF CountInv, Clocks
    <3>8. \A r \in Pulse : pulse'[r].session \in Nat /\ pulse'[r].session <= session BY <3>4, <3>7 DEF Pulses
    <3>9. \A r \in Pulse : pulse'[r].st = "sent" => r \in visible BY <3>4 DEF Pulses
    <3>10. commit.pc # "idle" => commit.of \in Pulse /\ pulse'[commit.of].st = "drafted" BY <3>4 DEF Pulses
    <3> QED BY <2>1, <3>6, <3>8, <3>9, <3>10 DEF Pulses
  <2> QED BY <1>7, <2>2, <2>3 DEF DraftEnds
<1>8. ASSUME NEW p \in Pulse, CommitLock(p) PROVE Pulses'
  <2>1. UNCHANGED <<visible, unfinalized, confirmed, session>> /\ commit.pc = "idle" /\ pulse[p].st = "drafted" BY <1>8 DEF CommitLock
  <2>2. p \notin visible BY <2>1 DEF Pulses, Seen
  <2>3. CASE PulseIs(p, "refused") /\ commit' = commit BY <2>1, <2>2, <2>3, PulseCloses DEF FenceInv
  <2>4. CASE commit' = [pc |-> "locked", of |-> p] /\ pulse' = pulse
    <3>1. commit'.pc = "locked" /\ commit'.of = p BY <2>4
    <3>2. \A q \in visible : Seen(q)' BY <2>1, <2>4 DEF Pulses, Seen
    <3> QED BY <2>1, <2>4, <3>1, <3>2 DEF Pulses
  <2> QED BY <1>8, <2>3, <2>4 DEF CommitLock
<1>9. ASSUME NEW p \in Pulse, JournalConfirms(p) PROVE Pulses'
  <2>1. UNCHANGED <<visible, unfinalized, commit, pulse, session>> /\ confirmed' = confirmed \cup {p} /\ pulse[p].st = "sent"
    BY <1>9 DEF JournalConfirms, memory, actors
  <2>2. \A q \in visible : Seen(q)' BY <2>1 DEF Pulses, Seen
  <2> QED BY <2>1, <2>2 DEF Pulses
<1>10. ASSUME CommitChecks PROVE Pulses'
  <2>0. visible' = visible /\ session' = session /\ commit.pc = "locked" /\ commit.of \in Pulse /\ pulse[commit.of].st = "drafted"
    BY <1>10 DEF CommitChecks, Pulses
  <2>1. commit.of \notin visible BY <2>0 DEF Pulses, Seen
  <2>2. NoCommit.pc = "idle" BY DEF NoCommit
  <2>3. CASE PulseIs(commit.of, "refused") /\ commit' = NoCommit /\ UNCHANGED history
    BY <2>0, <2>1, <2>2, <2>3, PulseCloses DEF FenceInv, history
  <2>4. CASE (EnsureHistory \/ EnsureHistoryFails) /\ commit' = NoCommit /\ pulse' = pulse
    BY <2>0, <2>2, <2>4, PulsesHistory
  <2>5. CASE EnsureHistory /\ PulseIs(commit.of, "refused") /\ commit' = NoCommit
    <3>1. /\ confirmed' \subseteq confirmed \cup unfinalized /\ unfinalized' \subseteq unfinalized
          /\ unfinalized' \cup confirmed' = unfinalized \cup confirmed
      BY <2>5, HistoryMoves DEF HistoryMoved
    <3> QED BY <2>0, <2>1, <2>2, <2>5, <3>1, PulseCloses DEF FenceInv
  <2>6. CASE EnsureHistory /\ commit' = [commit EXCEPT !.pc = "sending"] /\ pulse' = pulse
    <3>1. commit'.pc = "sending" /\ commit'.of = commit.of BY <2>6 DEF FenceInv, ConvShape
    <3> QED BY <2>0, <2>6, <3>1, PulsesHistory
  <2> QED BY <1>10, <2>3, <2>4, <2>5, <2>6 DEF CommitChecks
<1>11. ASSUME CommitSends PROVE Pulses'
  <2>0. /\ UNCHANGED <<unfinalized, confirmed, session>> /\ commit.pc = "sending" /\ commit.of \in Pulse /\ pulse[commit.of].st = "drafted"
    BY <1>11 DEF CommitSends, Pulses
  <2>1. commit.of \notin visible BY <2>0 DEF Pulses, Seen
  <2>2. NoCommit.pc = "idle" BY DEF NoCommit
  <2>3. CASE visible' = visible \cup {commit.of} /\ commit' = [commit EXCEPT !.pc = "sent"] /\ pulse' = pulse
    <3>1. commit'.pc = "sent" /\ commit'.of = commit.of BY <2>3 DEF FenceInv, ConvShape
    <3>2. \A q \in visible' : Seen(q)' BY <2>0, <2>3, <3>1 DEF Pulses, Seen
    <3> QED BY <2>0, <2>3, <3>1, <3>2 DEF Pulses
  <2>4. CASE commit' = NoCommit /\ UNCHANGED <<pulse, visible>>
    <3>1. \A q \in visible : Seen(q)' BY <2>0, <2>2, <2>4 DEF Pulses, Seen
    <3> QED BY <2>0, <2>2, <2>4, <3>1 DEF Pulses
  <2>5. CASE commit' = NoCommit /\ PulseIs(commit.of, "refused") /\ visible' = visible
    BY <2>0, <2>1, <2>2, <2>5, PulseCloses DEF FenceInv
  <2>6. CASE commit' = NoCommit /\ PulseIs(commit.of, "uncertain") /\ visible' \in {visible, visible \cup {commit.of}}
    <3>1. /\ pulse'[commit.of].st = "uncertain" /\ pulse'[commit.of].session = pulse[commit.of].session
          /\ \A q \in Pulse : q # commit.of => pulse'[q] = pulse[q]
      BY <2>0, <2>6, PulseAt DEF FenceInv
    <3>2. ASSUME NEW q \in visible' PROVE Seen(q)'
      <4>1. q = commit.of \/ (q \in visible /\ q \in Pulse /\ q # commit.of) BY <2>1, <2>6, <3>2 DEF Pulses
      <4> QED BY <2>0, <3>1, <4>1 DEF Pulses, Seen
    <3>3. \A q \in Pulse : pulse'[q].st = "sent" => q \in visible BY <3>1 DEF Pulses
    <3>4. \A q \in Pulse : pulse'[q].session \in Nat /\ pulse'[q].session <= session BY <2>0, <3>1 DEF Pulses
    <3> QED BY <2>0, <2>2, <2>6, <3>2, <3>3, <3>4 DEF Pulses
  <2> QED BY <1>11, <2>3, <2>4, <2>5, <2>6 DEF CommitSends
<1>12. ASSUME CommitRemembers PROVE Pulses'
  <2>1. /\ UNCHANGED <<visible, confirmed, pulse, session>> /\ commit.pc = "sent" /\ unfinalized' = unfinalized \cup {commit.of}
        /\ commit' = [commit EXCEPT !.pc = "remembered"]
    BY <1>12 DEF CommitRemembers
  <2>2. commit'.pc = "remembered" /\ commit'.of = commit.of BY <2>1 DEF FenceInv, ConvShape
  <2>3. \A q \in visible : Seen(q)' BY <2>1, <2>2 DEF Pulses, Seen
  <2> QED BY <2>1, <2>2, <2>3 DEF Pulses
<1>13. ASSUME CommitEnds PROVE Pulses'
  <2>1. /\ UNCHANGED <<visible, session>> /\ commit.pc = "remembered" /\ PulseIs(commit.of, "sent") /\ commit' = NoCommit
        /\ commit.of \in Pulse /\ commit.of \in visible /\ commit.of \in unfinalized \cup confirmed
    BY <1>13 DEF CommitEnds, Pulses
  <2>2. /\ confirmed' \subseteq confirmed \cup unfinalized /\ unfinalized' \subseteq unfinalized
        /\ unfinalized' \cup confirmed' = unfinalized \cup confirmed
    BY <1>13, HistoryMoves DEF HistoryMoved, CommitEnds
  <2>3. /\ pulse'[commit.of].st = "sent" /\ pulse'[commit.of].session = pulse[commit.of].session
        /\ \A q \in Pulse : q # commit.of => pulse'[q] = pulse[q]
    BY <2>1, PulseAt DEF FenceInv
  <2>4. ASSUME NEW q \in visible PROVE Seen(q)'
    <3>1. CASE q = commit.of BY <2>1, <2>2, <2>3, <3>1 DEF Seen
    <3>2. CASE q # commit.of
      <4>1. pulse'[q] = pulse[q] BY <2>3, <2>4, <3>2 DEF Pulses
      <4> QED BY <2>2, <2>4, <3>2, <4>1 DEF Pulses, Seen
    <3> QED BY <3>1, <3>2
  <2>5. commit'.pc = "idle" BY <2>1 DEF NoCommit
  <2>6. \A q \in Pulse : pulse'[q].st = "sent" => q \in visible BY <2>1, <2>3 DEF Pulses
  <2>7. \A q \in Pulse : pulse'[q].session \in Nat /\ pulse'[q].session <= session BY <2>1, <2>3 DEF Pulses
  <2> QED BY <2>1, <2>2, <2>4, <2>5, <2>6, <2>7 DEF Pulses
<1>14. ASSUME ResetSession PROVE Pulses'
  <2>1. UNCHANGED <<visible, pulse, commit>> BY <1>14 DEF ResetSession
  <2>2. CASE confirmed' = confirmed \cup unfinalized /\ unfinalized' = {} /\ session' = session + 1
    BY <2>1, <2>2, PulsesSession DEF CountInv, Clocks
  <2>3. CASE EnsureHistoryFails /\ session' = session BY <2>1, <2>3, PulsesHistory
  <2> QED BY <1>14, <2>2, <2>3 DEF ResetSession
<1>15. ASSUME QuietRestarts PROVE Pulses'
  <2>1. UNCHANGED <<visible, pulse, commit, unfinalized, confirmed>> /\ session' = session + 1 BY <1>15 DEF QuietRestarts
  <2> QED BY <2>1, PulsesSession DEF CountInv, Clocks
<1>16. ASSUME Crash PROVE Pulses'
  <2>1. UNCHANGED <<visible, session, confirmed>> /\ unfinalized' = {} /\ commit' = NoCommit BY <1>16 DEF Crash
  <2>2. DOMAIN pulse = Pulse /\ \A p \in Pulse : DOMAIN pulse[p] = {"st", "session", "draft"} BY DEF FenceInv, ConvShape
  <2>3. \A p \in Pulse : pulse'[p] = IF p = commit.of \/ (pulse[p].st = "sent" /\ p \notin confirmed)
                                     THEN [pulse[p] EXCEPT !.st = "uncertain", !.draft = NoDraft] ELSE pulse[p]
    BY <1>16 DEF Crash
  <2>4. ASSUME NEW p \in Pulse, p = commit.of \/ (pulse[p].st = "sent" /\ p \notin confirmed)
        PROVE  pulse'[p].st = "uncertain" /\ pulse'[p].session = pulse[p].session
    <3>1. pulse'[p] = [pulse[p] EXCEPT !.st = "uncertain", !.draft = NoDraft] BY <2>3, <2>4
    <3> QED BY <2>2, <3>1
  <2>5. ASSUME NEW p \in Pulse, ~(p = commit.of \/ (pulse[p].st = "sent" /\ p \notin confirmed))
        PROVE  pulse'[p] = pulse[p]
    BY <2>3, <2>5
  <2>6. commit'.pc = "idle" BY <2>1 DEF NoCommit
  <2>7. ASSUME NEW p \in visible PROVE Seen(p)'
    <3>1. p \in Pulse /\ Seen(p) BY <2>7 DEF Pulses
    <3>2. CASE p = commit.of \/ (pulse[p].st = "sent" /\ p \notin confirmed) BY <2>4, <3>1, <3>2 DEF Seen
    <3>3. CASE ~(p = commit.of \/ (pulse[p].st = "sent" /\ p \notin confirmed))
      <4>1. pulse'[p] = pulse[p] BY <2>5, <3>1, <3>3
      <4> QED BY <2>1, <3>1, <3>3, <4>1 DEF Seen
    <3> QED BY <3>2, <3>3
  <2>8. ASSUME NEW p \in Pulse PROVE (pulse'[p].st = "sent" => p \in visible) /\ pulse'[p].session = pulse[p].session
    <3>2. CASE p = commit.of \/ (pulse[p].st = "sent" /\ p \notin confirmed) BY <2>4, <3>2
    <3>3. CASE ~(p = commit.of \/ (pulse[p].st = "sent" /\ p \notin confirmed)) BY <2>5, <3>3 DEF Pulses
    <3> QED BY <3>2, <3>3
  <2>9. \A p \in Pulse : pulse'[p].session \in Nat /\ pulse'[p].session <= session BY <2>8 DEF Pulses
  <2> QED BY <2>1, <2>6, <2>7, <2>8, <2>9 DEF Pulses
<1> QED BY <1>1, <1>2, <1>3, <1>4, <1>5, <1>6, <1>7, <1>8, <1>9, <1>10, <1>11, <1>12, <1>13, <1>14, <1>15, <1>16 DEF Steps

-----------------------------------------------------------------------------
(* Drafts and their tokens                                                    *)

SameTime == UNCHANGED <<boot, now>> /\ act'.ver = act.ver
Admission == boot' = boot /\ act'.ver = act.ver + 1
Reboot == boot' = boot + 1

LEMMA FreshKept ==
  ASSUME Clocks, NEW d, Fresh(d, boot, act.ver, now), SameTime \/ Admission \/ Reboot
  PROVE  Fresh(d, boot', act'.ver, now')
<1>1. act.ver \in Nat /\ boot \in Nat BY DEF Clocks
<1>2. PICK i \in Nat : \E j \in Nat : d.token = <<i, j>> /\ i <= boot /\ (i = boot => j <= act.ver /\ (j = act.ver => d.seen = now)) BY DEF Fresh
<1>3. PICK j \in Nat : d.token = <<i, j>> /\ i <= boot /\ (i = boot => j <= act.ver /\ (j = act.ver => d.seen = now)) BY <1>2
<1>4. CASE SameTime BY <1>3, <1>4 DEF Fresh, SameTime
<1>5. CASE Admission
  <2>1. i <= boot' /\ (i = boot' => j <= act'.ver /\ j # act'.ver) BY <1>1, <1>3, <1>5 DEF Admission
  <2> QED BY <1>3, <2>1 DEF Fresh
<1>6. CASE Reboot
  <2>1. i <= boot' /\ i # boot' BY <1>1, <1>3, <1>6 DEF Reboot
  <2> QED BY <1>3, <2>1 DEF Fresh
<1> QED BY <1>4, <1>5, <1>6

LEMMA DraftsKept ==
  ASSUME Clocks, Drafts, SameTime \/ Admission \/ Reboot,
         draft'.pc = "thinking" => draft' = draft,
         \A p \in Pulse : pulse'[p].st = "drafted" => pulse[p].st = "drafted" /\ pulse'[p].draft = pulse[p].draft
  PROVE  Drafts'
<1>1. draft'.pc = "thinking" => Fresh(draft', boot', act'.ver, now') BY FreshKept DEF Drafts
<1>2. ASSUME NEW p \in Pulse, pulse'[p].st = "drafted" PROVE Fresh(pulse'[p].draft, boot', act'.ver, now')
  <2>1. pulse'[p].draft = pulse[p].draft /\ Fresh(pulse[p].draft, boot, act.ver, now) BY <1>2 DEF Drafts
  <2> QED BY <2>1, FreshKept
<1> QED BY <1>1, <1>2 DEF Drafts

\* The version is part of every token and no handler but an admission moves it.
LEMMA VersionKept ==
  ASSUME Clocks, NEW n, NEW v, NEW durable, UNCHANGED <<boot, now>>,
         act' = Completed(n, v, durable) \/ act' = RolledBack(v) \/ act' = [act EXCEPT !.pending = IF @ > 1 THEN @ - 1 ELSE 0]
  PROVE  SameTime
<1>1. act \in [ver : Nat, pending : Nat, last : Nat] BY DEF Clocks
<1>2. \E x, y : act' = [act EXCEPT !.pending = x, !.last = y] \/ act' = [act EXCEPT !.pending = x] BY DEF Completed, RolledBack
<1>3. act'.ver = act.ver BY <1>1, <1>2
<1> QED BY <1>3 DEF SameTime

LEMMA DraftsStep == ASSUME FenceInv, CountInv, Pulses, Drafts, Steps PROVE Drafts'
<1>1. ASSUME NEW m \in Msg, Admit(m) PROVE Drafts'
  <2>1. UNCHANGED <<draft, pulse, boot>> /\ act' = Admitted BY <1>1 DEF Admit, store
  <2>2. Admission BY <2>1 DEF Admission, Admitted
  <2> QED BY <2>1, <2>2, DraftsKept DEF CountInv
<1>2. ASSUME NEW m \in Msg, Unusable(m) PROVE Drafts'
  <2>1. UNCHANGED <<draft, pulse, boot, now>> BY <1>2 DEF Unusable, store
  <2>2. SameTime BY <1>2, <2>1, VersionKept DEF Unusable, store, CountInv
  <2> QED BY <2>1, <2>2, DraftsKept DEF CountInv
<1>3. ASSUME NEW m \in Msg, TurnDropped(m) PROVE Drafts'
  <2>1. UNCHANGED <<draft, pulse, boot, now>> BY <1>3 DEF TurnDropped, store
  <2>2. SameTime BY <1>3, <2>1, VersionKept DEF TurnDropped, store, CountInv
  <2> QED BY <2>1, <2>2, DraftsKept DEF CountInv
<1>4. ASSUME NEW m \in Msg, CompleteActivity(m) PROVE Drafts'
  <2>1. UNCHANGED <<draft, pulse, boot, now>> BY <1>4 DEF CompleteActivity, store
  <2>2. SameTime BY <1>4, <2>1, VersionKept DEF CompleteActivity, store, CountInv
  <2> QED BY <2>1, <2>2, DraftsKept DEF CountInv
<1>5. ASSUME NEW m \in Msg, StartTurn(m) \/ Debounce(m) \/ TurnBegins(m) \/ EndTurn(m) \/ TurnReady(m) \/ TurnNotReady(m) PROVE Drafts'
  <2>1. UNCHANGED <<draft, pulse, boot, now, act>> BY <1>5 DEF StartTurn, Debounce, TurnBegins, EndTurn, TurnReady, TurnNotReady, memory, store
  <2> QED BY <2>1, DraftsKept DEF CountInv, SameTime
<1>6. ASSUME NEW m \in Msg, TurnWrites(m) PROVE Drafts'
  <2>1. UNCHANGED <<draft, pulse, boot, now, act>> BY <1>6, TurnWritesFrame DEF memory
  <2> QED BY <2>1, DraftsKept DEF CountInv, SameTime
<1>7. ASSUME DebounceFires \/ NoteLock \/ NoteChecks \/ NoteDelivers \/ ResetLock \/ ResetSession \/ QuietAsked \/ QuietStops \/ QuietLock \/ QuietGivesUp \/ QuietRestarts \/ QuietReleases PROVE Drafts'
  <2>1. UNCHANGED <<draft, pulse, boot, now, act>> BY <1>7 DEF DebounceFires, NoteLock, NoteChecks, NoteDelivers, ResetLock, ResetSession, QuietAsked, QuietStops, QuietLock, QuietGivesUp, QuietRestarts, QuietReleases, memory, actors, store
  <2> QED BY <2>1, DraftsKept DEF CountInv, SameTime
<1>8. ASSUME NEW id \in Msg \cup {None}, CancelTurn(id) PROVE Drafts'
  <2>1. UNCHANGED <<draft, pulse, boot, now, act>> BY <1>8 DEF CancelTurn, actors, store
  <2> QED BY <2>1, DraftsKept DEF CountInv, SameTime
<1>9. ASSUME ResetAdmitted PROVE Drafts'
  <2>1. UNCHANGED <<draft, pulse, boot>> /\ act' = Admitted BY <1>9 DEF ResetAdmitted, store
  <2>2. Admission BY <2>1 DEF Admission, Admitted
  <2> QED BY <2>1, <2>2, DraftsKept DEF CountInv
<1>10. ASSUME ResetEnds PROVE Drafts'
  <2>1. UNCHANGED <<draft, pulse, boot, now>> BY <1>10 DEF ResetEnds, store
  <2>2. SameTime BY <1>10, <2>1, VersionKept DEF ResetEnds, store, CountInv
  <2> QED BY <2>1, <2>2, DraftsKept DEF CountInv
<1>11. ASSUME DraftRequested \/ DraftLock \/ DraftBarred PROVE Drafts'
  <2>1. UNCHANGED <<pulse, boot, now, act>> BY <1>11 DEF DraftRequested, DraftLock, DraftBarred, memory, store
  <2>2. DOMAIN draft = DraftFields /\ "pc" \in DraftFields BY DEF FenceInv, ConvShape, DraftFields
  <2>3. draft' = NoDraft \/ draft' = [draft EXCEPT !.pc = "locked"]
        \/ draft' = [draft EXCEPT !.pc = "waiting", !.anchor = LatestUserMessageAnchor.of]
    BY <1>11 DEF DraftRequested, DraftLock, DraftBarred
  <2>4. draft'.pc # "thinking"
    <3>1. CASE draft' = NoDraft BY <3>1 DEF NoDraft
    <3>2. CASE draft' = [draft EXCEPT !.pc = "locked"] BY <2>2, <3>2
    <3>3. CASE draft' = [draft EXCEPT !.pc = "waiting", !.anchor = LatestUserMessageAnchor.of] BY <2>2, <3>3
    <3> QED BY <2>3, <3>1, <3>2, <3>3
  <2> QED BY <2>1, <2>4, DraftsKept DEF CountInv, SameTime
<1>12. ASSUME DraftReads PROVE Drafts'
  <2>1. UNCHANGED <<pulse, boot, now, act>> BY <1>12 DEF DraftReads
  <2>2. DOMAIN draft = DraftFields /\ {"pc", "token", "seen", "rows"} \subseteq DraftFields BY DEF FenceInv, ConvShape, DraftFields
  <2>3. CASE LatestUserMessageAnchor.of # draft.anchor \/ UserActive(LatestUserMessageAnchor, act)
    <3>1. draft' = NoDraft BY <1>12, <2>3 DEF DraftReads
    <3>2. draft'.pc # "thinking" BY <3>1 DEF NoDraft
    <3> QED BY <2>1, <3>2, DraftsKept DEF CountInv, SameTime
  <2>4. CASE ~(LatestUserMessageAnchor.of # draft.anchor \/ UserActive(LatestUserMessageAnchor, act))
    <3>1. draft' = [draft EXCEPT !.pc = "thinking", !.token = Token, !.seen = now, !.rows = LatestDialogMessageID(dialog')]
      BY <1>12, <2>4 DEF DraftReads
    <3>2. draft'.token = Token /\ draft'.seen = now BY <2>2, <3>1
    <3>3. act.ver \in Nat /\ boot \in Nat /\ act.ver <= act.ver /\ boot <= boot BY DEF CountInv, Clocks
    <3>4. Fresh(draft', boot, act.ver, now) BY <3>2, <3>3 DEF Fresh, Token
    <3> QED BY <2>1, <3>4 DEF Drafts
  <2> QED BY <2>3, <2>4
<1>13. ASSUME DraftEnds PROVE Drafts'
  <2>1. UNCHANGED <<boot, now, act>> /\ draft' = NoDraft /\ draft.pc = "thinking" BY <1>13 DEF DraftEnds
  <2>2. draft'.pc # "thinking" BY <2>1 DEF NoDraft
  <2>3. CASE pulse' = pulse BY <2>1, <2>2, <2>3, DraftsKept DEF CountInv, SameTime
  <2>4. CASE \E q \in NewPulse : pulse' = [pulse EXCEPT ![q] = [st |-> "drafted", session |-> session, draft |-> draft]]
    <3>1. PICK q \in NewPulse : pulse' = [pulse EXCEPT ![q] = [st |-> "drafted", session |-> session, draft |-> draft]] BY <2>4
    <3>2. DOMAIN pulse = Pulse /\ q \in Pulse BY DEF FenceInv, ConvShape, NewPulse
    <3>3. pulse'[q].draft = draft /\ \A r \in Pulse : r # q => pulse'[r] = pulse[r] BY <3>1, <3>2
    <3>4. \A r \in Pulse : pulse'[r].st = "drafted" => Fresh(pulse'[r].draft, boot, act.ver, now) BY <2>1, <3>3 DEF Drafts
    <3> QED BY <2>1, <2>2, <3>4 DEF Drafts
  <2> QED BY <1>13, <2>3, <2>4 DEF DraftEnds
<1>14. ASSUME NEW p \in Pulse, CommitLock(p) PROVE Drafts'
  <2>1. UNCHANGED <<draft, boot, now, act>> /\ p \in Pulse BY <1>14 DEF CommitLock, Pulses
  <2>2. pulse' = pulse \/ PulseIs(p, "refused") \/ PulseIs(p, "uncertain") \/ PulseIs(p, "sent") BY <1>14 DEF CommitLock
  <2>3. \A q \in Pulse : pulse'[q].st = "drafted" => pulse[q].st = "drafted" /\ pulse'[q].draft = pulse[q].draft
    BY <2>1, <2>2, PulseAt DEF FenceInv
  <2> QED BY <2>1, <2>3, DraftsKept DEF CountInv, SameTime
<1>15. ASSUME NEW p \in Pulse, JournalConfirms(p) PROVE Drafts'
  <2>1. UNCHANGED <<draft, pulse, boot, now, act>> BY <1>15 DEF JournalConfirms, memory, actors
  <2> QED BY <2>1, DraftsKept DEF CountInv, SameTime
<1>16. ASSUME CommitChecks PROVE Drafts'
  <2>1. UNCHANGED <<draft, boot, now, act>> /\ commit.of \in Pulse BY <1>16 DEF CommitChecks, Pulses
  <2>2. pulse' = pulse \/ PulseIs(commit.of, "refused") \/ PulseIs(commit.of, "uncertain") \/ PulseIs(commit.of, "sent") BY <1>16 DEF CommitChecks
  <2>3. \A q \in Pulse : pulse'[q].st = "drafted" => pulse[q].st = "drafted" /\ pulse'[q].draft = pulse[q].draft
    BY <2>1, <2>2, PulseAt DEF FenceInv
  <2> QED BY <2>1, <2>3, DraftsKept DEF CountInv, SameTime
<1>17. ASSUME CommitSends PROVE Drafts'
  <2>1. UNCHANGED <<draft, boot, now, act>> /\ commit.of \in Pulse BY <1>17 DEF CommitSends, Pulses
  <2>2. pulse' = pulse \/ PulseIs(commit.of, "refused") \/ PulseIs(commit.of, "uncertain") \/ PulseIs(commit.of, "sent") BY <1>17 DEF CommitSends
  <2>3. \A q \in Pulse : pulse'[q].st = "drafted" => pulse[q].st = "drafted" /\ pulse'[q].draft = pulse[q].draft
    BY <2>1, <2>2, PulseAt DEF FenceInv
  <2> QED BY <2>1, <2>3, DraftsKept DEF CountInv, SameTime
<1>18. ASSUME CommitRemembers PROVE Drafts'
  <2>1. UNCHANGED <<draft, pulse, boot, now, act>> BY <1>18 DEF CommitRemembers
  <2> QED BY <2>1, DraftsKept DEF CountInv, SameTime
<1>19. ASSUME CommitEnds PROVE Drafts'
  <2>1. UNCHANGED <<draft, boot, now, act>> /\ commit.of \in Pulse BY <1>19 DEF CommitEnds, Pulses
  <2>2. pulse' = pulse \/ PulseIs(commit.of, "refused") \/ PulseIs(commit.of, "uncertain") \/ PulseIs(commit.of, "sent") BY <1>19 DEF CommitEnds
  <2>3. \A q \in Pulse : pulse'[q].st = "drafted" => pulse[q].st = "drafted" /\ pulse'[q].draft = pulse[q].draft
    BY <2>1, <2>2, PulseAt DEF FenceInv
  <2> QED BY <2>1, <2>3, DraftsKept DEF CountInv, SameTime
<1>20. ASSUME Crash PROVE Drafts'
  <2>1. Reboot /\ draft' = NoDraft BY <1>20 DEF Crash, Reboot
  <2>2. draft'.pc # "thinking" BY <2>1 DEF NoDraft
  <2>3. ASSUME NEW p \in Pulse, pulse'[p].st = "drafted" PROVE pulse'[p] = pulse[p]
    <3>1. DOMAIN pulse[p] = {"st", "session", "draft"} BY DEF FenceInv, ConvShape
    <3>2. pulse'[p] = pulse[p] \/ pulse'[p] = [pulse[p] EXCEPT !.st = "uncertain", !.draft = NoDraft] BY <1>20 DEF Crash
    <3>3. pulse'[p] = [pulse[p] EXCEPT !.st = "uncertain", !.draft = NoDraft] => pulse'[p].st = "uncertain" BY <3>1
    <3> QED BY <2>3, <3>2, <3>3
  <2> QED BY <2>1, <2>2, <2>3, DraftsKept DEF CountInv
<1> QED BY <1>1, <1>2, <1>3, <1>4, <1>5, <1>6, <1>7, <1>8, <1>9, <1>10, <1>11, <1>12, <1>13, <1>14, <1>15, <1>16, <1>17, <1>18, <1>19, <1>20 DEF Steps

-----------------------------------------------------------------------------
(* What is sent fits the dialogue                                             *)

\* Nobody else moves while a pulse is being sent.
LEMMA SendingAlone ==
  ASSUME FenceInv, commit.pc = "sending"
  PROVE  /\ turnMu = Commit /\ actMu = Commit /\ turnMu # None /\ actMu # None /\ draft.pc \notin {"locked", "thinking"}
         /\ note = "idle" /\ reset.pc # "locked" /\ quiet # "quiet" /\ \A m \in Msg : turn[m].pc \notin Inside
BY NamesDiffer DEF FenceInv, LockHolders

LEMMA SendingStep == ASSUME FenceInv, CountInv, Pulses, Rows, Drafts, SendingFits, Steps PROVE SendingFits'
<1>1. ASSUME NEW m \in Msg, StartTurn(m) \/ Debounce(m) \/ TurnBegins(m) \/ EndTurn(m) PROVE SendingFits'
  <2>1. UNCHANGED <<commit, pulse, now, act, session, dialog>> BY <1>1 DEF StartTurn, Debounce, TurnBegins, EndTurn, memory, store
  <2> QED BY <2>1 DEF SendingFits, Fits
<1>2. ASSUME NEW m \in Msg, Admit(m) \/ Unusable(m) \/ TurnDropped(m) \/ CompleteActivity(m) PROVE SendingFits'
  <2>1. commit' = commit /\ commit.pc # "sending" BY <1>2, SendingAlone DEF Admit, Unusable, TurnDropped, CompleteActivity
  <2> QED BY <2>1 DEF SendingFits
<1>3. ASSUME NEW m \in Msg, TurnReady(m) \/ TurnNotReady(m) PROVE SendingFits'
  <2>1. commit' = commit /\ commit.pc # "sending" BY <1>3, SendingAlone DEF TurnReady, TurnNotReady, Inside
  <2> QED BY <2>1 DEF SendingFits
<1>4. ASSUME NEW m \in Msg, TurnWrites(m) PROVE SendingFits'
  <2>1. turn[m].pc \in Inside
    BY <1>4 DEF TurnWrites, TurnSilent, AskUser, ToolCalls, ToolResults, ModelFails, TurnStep, StreamText, Answer, ReflexAnswer, Delivered, SettleTurn, Inside
  <2>2. commit' = commit /\ commit.pc # "sending" BY <1>4, <2>1, SendingAlone, TurnWritesFrame
  <2> QED BY <2>2 DEF SendingFits
<1>5. ASSUME DebounceFires \/ DraftRequested \/ DraftLock \/ NoteLock \/ ResetLock \/ QuietAsked \/ QuietStops \/ QuietLock \/ QuietGivesUp \/ QuietReleases PROVE SendingFits'
  <2>1. UNCHANGED <<commit, pulse, now, act, session, dialog>> BY <1>5 DEF DebounceFires, DraftRequested, DraftLock, NoteLock, ResetLock, QuietAsked, QuietStops, QuietLock, QuietGivesUp, QuietReleases, memory, actors, store
  <2> QED BY <2>1 DEF SendingFits, Fits
<1>6. ASSUME NEW id \in Msg \cup {None}, CancelTurn(id) PROVE SendingFits'
  <2>1. UNCHANGED <<commit, pulse, now, act, session, dialog>> BY <1>6 DEF CancelTurn, actors, store
  <2> QED BY <2>1 DEF SendingFits, Fits
<1>7. ASSUME DraftReads \/ DraftBarred \/ DraftEnds \/ NoteChecks \/ ResetAdmitted \/ ResetSession \/ ResetEnds \/ QuietRestarts PROVE SendingFits'
  <2>1. commit' = commit /\ commit.pc # "sending" BY <1>7, SendingAlone DEF DraftReads, DraftBarred, DraftEnds, NoteChecks, ResetAdmitted, ResetSession, ResetEnds, QuietRestarts
  <2> QED BY <2>1 DEF SendingFits
<1>8. ASSUME NoteDelivers PROVE SendingFits'
  <2>1. commit' = commit /\ commit.pc # "sending" BY <1>8, SendingAlone DEF NoteDelivers
  <2> QED BY <2>1 DEF SendingFits
<1>9. ASSUME NEW p \in Pulse, JournalConfirms(p) PROVE SendingFits'
  <2>1. UNCHANGED <<commit, pulse, now, act, session, dialog>> BY <1>9 DEF JournalConfirms, memory, actors
  <2> QED BY <2>1 DEF SendingFits, Fits
<1>10. ASSUME NEW p \in Pulse, CommitLock(p) PROVE SendingFits'
  <2>1. commit'.pc # "sending" BY <1>10 DEF CommitLock
  <2> QED BY <2>1 DEF SendingFits
<1>11. ASSUME CommitChecks PROVE SendingFits'
  <2>0. commit.of \in Pulse /\ pulse[commit.of].st = "drafted" /\ commit.pc = "locked" BY <1>11 DEF CommitChecks, Pulses
  <2>1. CASE commit'.pc # "sending" BY <2>1 DEF SendingFits
  <2>2. CASE commit'.pc = "sending"
    <3>1. NoCommit.pc # "sending" BY DEF NoCommit
    <3>2. /\ session = pulse[commit.of].session /\ ~Stale(pulse[commit.of].draft, dialog')
          /\ commit' = [commit EXCEPT !.pc = "sending"] /\ UNCHANGED <<pulse, act, now, session>>
      BY <1>11, <2>2, <3>1 DEF CommitChecks
    <3>3. commit'.of = commit.of BY <3>2 DEF FenceInv, ConvShape
    <3>4. act.pending \in Nat /\ act.ver \in Nat BY DEF CountInv, Clocks
    <3>5. ~(act.pending > 0) /\ pulse[commit.of].draft.token = <<boot, act.ver>> /\ pulse[commit.of].draft.rows = Len(dialog')
      BY <3>2 DEF Stale, UserActive, Token, LatestDialogMessageID
    <3>6. act.pending = 0 BY <3>4, <3>5
    <3>7. Fresh(pulse[commit.of].draft, boot, act.ver, now) BY <2>0 DEF Drafts
    <3>8. pulse[commit.of].draft.seen = now BY <3>5, <3>7 DEF Fresh
    <3>9. Fits(commit.of)' BY <3>2, <3>3, <3>5, <3>6, <3>8 DEF Fits
    <3> QED BY <3>9 DEF SendingFits
  <2> QED BY <2>1, <2>2
<1>12. ASSUME CommitSends \/ CommitRemembers \/ CommitEnds PROVE SendingFits'
  <2>1. commit' = NoCommit \/ commit' = [commit EXCEPT !.pc = "sent"] \/ commit' = [commit EXCEPT !.pc = "remembered"]
    BY <1>12 DEF CommitSends, CommitRemembers, CommitEnds
  <2>2. commit'.pc # "sending" BY <2>1 DEF NoCommit, FenceInv, ConvShape
  <2> QED BY <2>2 DEF SendingFits
<1>13. ASSUME Crash PROVE SendingFits'
  <2>1. commit'.pc # "sending" BY <1>13 DEF Crash, NoCommit
  <2> QED BY <2>1 DEF SendingFits
<1> QED BY <1>1, <1>2, <1>3, <1>4, <1>5, <1>6, <1>7, <1>8, <1>9, <1>10, <1>11, <1>12, <1>13 DEF Steps

-----------------------------------------------------------------------------
(* Rows are only added at the end                                             *)

Extends ==
    /\ dialog' \in Seq(RowType) /\ Len(dialog) \in Nat /\ Len(dialog') \in Nat /\ Len(dialog) <= Len(dialog')
    /\ \A i \in 1..Len(dialog) : i \in 1..Len(dialog') /\ dialog'[i] = dialog[i]

LEMMA GrownExtends ==
  ASSUME Rows, NEW rows, Grown(rows)
  PROVE  /\ Extends /\ Len(rows) \in Nat /\ Len(dialog') = Len(dialog) + Len(rows)
         /\ \A i \in 1..Len(rows) : dialog'[Len(dialog) + i] = rows[i]
<1>1. dialog \in Seq(RowType) /\ rows \in Seq(RowType) /\ dialog' = dialog \o rows BY DEF Rows, Grown
<1>2. Len(dialog) \in Nat /\ Len(rows) \in Nat /\ dialog' \in Seq(RowType) /\ Len(dialog') = Len(dialog) + Len(rows) BY <1>1
<1>3. \A i \in 1..Len(dialog) : i \in 1..Len(dialog') /\ dialog'[i] = dialog[i] BY <1>1, <1>2
<1>4. \A i \in 1..Len(rows) : dialog'[Len(dialog) + i] = rows[i] BY <1>1, <1>2
<1> QED BY <1>2, <1>3, <1>4 DEF Extends

LEMMA SameExtends == ASSUME Rows, dialog' = dialog PROVE Extends
<1>1. dialog \in Seq(RowType) BY DEF Rows
<1>2. Len(dialog) \in Nat BY <1>1
<1> QED BY <1>1, <1>2 DEF Extends

LEMMA HistoryExtends == ASSUME Rows, Pulses, EnsureHistory \/ EnsureHistoryFails PROVE Extends
BY HistoryMoves, GrownExtends DEF HistoryMoved

\* A row that is appended.
LEMMA RowGrows ==
  ASSUME Rows, now \in Nat, NEW of \in Msg \cup Pulse \cup {Note}, NEW role \in {"user", "tool", "assistant"}, NEW at \in {0, now},
         dialog' = dialog \o <<Row(role, of, at)>> \/ dialog' = Append(dialog, Row(role, of, at))
  PROVE  /\ Grown(<<Row(role, of, at)>>) /\ Extends /\ Len(dialog') = Len(dialog) + 1 /\ dialog'[Len(dialog) + 1].of = of
<1> DEFINE r == Row(role, of, at)
<1>1. r \in RowType /\ r.of = of BY DEF Row, RowType
<1> HIDE DEF r
<1>2. <<r>> \in Seq(RowType) /\ Len(<<r>>) = 1 /\ <<r>>[1] = r BY <1>1
<1>3. dialog \in Seq(RowType) BY DEF Rows
<1>4. dialog' = dialog \o <<r>> BY <1>1, <1>3 DEF r
<1>5. Grown(<<r>>) BY <1>2, <1>4 DEF Grown
<1>6. Extends /\ Len(dialog') = Len(dialog) + 1 /\ dialog'[Len(dialog) + 1] = r
  <2>1. 1 \in 1..Len(<<r>>) BY <1>2
  <2> QED BY <1>2, <1>5, <2>1, GrownExtends
<1> QED BY <1>1, <1>5, <1>6 DEF r

\* What a step of a running turn does to it and to the dialogue.
Own(m, rows) == rows = <<>> \/ \E role \in {"user", "tool", "assistant"}, at \in {0, now} : rows = <<Row(role, m, at)>>
Wrote(m, pc, s, rows) ==
    /\ TurnAt(m, pc, s, turn[m].end) /\ dialog' = dialog \o rows /\ Own(m, rows)
    /\ turn[m].pc \in {"ready", "asked", "tooling"} /\ pc \in {"asked", "tooling", "unwinding"}

LEMMA TurnWrote ==
  ASSUME ConvShape, Rows, NEW m \in Msg, TurnWrites(m)
  PROVE  SettleTurn(m) \/ \E pc, s, rows : Wrote(m, pc, s, rows)
<1>1. ASSUME NEW from \in {"ready", "asked", "tooling"}, NEW to \in {"asked", "tooling", "unwinding"}, NEW rows,
             TurnStep(m, from, to, rows), Own(m, rows)
      PROVE  Wrote(m, to, turn[m].screen, rows)
  <2>1. turn' = [turn EXCEPT ![m].pc = to] /\ turn[m].pc = from /\ dialog' = dialog \o rows BY <1>1 DEF TurnStep
  <2> QED BY <1>1, <2>1, TurnMoves DEF Wrote
<1>2. ASSUME NEW rows, Delivered(m, rows), Own(m, rows) PROVE Wrote(m, "unwinding", "full", rows)
  <2>1. turn' = [turn EXCEPT ![m].pc = "unwinding", ![m].screen = "full"] /\ turn[m].pc = "asked" /\ dialog' = dialog \o rows BY <1>2 DEF Delivered
  <2> QED BY <1>2, <2>1, TurnMoves DEF Wrote
<1>3. Own(m, <<>>) /\ Own(m, <<Row("assistant", m, 0)>>) /\ Own(m, <<Row("tool", m, 0)>>) /\ Own(m, <<Row("user", m, now)>>) BY DEF Own
<1>4. CASE TurnSilent(m) BY <1>1, <1>3, <1>4 DEF TurnSilent
<1>5. CASE AskUser(m) BY <1>1, <1>3, <1>5 DEF AskUser
<1>6. CASE ToolCalls(m) BY <1>1, <1>3, <1>6 DEF ToolCalls
<1>7. CASE ToolResults(m) BY <1>1, <1>3, <1>7 DEF ToolResults
<1>8. CASE ModelFails(m) BY <1>1, <1>3, <1>8 DEF ModelFails
<1>9. CASE Answer(m) \/ ReflexAnswer(m) BY <1>2, <1>3, <1>9 DEF Answer, ReflexAnswer
<1>10. CASE StreamText(m)
  <2>1. TurnAt(m, turn[m].pc, "partial", turn[m].end) /\ turn[m].pc = "asked" /\ dialog' = dialog BY <1>10, TurnMoves DEF StreamText, store
  <2>2. dialog \in Seq(RowType) BY DEF Rows
  <2>3. dialog \o <<>> = dialog BY <2>2
  <2>4. Wrote(m, turn[m].pc, "partial", <<>>) BY <1>3, <2>1, <2>3 DEF Wrote
  <2> QED BY <2>4
<1>11. CASE SettleTurn(m) BY <1>11
<1> QED BY <1>4, <1>5, <1>6, <1>7, <1>8, <1>9, <1>10, <1>11 DEF TurnWrites

LEMMA OwnExtends == ASSUME Rows, now \in Nat, NEW m \in Msg, NEW rows, Own(m, rows), dialog' = dialog \o rows PROVE Extends
<1>1. CASE rows = <<>>
  <2>1. dialog \in Seq(RowType) BY DEF Rows
  <2>2. dialog \o <<>> = dialog BY <2>1
  <2> QED BY <1>1, <2>2, SameExtends
<1>2. CASE rows # <<>>
  <2>1. PICK role \in {"user", "tool", "assistant"} : \E at \in {0, now} : rows = <<Row(role, m, at)>> BY <1>2 DEF Own
  <2>2. PICK at \in {0, now} : rows = <<Row(role, m, at)>> BY <2>1
  <2> QED BY <2>2, RowGrows
<1> QED BY <1>1, <1>2

-----------------------------------------------------------------------------
(* The model sees every pulse that people can see                             *)

Minds == {"ready", "asked", "tooling"}
Thinking == draft.pc = "thinking" \/ \E m \in Msg : turn[m].pc \in Minds
Known == \A p \in visible : pulse[p].session = session /\ pulse[p].st # "uncertain" => InDialog(p)

LEMMA CompleteIs == (DialogueComplete <=> (Thinking => Known)) /\ (DialogueComplete' <=> (Thinking' => Known'))
BY DEF DialogueComplete, Thinking, Known, Minds

LEMMA ThinkingAlone ==
  ASSUME FenceInv, Thinking
  PROVE  /\ turnMu \in Msg \cup {Draft} /\ turnMu # None /\ commit.pc = "idle" /\ note = "idle" /\ reset.pc # "locked" /\ quiet # "quiet"
         /\ draft.pc = "thinking" => turnMu = Draft
         /\ \A m \in Msg : turn[m].pc \in Minds => turnMu = m
<1>1. Minds \subseteq Inside BY DEF Minds, Inside
<1>2. LockHolders BY DEF FenceInv
<1>3. \A m \in Msg : turn[m].pc \in Minds => turnMu = m BY <1>1, <1>2 DEF LockHolders
<1>4. draft.pc = "thinking" => turnMu = Draft BY <1>2 DEF LockHolders
<1>5. turnMu \in Msg \cup {Draft} BY <1>3, <1>4 DEF Thinking
<1> QED BY <1>2, <1>3, <1>4, <1>5, NamesDiffer DEF LockHolders

LEMMA CompleteKept ==
  ASSUME DialogueComplete, Thinking' => Thinking, Extends, UNCHANGED <<visible, session, pulse>>
  PROVE  DialogueComplete'
<1>1. \A p : InDialog(p) => InDialog(p)' BY DEF Extends, InDialog
<1>2. Known => Known' BY <1>1 DEF Known
<1> QED BY <1>2, CompleteIs

\* The barrier has just been passed.
LEMMA CompleteSet ==
  ASSUME Rows, Pulses, EnsureHistory, commit.pc = "idle", UNCHANGED <<visible, pulse, session>>
  PROVE  DialogueComplete'
<1>1. \A p \in unfinalized \cup confirmed : pulse[p].session = session => InDialog(p)' BY HistoryComplete
<1>2. \A p \in visible : pulse[p].st # "uncertain" => p \in unfinalized \cup confirmed BY DEF Pulses, Seen
<1>3. Known' BY <1>1, <1>2 DEF Known
<1> QED BY <1>3, CompleteIs

\* One turn moves and does not start to think.
LEMMA CompleteTurn ==
  ASSUME DialogueComplete, Extends, UNCHANGED <<visible, session, pulse, draft>>,
         NEW m \in Msg, NEW pc, NEW s, NEW e, TurnAt(m, pc, s, e), pc \in Minds => turn[m].pc \in Minds
  PROVE  DialogueComplete'
<1>1. turn'[m].pc = pc /\ \A x \in Msg : x # m => turn'[x] = turn[x] BY DEF TurnAt
<1>2. \A x \in Msg : turn'[x].pc \in Minds => turn[x].pc \in Minds BY <1>1
<1>3. Thinking' => Thinking BY <1>2 DEF Thinking
<1> QED BY <1>3, CompleteKept

LEMMA CompleteDispatch ==
  ASSUME FenceInv, Rows, DialogueComplete, NEW B \in SUBSET Msg, NEW lead \in Msg, Dispatch(B, lead), UNCHANGED <<dialog, visible, session, pulse, draft>>
  PROVE  DialogueComplete'
<1>1. TurnAt(lead, "queued", turn[lead].screen, turn[lead].end) BY Dispatched DEF FenceInv
<1>2. "queued" \notin Minds BY DEF Minds
<1> QED BY <1>1, <1>2, SameExtends, CompleteTurn

LEMMA CompleteStep == ASSUME FenceInv, CountInv, Pulses, Rows, DialogueComplete, Steps PROVE DialogueComplete'
<1>1. ASSUME NEW m \in Msg, Admit(m) \/ Unusable(m) PROVE DialogueComplete'
  <2>1. UNCHANGED <<visible, session, pulse, dialog, turn, draft>> BY <1>1 DEF Admit, Unusable, memory, store
  <2>2. Thinking' => Thinking BY <2>1 DEF Thinking
  <2> QED BY <2>1, <2>2, SameExtends, CompleteKept
<1>2. ASSUME NEW m \in Msg, StartTurn(m) PROVE DialogueComplete'
  <2>1. Dispatch({m}, m) /\ UNCHANGED <<dialog, visible, session, pulse, draft>> BY <1>2 DEF StartTurn, store
  <2> QED BY <2>1, CompleteDispatch
<1>3. ASSUME NEW m \in Msg, Debounce(m) PROVE DialogueComplete'
  <2>1. UNCHANGED <<dialog, visible, session, pulse, draft>> BY <1>3 DEF Debounce, store
  <2>2. Debounced \cup {m} \in SUBSET Msg BY DEF Debounced
  <2>3. CASE Dispatch(Debounced \cup {m}, m) BY <2>1, <2>2, <2>3, CompleteDispatch
  <2>4. CASE turn' = turn
    <3>1. Thinking' => Thinking BY <2>1, <2>4 DEF Thinking
    <3> QED BY <2>1, <3>1, SameExtends, CompleteKept
  <2> QED BY <1>3, <2>3, <2>4 DEF Debounce
<1>4. ASSUME DebounceFires PROVE DialogueComplete'
  <2>1. PICK lead \in Debounced : Dispatch(Debounced, lead) BY <1>4 DEF DebounceFires
  <2>2. UNCHANGED <<dialog, visible, session, pulse, draft>> BY <1>4 DEF DebounceFires, store
  <2>3. Debounced \in SUBSET Msg /\ lead \in Msg BY DEF Debounced
  <2> QED BY <2>1, <2>2, <2>3, CompleteDispatch
<1>5. ASSUME NEW m \in Msg, TurnDropped(m) PROVE DialogueComplete'
  <2>1. UNCHANGED <<visible, session, pulse, dialog, draft>> BY <1>5 DEF TurnDropped, store
  <2>2. TurnAt(m, "ended", turn[m].screen, turn[m].end) BY <1>5, TurnMoves DEF TurnDropped, FenceInv
  <2>3. "ended" \notin Minds BY DEF Minds
  <2> QED BY <2>1, <2>2, <2>3, SameExtends, CompleteTurn
<1>6. ASSUME NEW m \in Msg, CompleteActivity(m) PROVE DialogueComplete'
  <2>1. UNCHANGED <<visible, session, pulse, dialog, draft>> BY <1>6 DEF CompleteActivity, store
  <2>2. TurnAt(m, "settling", turn[m].screen, turn[m].end) BY <1>6, TurnMoves DEF CompleteActivity, FenceInv
  <2>3. "settling" \notin Minds BY DEF Minds
  <2> QED BY <2>1, <2>2, <2>3, SameExtends, CompleteTurn
<1>7. ASSUME NEW m \in Msg, TurnBegins(m) PROVE DialogueComplete'
  <2>1. UNCHANGED <<visible, session, pulse, dialog, draft>> BY <1>7 DEF TurnBegins, store
  <2>2. TurnAt(m, "begun", turn[m].screen, turn[m].end) BY <1>7, TurnMoves DEF TurnBegins, FenceInv
  <2>3. "begun" \notin Minds BY DEF Minds
  <2> QED BY <2>1, <2>2, <2>3, SameExtends, CompleteTurn
<1>8. ASSUME NEW m \in Msg, EndTurn(m) PROVE DialogueComplete'
  <2>1. UNCHANGED <<visible, session, pulse, dialog, draft>> BY <1>8 DEF EndTurn, store
  <2>2. TurnAt(m, "ended", turn[m].screen, turn[m].end) 
    <3>1. turn' = [turn EXCEPT ![m].pc = "ended", ![m].base = "nosession"] BY <1>8 DEF EndTurn
    <3> QED BY <3>1, TurnMoves DEF FenceInv
  <2>3. "ended" \notin Minds BY DEF Minds
  <2> QED BY <2>1, <2>2, <2>3, SameExtends, CompleteTurn
<1>9. ASSUME NEW m \in Msg, TurnReady(m) PROVE DialogueComplete'
  <2>1. turn[m].pc \in Inside /\ EnsureHistory /\ UNCHANGED <<visible, pulse, session>> BY <1>9 DEF TurnReady, Inside
  <2>2. commit.pc = "idle" BY <2>1, NamesDiffer DEF FenceInv, LockHolders
  <2> QED BY <2>1, <2>2, CompleteSet
<1>10. ASSUME NEW m \in Msg, TurnNotReady(m) PROVE DialogueComplete'
  <2>1. EnsureHistoryFails /\ UNCHANGED <<visible, pulse, session, draft>> /\ turn' = [turn EXCEPT ![m].pc = "unwinding"] BY <1>10 DEF TurnNotReady
  <2>2. TurnAt(m, "unwinding", turn[m].screen, turn[m].end) BY <2>1, TurnMoves DEF FenceInv
  <2>3. "unwinding" \notin Minds BY DEF Minds
  <2> QED BY <2>1, <2>2, <2>3, HistoryExtends, CompleteTurn
<1>11. ASSUME NEW m \in Msg, TurnWrites(m) PROVE DialogueComplete'
  <2>1. UNCHANGED <<visible, pulse, session, draft>> BY <1>11, TurnWritesFrame
  <2>2. ConvShape /\ now \in Nat BY DEF FenceInv, CountInv, Clocks
  <2>3. CASE \E pc, s, rows : Wrote(m, pc, s, rows)
    <3>1. PICK pc, s, rows : Wrote(m, pc, s, rows) BY <2>3
    <3>2. TurnAt(m, pc, s, turn[m].end) /\ turn[m].pc \in Minds BY <3>1 DEF Wrote, Minds
    <3>3. Extends BY <2>2, <3>1, OwnExtends DEF Wrote
    <3> QED BY <2>1, <3>2, <3>3, CompleteTurn
  <2>4. CASE SettleTurn(m)
    <3>1. \E r, e : Settling(m, r, e) BY <2>4 DEF SettleTurn
    <3>2. \E s, e : TurnAt(m, "closing", s, e) BY <2>2, <3>1, TurnSettles
    <3>3. "closing" \notin Minds BY DEF Minds
    <3>4. Extends
      <4>1. dialog' = dialog \/ dialog' = Append(dialog, Row("assistant", m, 0)) BY <2>4 DEF SettleTurn
      <4> QED BY <2>2, <4>1, SameExtends, RowGrows
    <3> QED BY <2>1, <3>2, <3>3, <3>4, CompleteTurn
  <2> QED BY <1>11, <2>2, <2>3, <2>4, TurnWrote
<1>12. ASSUME NEW id \in Msg \cup {None}, CancelTurn(id) PROVE DialogueComplete'
  <2>1. UNCHANGED <<visible, session, pulse, dialog, turn, draft>> BY <1>12 DEF CancelTurn, actors, store
  <2>2. Thinking' => Thinking BY <2>1 DEF Thinking
  <2> QED BY <2>1, <2>2, SameExtends, CompleteKept
<1>13. ASSUME DraftRequested \/ DraftLock PROVE DialogueComplete'
  <2>1. UNCHANGED <<visible, session, pulse, dialog, turn>> BY <1>13 DEF DraftRequested, DraftLock, memory, store
  <2>2. DOMAIN draft = DraftFields /\ "pc" \in DraftFields BY DEF FenceInv, ConvShape, DraftFields
  <2>3. draft' = NoDraft \/ draft' = [draft EXCEPT !.pc = "locked"]
        \/ draft' = [draft EXCEPT !.pc = "waiting", !.anchor = LatestUserMessageAnchor.of]
    BY <1>13 DEF DraftRequested, DraftLock
  <2>4. draft'.pc # "thinking"
    <3>1. CASE draft' = NoDraft BY <3>1 DEF NoDraft
    <3>2. CASE draft' = [draft EXCEPT !.pc = "locked"] BY <2>2, <3>2
    <3>3. CASE draft' = [draft EXCEPT !.pc = "waiting", !.anchor = LatestUserMessageAnchor.of] BY <2>2, <3>3
    <3> QED BY <2>3, <3>1, <3>2, <3>3
  <2>5. Thinking' => Thinking BY <2>1, <2>4 DEF Thinking
  <2> QED BY <2>1, <2>5, SameExtends, CompleteKept
<1>14. ASSUME DraftReads PROVE DialogueComplete'
  <2>1. draft.pc = "locked" /\ EnsureHistory /\ UNCHANGED <<visible, pulse, session>> BY <1>14 DEF DraftReads
  <2>2. commit.pc = "idle" BY <2>1, NamesDiffer DEF FenceInv, LockHolders
  <2> QED BY <2>1, <2>2, CompleteSet
<1>15. ASSUME DraftBarred \/ DraftEnds PROVE DialogueComplete'
  <2>1. draft.pc \in {"locked", "thinking"} /\ draft' = NoDraft /\ turn' = turn BY <1>15 DEF DraftBarred, DraftEnds
  <2>2. turnMu = Draft BY <2>1 DEF FenceInv, LockHolders
  <2>3. \A m \in Msg : turn[m].pc \notin Minds BY <2>2, NamesDiffer DEF FenceInv, LockHolders, Minds, Inside
  <2>4. ~Thinking' BY <2>1, <2>3 DEF Thinking, NoDraft
  <2> QED BY <2>4, CompleteIs
<1>16. ASSUME NEW p \in Pulse, CommitLock(p) PROVE DialogueComplete'
  <2>1. ~Thinking BY <1>16, ThinkingAlone DEF CommitLock
  <2>2. UNCHANGED <<turn, draft>> BY <1>16 DEF CommitLock
  <2>3. ~Thinking' BY <2>1, <2>2 DEF Thinking
  <2> QED BY <2>3, CompleteIs
<1>17. ASSUME NEW p \in Pulse, JournalConfirms(p) PROVE DialogueComplete'
  <2>1. UNCHANGED <<visible, session, pulse, dialog, turn, draft>> BY <1>17 DEF JournalConfirms, memory, actors
  <2>2. Thinking' => Thinking BY <2>1 DEF Thinking
  <2> QED BY <2>1, <2>2, SameExtends, CompleteKept
<1>18. ASSUME CommitChecks \/ CommitSends \/ CommitRemembers \/ CommitEnds PROVE DialogueComplete'
  <2>1. ~Thinking BY <1>18, ThinkingAlone DEF CommitChecks, CommitSends, CommitRemembers, CommitEnds
  <2>2. UNCHANGED <<turn, draft>> BY <1>18 DEF CommitChecks, CommitSends, CommitRemembers, CommitEnds
  <2>3. ~Thinking' BY <2>1, <2>2 DEF Thinking
  <2> QED BY <2>3, CompleteIs
<1>19. ASSUME NoteLock \/ ResetAdmitted \/ ResetLock \/ ResetEnds \/ QuietAsked \/ QuietStops \/ QuietLock \/ QuietGivesUp \/ QuietReleases PROVE DialogueComplete'
  <2>1. UNCHANGED <<visible, session, pulse, dialog, turn, draft>> BY <1>19 DEF NoteLock, ResetAdmitted, ResetLock, ResetEnds, QuietAsked, QuietStops, QuietLock, QuietGivesUp, QuietReleases, memory, actors, store
  <2>2. Thinking' => Thinking BY <2>1 DEF Thinking
  <2> QED BY <2>1, <2>2, SameExtends, CompleteKept
<1>20. ASSUME NoteChecks \/ NoteDelivers \/ ResetSession \/ QuietRestarts PROVE DialogueComplete'
  <2>1. ~Thinking BY <1>20, ThinkingAlone DEF NoteChecks, NoteDelivers, ResetSession, QuietRestarts
  <2>2. UNCHANGED <<turn, draft>> BY <1>20 DEF NoteChecks, NoteDelivers, ResetSession, QuietRestarts
  <2>3. ~Thinking' BY <2>1, <2>2 DEF Thinking
  <2> QED BY <2>3, CompleteIs
<1>21. ASSUME Crash PROVE DialogueComplete'
  <2>1. \A m \in Msg : turn'[m].pc \in {"none", "ended"} BY <1>21, CrashLeaves DEF FenceInv
  <2>2. draft'.pc # "thinking" BY <1>21 DEF Crash, NoDraft
  <2>3. ~Thinking' BY <2>1, <2>2 DEF Thinking, Minds
  <2> QED BY <2>3, CompleteIs
<1> QED BY <1>1, <1>2, <1>3, <1>4, <1>5, <1>6, <1>7, <1>8, <1>9, <1>10, <1>11, <1>12, <1>13, <1>14, <1>15, <1>16, <1>17, <1>18, <1>19, <1>20, <1>21 DEF Steps

-----------------------------------------------------------------------------
(* The rows of a turn and how it ends                                         *)

Unasked == {"none", "queued", "begun", "ready"}
Writing == Inside \ {"closing"}
Stops == {"marked", "unasked"}

\* Each part of the invariant for one turn: x is its record, rows the dialogue.
EndOk(x) == x.pc \notin {"closing", "ended"} => x.end = "none"
UnaskedOk(x, m, rows) == x.pc \in Unasked => \A i \in 1..Len(rows) : rows[i].of # m
Follows(m, rows, i) == rows[i].of = m /\ rows[i].role \in {"user", "tool"} => i = Len(rows) \/ rows[i + 1].of = m
WritingOk(x, m, rows) == x.pc \in Writing => \A i \in 1..Len(rows) : Follows(m, rows, i)
StoppedOk(x, m, rows) ==
    x.end \in Stops => \A i \in 1..Len(rows) : rows[i].of = m /\ rows[i].role \in {"user", "tool"} => i < Len(rows) /\ rows[i + 1].of = m
ScreenOk(x) == x.screen = "partial" /\ x.end \in {"marked", "unasked", "unmarked"} => x.end = "marked"
TurnOk(x, m, rows) == EndOk(x) /\ UnaskedOk(x, m, rows) /\ WritingOk(x, m, rows) /\ StoppedOk(x, m, rows) /\ ScreenOk(x)
RowsInv == Rows /\ StoppedTurnRecorded

LEMMA RowsAre ==
  /\ RowsInv <=> dialog \in Seq(RowType) /\ \A m \in Msg : TurnOk(turn[m], m, dialog)
  /\ RowsInv' <=> dialog' \in Seq(RowType) /\ \A m \in Msg : TurnOk(turn'[m], m, dialog')
<1>1. Rows <=> dialog \in Seq(RowType) /\ \A m \in Msg : EndOk(turn[m]) /\ UnaskedOk(turn[m], m, dialog) /\ WritingOk(turn[m], m, dialog)
  BY DEF Rows, Mine, EndOk, UnaskedOk, WritingOk, Follows, Unasked, Writing
<1>2. StoppedTurnRecorded <=> \A m \in Msg : StoppedOk(turn[m], m, dialog) /\ ScreenOk(turn[m])
  BY DEF StoppedTurnRecorded, StoppedTurnAnswered, StoppedScreenRecorded, StoppedOk, ScreenOk, Stops
<1>3. RowsInv <=> dialog \in Seq(RowType) /\ \A m \in Msg : TurnOk(turn[m], m, dialog) BY <1>1, <1>2 DEF RowsInv, TurnOk
<1>4. Rows' <=> dialog' \in Seq(RowType) /\ \A m \in Msg : EndOk(turn'[m]) /\ UnaskedOk(turn'[m], m, dialog') /\ WritingOk(turn'[m], m, dialog')
  BY DEF Rows, Mine, EndOk, UnaskedOk, WritingOk, Follows, Unasked, Writing
<1>5. StoppedTurnRecorded' <=> \A m \in Msg : StoppedOk(turn'[m], m, dialog') /\ ScreenOk(turn'[m])
  BY DEF StoppedTurnRecorded, StoppedTurnAnswered, StoppedScreenRecorded, StoppedOk, ScreenOk, Stops
<1>6. RowsInv' <=> dialog' \in Seq(RowType) /\ \A m \in Msg : TurnOk(turn'[m], m, dialog') BY <1>4, <1>5 DEF RowsInv, TurnOk
<1> QED BY <1>3, <1>6

\* A turn that is not writing does not mind rows of others.
LEMMA OthersRows ==
  ASSUME NEW x, NEW m, Extends, TurnOk(x, m, dialog), x.pc \notin Writing,
         \A i \in 1..Len(dialog') : i \notin 1..Len(dialog) => dialog'[i].of # m
  PROVE  TurnOk(x, m, dialog')
<1>1. /\ Len(dialog) \in Nat /\ Len(dialog') \in Nat /\ Len(dialog) <= Len(dialog')
      /\ \A i \in 1..Len(dialog) : i \in 1..Len(dialog') /\ dialog'[i] = dialog[i]
  BY DEF Extends
<1>2. UnaskedOk(x, m, dialog')
  <2>1. UnaskedOk(x, m, dialog) BY DEF TurnOk
  <2> QED BY <1>1, <2>1 DEF UnaskedOk
<1>3. StoppedOk(x, m, dialog')
  <2> SUFFICES ASSUME x.end \in Stops, NEW i \in 1..Len(dialog'), dialog'[i].of = m, dialog'[i].role \in {"user", "tool"}
               PROVE  i < Len(dialog') /\ dialog'[i + 1].of = m
    BY DEF StoppedOk
  <2>1. i \in 1..Len(dialog) OBVIOUS
  <2>2. dialog'[i] = dialog[i] BY <1>1, <2>1
  <2>3. i < Len(dialog) /\ dialog[i + 1].of = m BY <2>1, <2>2 DEF TurnOk, StoppedOk
  <2>4. i + 1 \in 1..Len(dialog) BY <1>1, <2>1, <2>3
  <2>5. i < Len(dialog') BY <1>1, <2>1, <2>3
  <2> QED BY <1>1, <2>3, <2>4, <2>5
<1>4. WritingOk(x, m, dialog') BY DEF WritingOk
<1> QED BY <1>2, <1>3, <1>4 DEF TurnOk

\* Rows of pulses and of background messages, with no turn inside.
LEMMA RowsOfOthers ==
  ASSUME FenceInv, RowsInv, turnMu \notin Msg, turn' = turn, Extends,
         \A i \in 1..Len(dialog') : i \notin 1..Len(dialog) => dialog'[i].of \in Pulse \cup {Note}
  PROVE  RowsInv'
<1>1. ASSUME NEW m \in Msg PROVE TurnOk(turn'[m], m, dialog')
  <2>1. TurnOk(turn[m], m, dialog) BY RowsAre
  <2>2. turn[m].pc \notin Writing BY DEF FenceInv, LockHolders, Writing
  <2>3. m \notin Pulse \cup {Note} BY NamesAssumption
  <2>4. \A i \in 1..Len(dialog') : i \notin 1..Len(dialog) => dialog'[i].of # m BY <2>3
  <2> QED BY <2>1, <2>2, <2>4, OthersRows
<1>2. dialog' \in Seq(RowType) BY DEF Extends
<1> QED BY <1>1, <1>2, RowsAre

LEMMA GrownOthers ==
  ASSUME Rows, NEW rows, Grown(rows), NEW S, \A i \in 1..Len(rows) : rows[i].of \in S
  PROVE  \A i \in 1..Len(dialog') : i \notin 1..Len(dialog) => dialog'[i].of \in S
<1>1. /\ Len(rows) \in Nat /\ Len(dialog) \in Nat /\ Len(dialog') = Len(dialog) + Len(rows)
      /\ \A i \in 1..Len(rows) : dialog'[Len(dialog) + i] = rows[i]
  BY GrownExtends DEF Extends
<1> TAKE i \in 1..Len(dialog')
<1> HAVE i \notin 1..Len(dialog)
<1>2. i - Len(dialog) \in 1..Len(rows) /\ Len(dialog) + (i - Len(dialog)) = i BY <1>1
<1> QED BY <1>1, <1>2

LEMMA HistoryOthers ==
  ASSUME Rows, Pulses, EnsureHistory \/ EnsureHistoryFails
  PROVE  Extends /\ \A i \in 1..Len(dialog') : i \notin 1..Len(dialog) => dialog'[i].of \in Pulse
<1>1. PICK rows : Grown(rows) /\ OfPulses(rows) BY HistoryMoves DEF HistoryMoved
<1>2. \A i \in 1..Len(rows) : rows[i].of \in Pulse BY <1>1 DEF OfPulses
<1> QED BY <1>1, <1>2, GrownExtends, GrownOthers

\* One turn moves, nobody else has its rows, and the dialogue is the same.
LEMMA RowsTurn ==
  ASSUME RowsInv, NEW m \in Msg, NEW pc, NEW s, NEW e, TurnAt(m, pc, s, e), dialog' = dialog,
         TurnOk(turn[m], m, dialog) => TurnOk(turn'[m], m, dialog)
  PROVE  RowsInv'
<1>1. \A x \in Msg : x # m => turn'[x] = turn[x] BY DEF TurnAt
<1>2. \A x \in Msg : TurnOk(turn'[x], x, dialog) BY <1>1, RowsAre
<1> QED BY <1>2, RowsAre

\* The turn goes on, and its end and its screen are as they were.
LEMMA RowsMoves ==
  ASSUME RowsInv, NEW m \in Msg, NEW pc, TurnAt(m, pc, turn[m].screen, turn[m].end), dialog' = dialog,
         pc \in Unasked => turn[m].pc \in Unasked, pc \in Writing => turn[m].pc \in Unasked \cup Writing,
         turn[m].pc \in {"closing", "ended"} => pc \in {"closing", "ended"}
  PROVE  RowsInv'
<1>1. turn'[m].pc = pc /\ turn'[m].screen = turn[m].screen /\ turn'[m].end = turn[m].end BY DEF TurnAt
<1>2. ASSUME TurnOk(turn[m], m, dialog) PROVE TurnOk(turn'[m], m, dialog)
  <2>1. EndOk(turn'[m]) BY <1>1, <1>2 DEF TurnOk, EndOk
  <2>2. UnaskedOk(turn'[m], m, dialog) BY <1>1, <1>2 DEF TurnOk, UnaskedOk
  <2>3. WritingOk(turn'[m], m, dialog) BY <1>1, <1>2 DEF TurnOk, UnaskedOk, WritingOk, Follows
  <2>4. StoppedOk(turn'[m], m, dialog) /\ ScreenOk(turn'[m]) BY <1>1, <1>2 DEF TurnOk, StoppedOk, ScreenOk
  <2> QED BY <2>1, <2>2, <2>3, <2>4 DEF TurnOk
<1> QED BY <1>2, RowsTurn

LEMMA DispatchRows ==
  ASSUME FenceInv, RowsInv, NEW B \in SUBSET Msg, NEW lead \in B, Dispatch(B, lead), \A x \in B : msg[x].st \in {"prep", "debounced"}, dialog' = dialog
  PROVE  RowsInv'
<1>1. TurnAt(lead, "queued", turn[lead].screen, turn[lead].end) BY Dispatched DEF FenceInv
<1>2. turn[lead].pc = "none" BY DEF FenceInv, MessagesServed
<1>3. "queued" \notin Writing /\ "none" \in Unasked BY DEF Writing, Unasked, Inside
<1> QED BY <1>1, <1>2, <1>3, RowsMoves

\* The barrier at the start of a turn: the turn has no rows yet.
LEMMA BarrierRows ==
  ASSUME FenceInv, RowsInv, Pulses, NEW m \in Msg, turn[m].pc = "begun", NEW pc \in {"ready", "unwinding"},
         TurnAt(m, pc, turn[m].screen, turn[m].end), EnsureHistory \/ EnsureHistoryFails
  PROVE  RowsInv'
<1>0. Rows BY DEF RowsInv
<1>1. Extends /\ \A i \in 1..Len(dialog') : i \notin 1..Len(dialog) => dialog'[i].of \in Pulse BY <1>0, HistoryOthers
<1>2. turn'[m].pc = pc /\ turn'[m].screen = turn[m].screen /\ turn'[m].end = turn[m].end /\ \A x \in Msg : x # m => turn'[x] = turn[x] BY DEF TurnAt
<1>3. "begun" \in Unasked /\ "begun" \in Inside /\ Writing \subseteq Inside BY DEF Unasked, Inside, Writing
<1>4. turnMu = m BY <1>3 DEF FenceInv, LockHolders
<1>5. \A x \in Msg : x \notin Pulse BY NamesAssumption
<1>6. ASSUME NEW x \in Msg, x # m PROVE TurnOk(turn'[x], x, dialog')
  <2>1. turn[x].pc \notin Writing BY <1>3, <1>4, <1>6 DEF FenceInv, LockHolders
  <2>2. TurnOk(turn[x], x, dialog) BY RowsAre
  <2>3. \A i \in 1..Len(dialog') : i \notin 1..Len(dialog) => dialog'[i].of # x BY <1>1, <1>5
  <2> QED BY <1>1, <1>2, <1>6, <2>1, <2>2, <2>3, OthersRows
<1>7. TurnOk(turn'[m], m, dialog')
  <2>1. TurnOk(turn[m], m, dialog) BY RowsAre
  <2>2. turn[m].end = "none" /\ \A i \in 1..Len(dialog) : dialog[i].of # m BY <1>3, <2>1 DEF TurnOk, EndOk, UnaskedOk
  <2>3. \A i \in 1..Len(dialog') : dialog'[i].of # m BY <1>1, <1>5, <2>2 DEF Extends
  <2>4. turn'[m].end = "none" /\ pc \notin {"closing", "ended"} /\ "none" \notin Stops BY <1>2, <2>2 DEF Stops
  <2>5. EndOk(turn'[m]) /\ ScreenOk(turn'[m]) /\ StoppedOk(turn'[m], m, dialog') BY <2>4 DEF EndOk, ScreenOk, StoppedOk
  <2>6. UnaskedOk(turn'[m], m, dialog') /\ WritingOk(turn'[m], m, dialog') BY <2>3 DEF UnaskedOk, WritingOk, Follows
  <2> QED BY <2>5, <2>6 DEF TurnOk
<1>8. dialog' \in Seq(RowType) BY <1>1 DEF Extends
<1> QED BY <1>6, <1>7, <1>8, RowsAre

\* The turn that holds the lock appends one row of its own.
LEMMA OwnRow ==
  ASSUME FenceInv, RowsInv, now \in Nat, NEW m \in Msg, turn[m].pc \in Inside, \A x \in Msg : x # m => turn'[x] = turn[x],
         NEW role \in {"user", "tool", "assistant"}, NEW at \in {0, now},
         dialog' = dialog \o <<Row(role, m, at)>> \/ dialog' = Append(dialog, Row(role, m, at))
  PROVE  /\ dialog' \in Seq(RowType) /\ \A x \in Msg : x # m => TurnOk(turn'[x], x, dialog')
         /\ WritingOk(turn[m], m, dialog) /\ turn[m].pc \in Writing => \A i \in 1..Len(dialog') : Follows(m, dialog', i)
         /\ WritingOk(turn[m], m, dialog) /\ turn[m].pc \in Writing =>
              \A i \in 1..Len(dialog) : dialog'[i].of = m /\ dialog'[i].role \in {"user", "tool"} => i < Len(dialog') /\ dialog'[i + 1].of = m
         /\ Len(dialog') = Len(dialog) + 1 /\ Len(dialog) \in Nat
<1>0. Rows BY DEF RowsInv
<1>1. Extends /\ Len(dialog') = Len(dialog) + 1 /\ dialog'[Len(dialog) + 1].of = m BY <1>0, RowGrows
<1>2. /\ dialog' \in Seq(RowType) /\ Len(dialog) \in Nat /\ \A i \in 1..Len(dialog) : i \in 1..Len(dialog') /\ dialog'[i] = dialog[i]
  BY <1>1 DEF Extends
<1>3. turnMu = m BY DEF FenceInv, LockHolders
<1>4. ASSUME NEW x \in Msg, x # m PROVE TurnOk(turn'[x], x, dialog')
  <2>1. turn[x].pc \notin Writing BY <1>3, <1>4 DEF FenceInv, LockHolders, Writing
  <2>2. TurnOk(turn[x], x, dialog) BY RowsAre
  <2>3. \A i \in 1..Len(dialog') : i \notin 1..Len(dialog) => i = Len(dialog) + 1 BY <1>1, <1>2
  <2>4. \A i \in 1..Len(dialog') : i \notin 1..Len(dialog) => dialog'[i].of # x BY <1>1, <1>4, <2>3
  <2> QED BY <1>1, <1>4, <2>1, <2>2, <2>4, OthersRows
<1>5. ASSUME WritingOk(turn[m], m, dialog), turn[m].pc \in Writing, NEW i \in 1..Len(dialog),
             dialog'[i].of = m, dialog'[i].role \in {"user", "tool"}
      PROVE  i < Len(dialog') /\ dialog'[i + 1].of = m
  <2>1. dialog'[i] = dialog[i] BY <1>2
  <2>2. i = Len(dialog) \/ dialog[i + 1].of = m BY <1>5, <2>1 DEF WritingOk, Follows
  <2>3. i < Len(dialog') BY <1>1, <1>2
  <2>4. i # Len(dialog) => i + 1 \in 1..Len(dialog) BY <1>2
  <2> QED BY <1>1, <1>2, <2>2, <2>3, <2>4
<1>6. ASSUME WritingOk(turn[m], m, dialog), turn[m].pc \in Writing, NEW i \in 1..Len(dialog')
      PROVE  Follows(m, dialog', i)
  <2>1. i \in 1..Len(dialog) \/ i = Len(dialog') BY <1>1, <1>2
  <2> QED BY <1>5, <1>6, <2>1 DEF Follows
<1> QED BY <1>1, <1>2, <1>4, <1>5, <1>6

LEMMA WroteRows ==
  ASSUME FenceInv, RowsInv, now \in Nat, NEW m \in Msg, NEW pc, NEW s, NEW rows, Wrote(m, pc, s, rows)
  PROVE  RowsInv'
<1>1. /\ TurnAt(m, pc, s, turn[m].end) /\ dialog' = dialog \o rows /\ Own(m, rows)
      /\ turn[m].pc \in {"ready", "asked", "tooling"} /\ pc \in {"asked", "tooling", "unwinding"}
  BY DEF Wrote
<1>2. turn'[m].pc = pc /\ turn'[m].end = turn[m].end /\ \A x \in Msg : x # m => turn'[x] = turn[x] BY <1>1 DEF TurnAt
<1>3. turn[m].pc \in Writing /\ turn[m].pc \in Inside /\ pc \notin Unasked BY <1>1 DEF Writing, Inside, Unasked
<1>4. TurnOk(turn[m], m, dialog) BY RowsAre
<1>5. turn[m].end = "none" BY <1>1, <1>4 DEF TurnOk, EndOk
<1>6. \A r : EndOk(turn'[m]) /\ ScreenOk(turn'[m]) /\ StoppedOk(turn'[m], m, r) /\ UnaskedOk(turn'[m], m, r)
  BY <1>2, <1>3, <1>5 DEF EndOk, ScreenOk, StoppedOk, UnaskedOk, Stops
<1>7. CASE rows = <<>>
  <2>1. dialog \in Seq(RowType) BY RowsAre
  <2>2. dialog' = dialog BY <1>1, <1>7, <2>1
  <2>3. WritingOk(turn'[m], m, dialog) BY <1>3, <1>4 DEF TurnOk, WritingOk
  <2>4. TurnOk(turn'[m], m, dialog) BY <1>6, <2>3 DEF TurnOk
  <2> QED BY <1>1, <2>2, <2>4, RowsTurn
<1>8. CASE rows # <<>>
  <2>1. PICK role \in {"user", "tool", "assistant"} : \E at \in {0, now} : rows = <<Row(role, m, at)>> BY <1>1, <1>8 DEF Own
  <2>2. PICK at \in {0, now} : rows = <<Row(role, m, at)>> BY <2>1
  <2>3. dialog' = dialog \o <<Row(role, m, at)>> BY <1>1, <2>2
  <2>4. /\ dialog' \in Seq(RowType) /\ \A x \in Msg : x # m => TurnOk(turn'[x], x, dialog')
        /\ WritingOk(turn[m], m, dialog) /\ turn[m].pc \in Writing => \A i \in 1..Len(dialog') : Follows(m, dialog', i)
    BY <1>2, <1>3, <2>3, OwnRow
  <2>5. WritingOk(turn'[m], m, dialog') BY <1>3, <1>4, <2>4 DEF TurnOk, WritingOk
  <2>6. TurnOk(turn'[m], m, dialog') BY <1>6, <2>5 DEF TurnOk
  <2> QED BY <2>4, <2>6, RowsAre
<1> QED BY <1>7, <1>8

\* The deferred functions of a turn that was stopped, or was not.
LEMMA SettleRows ==
  ASSUME FenceInv, RowsInv, now \in Nat, NEW m \in Msg, SettleTurn(m)
  PROVE  RowsInv'
<1>0. ConvShape BY DEF FenceInv
<1>1. turn[m].pc \in Writing /\ turn[m].pc \in Inside BY DEF SettleTurn, Writing, Inside
<1>2. TurnOk(turn[m], m, dialog) BY RowsAre
<1>3. "closing" \notin Unasked /\ "closing" \notin Writing BY DEF Unasked, Writing
<1>4. ASSUME NEW r \in BOOLEAN, NEW e, Settling(m, r, e)
      PROVE  /\ TurnAt(m, "closing", Settled(turn[m].screen, r), e)
             /\ \A d : EndOk(turn'[m]) /\ UnaskedOk(turn'[m], m, d) /\ WritingOk(turn'[m], m, d)
             /\ (r /\ e \in {"clean", "marked"}) \/ ~r => ScreenOk(turn'[m])
             /\ turn'[m].end = e
  <2>1. TurnAt(m, "closing", Settled(turn[m].screen, r), e) BY <1>0, <1>4, TurnSettles
  <2>2. turn'[m].pc = "closing" /\ turn'[m].end = e /\ turn'[m].screen = Settled(turn[m].screen, r) BY <2>1 DEF TurnAt
  <2>3. \A d : EndOk(turn'[m]) /\ UnaskedOk(turn'[m], m, d) /\ WritingOk(turn'[m], m, d) BY <1>3, <2>2 DEF EndOk, UnaskedOk, WritingOk
  <2>4. (r /\ e \in {"clean", "marked"}) \/ ~r => ScreenOk(turn'[m]) BY <2>2 DEF ScreenOk, Settled
  <2> QED BY <2>1, <2>2, <2>3, <2>4
<1>5. CASE (Settling(m, TRUE, "clean") \/ Settling(m, FALSE, "unmarked")) /\ dialog' = dialog
  <2>1. PICK r \in BOOLEAN, e \in {"clean", "unmarked"} : Settling(m, r, e) /\ ((r /\ e = "clean") \/ ~r) BY <1>5
  <2>2. "clean" \notin Stops /\ "unmarked" \notin Stops BY DEF Stops
  <2>3. StoppedOk(turn'[m], m, dialog) BY <1>4, <2>1, <2>2 DEF StoppedOk
  <2>4. TurnOk(turn'[m], m, dialog) BY <1>4, <2>1, <2>3 DEF TurnOk
  <2>5. \E s : TurnAt(m, "closing", s, e) BY <1>4, <2>1
  <2> QED BY <1>5, <2>4, <2>5, RowsTurn
<1>6. CASE ~EndsOnUser /\ dialog' = dialog /\ Settling(m, FALSE, "unasked")
  <2>1. dialog \in Seq(RowType) BY RowsAre
  <2>2. \A i \in 1..Len(dialog) : dialog[i].role \in {"user", "tool"} => i < Len(dialog)
    <3> SUFFICES ASSUME NEW i \in 1..Len(dialog), dialog[i].role \in {"user", "tool"} PROVE i # Len(dialog)
      BY <2>1
    <3>1. dialog # <<>> BY <2>1
    <3> QED BY <1>6, <3>1 DEF EndsOnUser
  <2>3. StoppedOk(turn'[m], m, dialog)
    <3> SUFFICES ASSUME NEW i \in 1..Len(dialog), dialog[i].of = m, dialog[i].role \in {"user", "tool"}
                 PROVE  i < Len(dialog) /\ dialog[i + 1].of = m
      BY DEF StoppedOk
    <3>1. i < Len(dialog) BY <2>2
    <3>2. i = Len(dialog) \/ dialog[i + 1].of = m BY <1>1, <1>2 DEF TurnOk, WritingOk, Follows
    <3> QED BY <2>1, <3>1, <3>2
  <2>4. TurnOk(turn'[m], m, dialog) BY <1>4, <1>6, <2>3 DEF TurnOk
  <2>5. \E s : TurnAt(m, "closing", s, "unasked") BY <1>4, <1>6
  <2> QED BY <1>6, <2>4, <2>5, RowsTurn
<1>7. CASE dialog' = Append(dialog, Row("assistant", m, 0)) /\ Settling(m, TRUE, "marked")
  <2>1. TurnAt(m, "closing", Settled(turn[m].screen, TRUE), "marked") BY <1>4, <1>7
  <2>2. \A x \in Msg : x # m => turn'[x] = turn[x] BY <2>1 DEF TurnAt
  <2>3. /\ dialog' \in Seq(RowType) /\ \A x \in Msg : x # m => TurnOk(turn'[x], x, dialog')
        /\ WritingOk(turn[m], m, dialog) /\ turn[m].pc \in Writing =>
              \A i \in 1..Len(dialog) : dialog'[i].of = m /\ dialog'[i].role \in {"user", "tool"} => i < Len(dialog') /\ dialog'[i + 1].of = m
        /\ Len(dialog') = Len(dialog) + 1 /\ Len(dialog) \in Nat
    BY <1>1, <1>7, <2>2, OwnRow
  <2>4. dialog'[Len(dialog) + 1].role = "assistant"
    <3>1. dialog \in Seq(RowType) BY RowsAre
    <3>2. Row("assistant", m, 0) \in RowType /\ Row("assistant", m, 0).role = "assistant" BY DEF Row, RowType
    <3>3. dialog'[Len(dialog) + 1] = Row("assistant", m, 0) BY <1>7, <3>1, <3>2
    <3> QED BY <3>2, <3>3
  <2>5. StoppedOk(turn'[m], m, dialog')
    <3> SUFFICES ASSUME NEW i \in 1..Len(dialog'), dialog'[i].of = m, dialog'[i].role \in {"user", "tool"}
                 PROVE  i < Len(dialog') /\ dialog'[i + 1].of = m
      BY DEF StoppedOk
    <3>1. i # Len(dialog) + 1 BY <2>4
    <3>2. i \in 1..Len(dialog) BY <2>3, <3>1
    <3> QED BY <1>1, <1>2, <2>3, <3>2 DEF TurnOk
  <2>6. TurnOk(turn'[m], m, dialog') BY <1>4, <1>7, <2>5 DEF TurnOk
  <2> QED BY <2>3, <2>6, RowsAre
<1> QED BY <1>5, <1>6, <1>7 DEF SettleTurn

\* A new session has no rows.
LEMMA EmptyRows == ASSUME RowsInv, turn' = turn, dialog' = <<>> PROVE RowsInv'
<1>1. dialog' \in Seq(RowType) /\ Len(dialog') = 0 BY DEF RowType
<1>2. \A i \in 1..Len(dialog') : FALSE BY <1>1
<1>3. \A m \in Msg : TurnOk(turn'[m], m, dialog')
  <2> TAKE m \in Msg
  <2>1. TurnOk(turn[m], m, dialog) BY RowsAre
  <2>2. UnaskedOk(turn'[m], m, dialog') /\ WritingOk(turn'[m], m, dialog') /\ StoppedOk(turn'[m], m, dialog')
    BY <1>2 DEF UnaskedOk, WritingOk, StoppedOk
  <2> QED BY <2>1, <2>2 DEF TurnOk
<1> QED BY <1>1, <1>3, RowsAre

LEMMA CrashRows == ASSUME FenceInv, RowsInv, Crash PROVE RowsInv'
<1>1. dialog' = dialog BY DEF Crash
<1>2. ASSUME NEW m \in Msg PROVE TurnOk(turn'[m], m, dialog)
  <2>1. TurnOk(turn[m], m, dialog) BY RowsAre
  <2>2. CASE turn[m].pc \in {"none", "ended"} BY <2>1, <2>2, CrashLeaves DEF FenceInv
  <2>3. CASE turn[m].pc \notin {"none", "ended"}
    <3>1. turn'[m].pc = "ended" /\ turn'[m].end = "crashed" BY <2>3, CrashLeaves DEF FenceInv
    <3>2. "ended" \notin Unasked /\ "ended" \notin Writing /\ "crashed" \notin Stops BY DEF Unasked, Writing, Stops, Inside
    <3> QED BY <3>1, <3>2 DEF TurnOk, EndOk, UnaskedOk, WritingOk, StoppedOk, ScreenOk
  <2> QED BY <2>2, <2>3
<1> QED BY <1>1, <1>2, RowsAre

LEMMA RowsStep == ASSUME FenceInv, CountInv, Pulses, RowsInv, Steps PROVE RowsInv'
<1>1. ASSUME NEW m \in Msg, Admit(m) \/ Unusable(m) PROVE RowsInv'
  <2>1. UNCHANGED <<dialog, turn>> BY <1>1 DEF Admit, Unusable, memory, store
  <2> QED BY <2>1, RowsAre
<1>2. ASSUME NEW m \in Msg, StartTurn(m) PROVE RowsInv'
  <2>1. Dispatch({m}, m) /\ msg[m].st = "prep" /\ dialog' = dialog BY <1>2 DEF StartTurn, store
  <2> QED BY <2>1, DispatchRows
<1>3. ASSUME NEW m \in Msg, Debounce(m) PROVE RowsInv'
  <2>1. dialog' = dialog /\ msg[m].st = "prep" BY <1>3 DEF Debounce, store
  <2>2. /\ Debounced \cup {m} \in SUBSET Msg /\ m \in Debounced \cup {m}
        /\ \A x \in Debounced \cup {m} : msg[x].st \in {"prep", "debounced"}
    BY <2>1 DEF Debounced
  <2>3. CASE Dispatch(Debounced \cup {m}, m) BY <2>1, <2>2, <2>3, DispatchRows
  <2>4. CASE turn' = turn BY <2>1, <2>4, RowsAre
  <2> QED BY <1>3, <2>3, <2>4 DEF Debounce
<1>4. ASSUME DebounceFires PROVE RowsInv'
  <2>1. PICK lead \in Debounced : Dispatch(Debounced, lead) BY <1>4 DEF DebounceFires
  <2>2. dialog' = dialog BY <1>4 DEF DebounceFires, store
  <2>3. Debounced \in SUBSET Msg /\ \A x \in Debounced : msg[x].st \in {"prep", "debounced"} BY DEF Debounced
  <2> QED BY <2>1, <2>2, <2>3, DispatchRows
<1>5. ASSUME NEW m \in Msg, TurnDropped(m) PROVE RowsInv'
  <2>1. dialog' = dialog /\ turn[m].pc = "queued" BY <1>5 DEF TurnDropped, store
  <2>2. TurnAt(m, "ended", turn[m].screen, turn[m].end) BY <1>5, TurnMoves DEF TurnDropped, FenceInv
  <2>3. /\ "ended" \in Unasked => "queued" \in Unasked
        /\ "ended" \in Writing => "queued" \in Unasked \cup Writing
        /\ "queued" \in {"closing", "ended"} => "ended" \in {"closing", "ended"}
    BY DEF Unasked, Writing, Inside
  <2> QED BY <2>1, <2>2, <2>3, RowsMoves
<1>6. ASSUME NEW m \in Msg, CompleteActivity(m) PROVE RowsInv'
  <2>1. dialog' = dialog /\ turn[m].pc = "unwinding" BY <1>6 DEF CompleteActivity, store
  <2>2. TurnAt(m, "settling", turn[m].screen, turn[m].end) BY <1>6, TurnMoves DEF CompleteActivity, FenceInv
  <2>3. /\ "settling" \in Unasked => "unwinding" \in Unasked
        /\ "settling" \in Writing => "unwinding" \in Unasked \cup Writing
        /\ "unwinding" \in {"closing", "ended"} => "settling" \in {"closing", "ended"}
    BY DEF Unasked, Writing, Inside
  <2> QED BY <2>1, <2>2, <2>3, RowsMoves
<1>7. ASSUME NEW m \in Msg, TurnBegins(m) PROVE RowsInv'
  <2>1. dialog' = dialog /\ turn[m].pc = "queued" BY <1>7 DEF TurnBegins, store
  <2>2. TurnAt(m, "begun", turn[m].screen, turn[m].end) BY <1>7, TurnMoves DEF TurnBegins, FenceInv
  <2>3. /\ "begun" \in Unasked => "queued" \in Unasked
        /\ "begun" \in Writing => "queued" \in Unasked \cup Writing
        /\ "queued" \in {"closing", "ended"} => "begun" \in {"closing", "ended"}
    BY DEF Unasked, Writing, Inside
  <2> QED BY <2>1, <2>2, <2>3, RowsMoves
<1>8. ASSUME NEW m \in Msg, EndTurn(m) PROVE RowsInv'
  <2>1. dialog' = dialog /\ turn[m].pc = "closing" BY <1>8 DEF EndTurn, store
  <2>2. TurnAt(m, "ended", turn[m].screen, turn[m].end) 
    <3>1. turn' = [turn EXCEPT ![m].pc = "ended", ![m].base = "nosession"] BY <1>8 DEF EndTurn
    <3> QED BY <3>1, TurnMoves DEF FenceInv
  <2>3. /\ "ended" \in Unasked => "closing" \in Unasked
        /\ "ended" \in Writing => "closing" \in Unasked \cup Writing
        /\ "closing" \in {"closing", "ended"} => "ended" \in {"closing", "ended"}
    BY DEF Unasked, Writing, Inside
  <2> QED BY <2>1, <2>2, <2>3, RowsMoves
<1>9. ASSUME NEW m \in Msg, TurnReady(m) PROVE RowsInv'
  <2>1. EnsureHistory /\ turn[m].pc = "begun" /\ \E b : turn' = [turn EXCEPT ![m].pc = "ready", ![m].base = b] BY <1>9 DEF TurnReady
  <2>2. TurnAt(m, "ready", turn[m].screen, turn[m].end) BY <2>1, TurnMoves DEF FenceInv
  <2> QED BY <2>1, <2>2, BarrierRows
<1>10. ASSUME NEW m \in Msg, TurnNotReady(m) PROVE RowsInv'
  <2>1. EnsureHistoryFails /\ turn[m].pc = "begun" /\ turn' = [turn EXCEPT ![m].pc = "unwinding"] BY <1>10 DEF TurnNotReady
  <2>2. TurnAt(m, "unwinding", turn[m].screen, turn[m].end) BY <2>1, TurnMoves DEF FenceInv
  <2> QED BY <2>1, <2>2, BarrierRows
<1>11. ASSUME NEW m \in Msg, TurnWrites(m) PROVE RowsInv'
  <2>1. ConvShape /\ now \in Nat /\ Rows BY DEF FenceInv, CountInv, Clocks, RowsInv
  <2> QED BY <1>11, <2>1, TurnWrote, WroteRows, SettleRows
<1>12. ASSUME NEW id \in Msg \cup {None}, CancelTurn(id) PROVE RowsInv'
  <2>1. UNCHANGED <<dialog, turn>> BY <1>12 DEF CancelTurn, actors, store
  <2> QED BY <2>1, RowsAre
<1>13. ASSUME DraftRequested \/ DraftLock \/ DraftEnds PROVE RowsInv'
  <2>1. UNCHANGED <<dialog, turn>> BY <1>13 DEF DraftRequested, DraftLock, DraftEnds, memory, store
  <2> QED BY <2>1, RowsAre
<1>14. ASSUME DraftReads PROVE RowsInv'
  <2>0. Rows BY DEF RowsInv
  <2>1. turnMu \notin Msg /\ turn' = turn /\ (EnsureHistory \/ EnsureHistoryFails) BY <1>14, NamesDiffer DEF DraftReads, FenceInv, LockHolders
  <2>2. Extends /\ \A i \in 1..Len(dialog') : i \notin 1..Len(dialog) => dialog'[i].of \in Pulse BY <2>0, <2>1, HistoryOthers
  <2> QED BY <2>1, <2>2, RowsOfOthers
<1>15. ASSUME DraftBarred PROVE RowsInv'
  <2>0. Rows BY DEF RowsInv
  <2>1. turnMu \notin Msg /\ turn' = turn /\ (EnsureHistory \/ EnsureHistoryFails) BY <1>15, NamesDiffer DEF DraftBarred, FenceInv, LockHolders
  <2>2. Extends /\ \A i \in 1..Len(dialog') : i \notin 1..Len(dialog) => dialog'[i].of \in Pulse BY <2>0, <2>1, HistoryOthers
  <2> QED BY <2>1, <2>2, RowsOfOthers
<1>16. ASSUME NEW p \in Pulse, CommitLock(p) \/ JournalConfirms(p) PROVE RowsInv'
  <2>1. UNCHANGED <<dialog, turn>> BY <1>16 DEF CommitLock, JournalConfirms, actors
  <2> QED BY <2>1, RowsAre
<1>17. ASSUME CommitChecks PROVE RowsInv'
  <2>0. Rows BY DEF RowsInv
  <2>1. turnMu \notin Msg /\ turn' = turn BY <1>17, NamesDiffer DEF CommitChecks, FenceInv, LockHolders
  <2>2. CASE dialog' = dialog BY <2>1, <2>2, RowsAre
  <2>3. CASE EnsureHistory \/ EnsureHistoryFails
    <3>1. Extends /\ \A i \in 1..Len(dialog') : i \notin 1..Len(dialog) => dialog'[i].of \in Pulse BY <2>0, <2>3, HistoryOthers
    <3> QED BY <2>1, <3>1, RowsOfOthers
  <2> QED BY <1>17, <2>2, <2>3 DEF CommitChecks, history
<1>18. ASSUME CommitSends PROVE RowsInv'
  <2>1. UNCHANGED <<dialog, turn>> BY <1>18 DEF CommitSends
  <2> QED BY <2>1, RowsAre
<1>19. ASSUME CommitRemembers PROVE RowsInv'
  <2>0. Rows BY DEF RowsInv
  <2>1. turnMu \notin Msg /\ turn' = turn BY <1>19, NamesDiffer DEF CommitRemembers, FenceInv, LockHolders
  <2>2. CASE dialog' = dialog BY <2>1, <2>2, RowsAre
  <2>3. CASE dialog' = Append(dialog, Row("assistant", commit.of, 0))
    <3>1. now \in Nat BY DEF CountInv, Clocks
    <3>2. commit.of \in Pulse \cup {Note} BY <1>19 DEF CommitRemembers, Pulses
    <3>3. commit.of \in Msg \cup Pulse \cup {Note} BY <3>2
    <3>4. Extends /\ Len(dialog') = Len(dialog) + 1 /\ dialog'[Len(dialog) + 1].of = commit.of BY <2>0, <2>3, <3>1, <3>3, RowGrows
    <3>5. \A i \in 1..Len(dialog') : i \notin 1..Len(dialog) => i = Len(dialog) + 1 BY <3>4 DEF Extends
    <3>6. \A i \in 1..Len(dialog') : i \notin 1..Len(dialog) => dialog'[i].of \in Pulse \cup {Note} BY <3>2, <3>4, <3>5
    <3> QED BY <2>1, <3>4, <3>6, RowsOfOthers
  <2> QED BY <1>19, <2>2, <2>3 DEF CommitRemembers
<1>20. ASSUME CommitEnds PROVE RowsInv'
  <2>0. Rows BY DEF RowsInv
  <2>1. turnMu \notin Msg /\ turn' = turn /\ (EnsureHistory \/ EnsureHistoryFails) BY <1>20, NamesDiffer DEF CommitEnds, FenceInv, LockHolders
  <2>2. Extends /\ \A i \in 1..Len(dialog') : i \notin 1..Len(dialog) => dialog'[i].of \in Pulse BY <2>0, <2>1, HistoryOthers
  <2> QED BY <2>1, <2>2, RowsOfOthers
<1>21. ASSUME NoteLock \/ ResetAdmitted \/ ResetLock \/ ResetEnds \/ QuietAsked \/ QuietStops \/ QuietLock \/ QuietGivesUp \/ QuietReleases PROVE RowsInv'
  <2>1. UNCHANGED <<dialog, turn>> BY <1>21 DEF NoteLock, ResetAdmitted, ResetLock, ResetEnds, QuietAsked, QuietStops, QuietLock, QuietGivesUp, QuietReleases, memory, actors, store
  <2> QED BY <2>1, RowsAre
<1>22. ASSUME NoteChecks PROVE RowsInv'
  <2>0. Rows BY DEF RowsInv
  <2>1. turnMu \notin Msg /\ turn' = turn /\ (EnsureHistory \/ EnsureHistoryFails) BY <1>22, NamesDiffer DEF NoteChecks, FenceInv, LockHolders
  <2>2. Extends /\ \A i \in 1..Len(dialog') : i \notin 1..Len(dialog) => dialog'[i].of \in Pulse BY <2>0, <2>1, HistoryOthers
  <2> QED BY <2>1, <2>2, RowsOfOthers
<1>23. ASSUME NoteDelivers PROVE RowsInv'
  <2>0. Rows BY DEF RowsInv
  <2>1. turnMu \notin Msg /\ turn' = turn BY <1>23, NamesDiffer DEF NoteDelivers, FenceInv, LockHolders
  <2>2. CASE dialog' = dialog BY <2>1, <2>2, RowsAre
  <2>3. CASE dialog' = Append(dialog, Row("assistant", Note, 0))
    <3>1. now \in Nat BY DEF CountInv, Clocks
    <3>2. Note \in Pulse \cup {Note} OBVIOUS
    <3>3. Note \in Msg \cup Pulse \cup {Note} BY <3>2
    <3>4. Extends /\ Len(dialog') = Len(dialog) + 1 /\ dialog'[Len(dialog) + 1].of = Note BY <2>0, <2>3, <3>1, <3>3, RowGrows
    <3>5. \A i \in 1..Len(dialog') : i \notin 1..Len(dialog) => i = Len(dialog) + 1 BY <3>4 DEF Extends
    <3>6. \A i \in 1..Len(dialog') : i \notin 1..Len(dialog) => dialog'[i].of \in Pulse \cup {Note} BY <3>2, <3>4, <3>5
    <3> QED BY <2>1, <3>4, <3>6, RowsOfOthers
  <2> QED BY <1>23, <2>2, <2>3 DEF NoteDelivers
<1>24. ASSUME ResetSession PROVE RowsInv'
  <2>0. Rows BY DEF RowsInv
  <2>1. turnMu \notin Msg /\ turn' = turn BY <1>24, NamesDiffer DEF ResetSession, FenceInv, LockHolders
  <2>2. CASE dialog' = <<>> BY <2>1, <2>2, EmptyRows
  <2>3. CASE EnsureHistoryFails
    <3>1. Extends /\ \A i \in 1..Len(dialog') : i \notin 1..Len(dialog) => dialog'[i].of \in Pulse BY <2>0, <2>3, HistoryOthers
    <3> QED BY <2>1, <3>1, RowsOfOthers
  <2> QED BY <1>24, <2>2, <2>3 DEF ResetSession
<1>25. ASSUME QuietRestarts PROVE RowsInv'
  <2>1. turn' = turn /\ dialog' = <<>> BY <1>25 DEF QuietRestarts
  <2> QED BY <2>1, EmptyRows
<1>26. ASSUME Crash PROVE RowsInv' BY <1>26, CrashRows
<1> QED BY <1>1, <1>2, <1>3, <1>4, <1>5, <1>6, <1>7, <1>8, <1>9, <1>10, <1>11, <1>12, <1>13, <1>14, <1>15, <1>16, <1>17, <1>18, <1>19, <1>20, <1>21, <1>22, <1>23, <1>24, <1>25, <1>26 DEF Steps

-----------------------------------------------------------------------------
(* An account that is gone                                                    *)

Mute ==
    /\ dialog = <<>> /\ \A p \in Pulse : pulse[p].session < session
    /\ turnMu \in {None, Reset, Quiet, Commit} /\ commit.pc \in {"idle", "locked"}
Idle == draft.pc = "idle" /\ \A m \in Msg : msg[m].st \notin Waiting

LEMMA SilencedIs == (Silenced <=> (gone => Mute /\ (~retired => Idle))) /\ (Silenced' <=> (gone' => Mute' /\ (~retired' => Idle')))
BY DEF Silenced, Mute, Idle

LEMMA MuteAlone ==
  ASSUME FenceInv, Mute
  PROVE  /\ \A m \in Msg : turn[m].pc \notin Inside
         /\ draft.pc \notin {"locked", "thinking"} /\ note = "idle" /\ turnMu \notin Msg
BY NamesDiffer DEF FenceInv, LockHolders, Mute

\* While nothing of this session was sent, the barrier adds no row.
LEMMA NothingOwed ==
  ASSUME Mute, Pulses, EnsureHistory \/ EnsureHistoryFails
  PROVE  dialog' = <<>>
<1>1. Owed = {}
  <2> SUFFICES ASSUME NEW p \in Owed PROVE FALSE OBVIOUS
  <2>1. p \in Pulse /\ pulse[p].session = session BY DEF Owed, Pulses
  <2>2. pulse[p].session \in Nat /\ pulse[p].session < session BY <2>1 DEF Mute, Pulses
  <2> QED BY <2>1, <2>2
<1>2. dialog' = Projected({})
  <2>1. CASE EnsureHistory BY <1>1, <2>1 DEF EnsureHistory
  <2>2. CASE EnsureHistoryFails
    <3>1. \E S \in SUBSET Owed : dialog' = Projected(S) BY <2>2 DEF EnsureHistoryFails
    <3>2. \A S \in SUBSET Owed : S = {} BY <1>1
    <3> QED BY <3>1, <3>2
  <2> QED BY <2>1, <2>2
<1>3. Cardinality({}) = 0 BY FS_EmptySet
<1>4. dialog' = <<>> \o [i \in 1..0 |-> Row("assistant", Listed({})[i], 0)] BY <1>2, <1>3 DEF Projected, Mute
<1>5. [i \in 1..0 |-> Row("assistant", Listed({})[i], 0)] = <<>>
  <2>1. 1..0 = {} OBVIOUS
  <2> QED BY <2>1
<1> QED BY <1>4, <1>5

LEMMA SilencedStep == ASSUME FenceInv, CountInv, Pulses, Silenced, Steps PROVE Silenced'
<1>1. ASSUME NEW m \in Msg, Admit(m) PROVE Silenced'
  <2>1. UNCHANGED <<gone, retired, dialog, pulse, session, turnMu, commit>> /\ (gone => retired) BY <1>1 DEF Admit, store, Reachable
  <2> QED BY <2>1, SilencedIs DEF Mute
<1>2. ASSUME NEW m \in Msg, Unusable(m) \/ StartTurn(m) \/ Debounce(m) PROVE Silenced'
  <2>1. UNCHANGED <<gone, retired, dialog, pulse, session, turnMu, commit>> /\ msg[m].st = "prep"
    BY <1>2 DEF Unusable, StartTurn, Debounce, memory, store
  <2>2. ~Idle BY <2>1 DEF Idle, Waiting
  <2> QED BY <2>1, <2>2, SilencedIs DEF Mute
<1>3. ASSUME DebounceFires PROVE Silenced'
  <2>1. UNCHANGED <<gone, retired, dialog, pulse, session, turnMu, commit>> /\ \E m \in Msg : msg[m].st = "debounced"
    BY <1>3 DEF DebounceFires, Debounced, memory, store
  <2>2. ~Idle BY <2>1 DEF Idle, Waiting
  <2> QED BY <2>1, <2>2, SilencedIs DEF Mute
<1>4. ASSUME NEW m \in Msg, TurnDropped(m) PROVE Silenced'
  <2>1. UNCHANGED <<gone, retired, dialog, pulse, session, turnMu, commit>> /\ retired BY <1>4 DEF TurnDropped, store, conversationRetired
  <2> QED BY <2>1, SilencedIs DEF Mute
<1>5. ASSUME NEW m \in Msg, TurnBegins(m) PROVE Silenced'
  <2>1. gone' = gone /\ ~retired /\ turn[m].pc = "queued" BY <1>5 DEF TurnBegins, store, conversationRetired
  <2>2. msg[m].st = "turn" BY <2>1 DEF FenceInv, MessagesServed, Serving
  <2>3. ~Idle BY <2>2 DEF Idle, Waiting
  <2> QED BY <2>1, <2>3, SilencedIs
<1>6. ASSUME NEW m \in Msg, CompleteActivity(m) \/ EndTurn(m) \/ TurnReady(m) \/ TurnNotReady(m) PROVE Silenced'
  <2>1. gone' = gone /\ ~gone BY <1>6, SilencedIs, MuteAlone DEF CompleteActivity, EndTurn, TurnReady, TurnNotReady, store, Inside
  <2> QED BY <2>1, SilencedIs
<1>7. ASSUME NEW m \in Msg, TurnWrites(m) PROVE Silenced'
  <2>1. turn[m].pc \in Inside
    BY <1>7 DEF TurnWrites, TurnSilent, AskUser, ToolCalls, ToolResults, ModelFails, TurnStep, StreamText, Answer, ReflexAnswer, Delivered, SettleTurn, Inside
  <2>2. gone' = gone BY <1>7, TurnWritesFrame
  <2> QED BY <2>1, <2>2, MuteAlone, SilencedIs
<1>8. ASSUME NEW id \in Msg \cup {None}, CancelTurn(id) PROVE Silenced'
  <2>1. UNCHANGED <<gone, retired, dialog, pulse, session, turnMu, commit, draft, msg>> BY <1>8 DEF CancelTurn, actors, store
  <2> QED BY <2>1, SilencedIs DEF Mute, Idle
<1>9. ASSUME DraftRequested PROVE Silenced'
  <2>1. gone' = gone /\ LatestUserMessageAnchor.of # None BY <1>9 DEF DraftRequested, store
  <2>2. ASSUME dialog = <<>> PROVE FALSE
    <3>1. Len(dialog) = 0 BY <2>2
    <3>2. 1..0 = {} OBVIOUS
    <3>3. HumanRows = {} BY <3>1, <3>2 DEF HumanRows
    <3>4. LatestUserMessageAnchor.of = None BY <3>3 DEF LatestUserMessageAnchor, Row
    <3> QED BY <2>1, <3>4
  <2> QED BY <2>1, <2>2, SilencedIs DEF Mute
<1>10. ASSUME DraftLock PROVE Silenced'
  <2>1. UNCHANGED <<gone, retired, dialog, pulse, session, commit, msg>> /\ draft.pc = "waiting" BY <1>10 DEF DraftLock, store
  <2>2. retired => turnMu' = turnMu BY <1>10 DEF DraftLock, conversationRetired
  <2>3. ~Idle BY <2>1 DEF Idle
  <2> QED BY <2>1, <2>2, <2>3, SilencedIs DEF Mute
<1>11. ASSUME DraftReads \/ DraftBarred \/ DraftEnds \/ NoteChecks \/ NoteDelivers PROVE Silenced'
  <2>1. gone' = gone /\ ~gone BY <1>11, SilencedIs, MuteAlone DEF DraftReads, DraftBarred, DraftEnds, NoteChecks, NoteDelivers
  <2> QED BY <2>1, SilencedIs
<1>12. ASSUME NEW p \in Pulse, CommitLock(p) PROVE Silenced'
  <2>1. UNCHANGED <<gone, retired, dialog, session, draft, msg>> /\ turnMu' \in {turnMu, Commit}
    BY <1>12 DEF CommitLock
  <2>2. commit'.pc \in {commit.pc, "locked"} BY <1>12 DEF CommitLock
  <2>3. \A q \in Pulse : pulse'[q].session = pulse[q].session BY <1>12, PulseAt DEF CommitLock, FenceInv
  <2>4. Mute => Mute'
    <3>1. Mute => dialog' = <<>> /\ \A q \in Pulse : pulse'[q].session < session' BY <2>1, <2>3 DEF Mute
    <3> QED BY <2>1, <2>2, <3>1 DEF Mute
  <2>5. Idle => Idle' BY <2>1 DEF Idle
  <2> QED BY <2>1, <2>4, <2>5, SilencedIs
<1>13. ASSUME NEW p \in Pulse, JournalConfirms(p) PROVE Silenced'
  <2>1. UNCHANGED <<gone, retired, dialog, pulse, session, turnMu, commit, draft, msg>> BY <1>13 DEF JournalConfirms, memory, actors
  <2> QED BY <2>1, SilencedIs DEF Mute, Idle
<1>14. ASSUME CommitChecks PROVE Silenced'
  <2>1. UNCHANGED <<gone, retired, session, draft, msg>> /\ commit.pc = "locked" /\ commit.of \in Pulse BY <1>14 DEF CommitChecks, Pulses
  <2>2. ASSUME Mute PROVE Mute'
    <3>1. pulse[commit.of].session < session /\ pulse[commit.of].session \in Nat BY <2>1, <2>2 DEF Mute, Pulses
    <3>2. session # pulse[commit.of].session BY <3>1
    <3>3. PulseIs(commit.of, "refused") /\ commit' = NoCommit /\ turnMu' = None /\ dialog' = dialog BY <1>14, <3>2 DEF CommitChecks, history
    <3>4. \A q \in Pulse : pulse'[q].session = pulse[q].session BY <2>1, <3>3, PulseAt DEF FenceInv
    <3>5. \A q \in Pulse : pulse'[q].session < session' BY <2>1, <2>2, <3>4 DEF Mute
    <3>6. commit'.pc = "idle" BY <3>3 DEF NoCommit
    <3> QED BY <2>2, <3>3, <3>5, <3>6 DEF Mute
  <2>3. Idle => Idle' BY <2>1 DEF Idle
  <2> QED BY <2>1, <2>2, <2>3, SilencedIs
<1>15. ASSUME CommitSends \/ CommitRemembers \/ CommitEnds PROVE Silenced'
  <2>1. gone' = gone /\ commit.pc \in {"sending", "sent", "remembered"} BY <1>15 DEF CommitSends, CommitRemembers, CommitEnds
  <2>2. ~Mute BY <2>1 DEF Mute
  <2> QED BY <2>1, <2>2, SilencedIs
<1>16. ASSUME NoteLock PROVE Silenced'
  <2>1. UNCHANGED <<gone, retired, dialog, pulse, session, commit, draft, msg>> /\ (gone => retired) /\ (retired => turnMu' = turnMu)
    BY <1>16 DEF NoteLock, store, Reachable, conversationRetired
  <2> QED BY <2>1, SilencedIs DEF Mute
<1>17. ASSUME ResetAdmitted \/ ResetEnds \/ QuietAsked \/ QuietStops \/ QuietGivesUp PROVE Silenced'
  <2>1. UNCHANGED <<gone, retired, dialog, pulse, session, turnMu, commit, draft, msg>> BY <1>17 DEF ResetAdmitted, ResetEnds, QuietAsked, QuietStops, QuietGivesUp, memory, actors, store
  <2> QED BY <2>1, SilencedIs DEF Mute, Idle
<1>18. ASSUME ResetLock \/ QuietLock \/ QuietReleases PROVE Silenced'
  <2>1. UNCHANGED <<gone, retired, dialog, pulse, session, commit, draft, msg>> /\ turnMu' \in {None, Reset, Quiet, turnMu} BY <1>18 DEF ResetLock, QuietLock, QuietReleases, store
  <2>2. Mute => Mute' BY <2>1 DEF Mute
  <2>3. Idle => Idle' BY <2>1 DEF Idle
  <2> QED BY <2>1, <2>2, <2>3, SilencedIs
<1>19. ASSUME ResetSession PROVE Silenced'
  <2>1. UNCHANGED <<gone, retired, pulse, commit, draft, msg>> /\ turnMu' = None BY <1>19 DEF ResetSession
  <2>2. session \in Nat /\ (session' = session + 1 \/ session' = session) BY <1>19 DEF ResetSession, CountInv, Clocks
  <2>3. ASSUME Mute PROVE Mute'
    <3>1. dialog' = <<>> BY <1>19, <2>3, NothingOwed DEF ResetSession
    <3>2. \A p \in Pulse : pulse[p].session \in Nat /\ pulse[p].session < session BY <2>3 DEF Mute, Pulses
    <3>3. \A p \in Pulse : pulse'[p].session < session' BY <2>1, <2>2, <3>2
    <3> QED BY <2>1, <2>3, <3>1, <3>3 DEF Mute
  <2>4. Idle => Idle' BY <2>1 DEF Idle
  <2> QED BY <2>1, <2>3, <2>4, SilencedIs
<1>20. ASSUME QuietRestarts PROVE Silenced'
  <2>1. quiet = "quiet" /\ retired' /\ turnMu' = None /\ dialog' = <<>> /\ session' = session + 1 /\ UNCHANGED <<pulse, commit>> BY <1>20 DEF QuietRestarts
  <2>2. commit.pc = "idle" BY <2>1, NamesDiffer DEF FenceInv, LockHolders
  <2>3. \A p \in Pulse : pulse[p].session \in Nat /\ pulse[p].session <= session BY DEF Pulses
  <2>4. session \in Nat BY DEF CountInv, Clocks
  <2>5. \A p \in Pulse : pulse'[p].session < session' BY <2>1, <2>3, <2>4
  <2>6. Mute' BY <2>1, <2>2, <2>5 DEF Mute
  <2> QED BY <2>1, <2>6, SilencedIs
<1>21. ASSUME Crash PROVE Silenced'
  <2>1. UNCHANGED <<gone, dialog, session>> /\ turnMu' = None /\ commit' = NoCommit /\ draft' = NoDraft BY <1>21 DEF Crash
  <2>2. \A p \in Pulse : pulse'[p].session = pulse[p].session
    <3> TAKE p \in Pulse
    <3>1. DOMAIN pulse[p] = {"st", "session", "draft"} BY DEF FenceInv, ConvShape
    <3>2. pulse'[p] = pulse[p] \/ pulse'[p] = [pulse[p] EXCEPT !.st = "uncertain", !.draft = NoDraft] BY <1>21 DEF Crash
    <3>3. pulse'[p] = [pulse[p] EXCEPT !.st = "uncertain", !.draft = NoDraft] => pulse'[p].session = pulse[p].session BY <3>1
    <3> QED BY <3>2, <3>3
  <2>3. Idle'
    <3>1. \A m \in Msg : msg'[m].st \notin Waiting
      <4>1. "dropped" \notin Waiting BY DEF Waiting
      <4> QED BY <1>21, <4>1, CrashLeaves DEF FenceInv
    <3>2. draft'.pc = "idle" BY <2>1 DEF NoDraft
    <3> QED BY <3>1, <3>2 DEF Idle
  <2>4. commit'.pc = "idle" BY <2>1 DEF NoCommit
  <2>5. Mute => Mute'
    <3>1. Mute => dialog' = <<>> /\ \A p \in Pulse : pulse'[p].session < session' BY <2>1, <2>2 DEF Mute
    <3> QED BY <2>1, <2>4, <3>1 DEF Mute
  <2> QED BY <2>1, <2>3, <2>5, SilencedIs
<1> QED BY <1>1, <1>2, <1>3, <1>4, <1>5, <1>6, <1>7, <1>8, <1>9, <1>10, <1>11, <1>12, <1>13, <1>14, <1>15, <1>16, <1>17, <1>18, <1>19, <1>20, <1>21 DEF Steps

-----------------------------------------------------------------------------
(* The inductive invariant                                                    *)

LEMMA ConvInit == Init => ConvIInv
<1> SUFFICES ASSUME Init PROVE ConvIInv OBVIOUS
<1>1. ConvShape BY DEF Init, ConvShape, NoTurn, NoMsg, NoDraft, NoCommit, NoReset, TurnFields, DraftFields
<1>2. \A m \in Msg : turn[m].pc = "none" /\ turn[m].end = "none" /\ msg[m].st = "new" /\ msg[m].lead = None /\ msg[m].ver = 0 BY DEF Init, NoTurn, NoMsg
<1>3. /\ draft.pc = "idle" /\ commit.pc = "idle" /\ note = "idle" /\ reset.pc = "idle" /\ quiet = "idle"
      /\ turnMu = None /\ actMu = None
  BY DEF Init, NoDraft, NoCommit, NoReset
<1>4. LockHolders BY <1>2, <1>3, NamesDiffer DEF LockHolders, Holder, Inside
<1>5. MessagesServed BY <1>2 DEF MessagesServed, Serving
<1>6. Clocks BY DEF Init, Clocks
<1>7. PendingIsExact
  <2>1. "new" \notin Waiting BY DEF Waiting
  <2>2. Unserved(msg) = {} BY <1>2, <2>1 DEF Unserved
  <2>3. Cardinality(Unserved(msg)) = 0 BY <2>2, FS_EmptySet
  <2>4. Asking(reset) = 0 BY <1>3 DEF Asking
  <2>5. act.pending = 0 BY DEF Init
  <2> QED BY <2>3, <2>4, <2>5, CountIs
<1>8. visible = {} /\ unfinalized = {} /\ confirmed = {} /\ session = 1 /\ dialog = <<>> /\ gone = FALSE BY DEF Init
<1>9. \A p \in Pulse : pulse[p].st = "none" /\ pulse[p].session = 0 BY DEF Init
<1>10. Pulses BY <1>3, <1>8, <1>9 DEF Pulses
<1>11. DialogueComplete BY <1>8 DEF DialogueComplete
<1>12. Drafts /\ SendingFits BY <1>3, <1>9 DEF Drafts, SendingFits
<1>13. RowsInv
  <2>1. dialog \in Seq(RowType) /\ Len(dialog) = 0 BY <1>8
  <2>2. \A i \in 1..Len(dialog) : FALSE BY <2>1
  <2>3. \A m \in Msg : TurnOk(turn[m], m, dialog)
    BY <1>2, <2>2 DEF TurnOk, EndOk, UnaskedOk, WritingOk, StoppedOk, ScreenOk, Stops
  <2> QED BY <2>1, <2>3, RowsAre
<1>14. Silenced BY <1>8 DEF Silenced
<1> QED BY <1>1, <1>4, <1>5, <1>6, <1>7, <1>10, <1>11, <1>12, <1>13, <1>14 DEF ConvIInv, RowsInv

LEMMA ConvNext == ConvIInv /\ [Next]_vars => ConvIInv'
<1> SUFFICES ASSUME ConvIInv, [Next]_vars PROVE ConvIInv' OBVIOUS
<1>0. /\ FenceInv /\ CountInv /\ Clocks /\ Pulses /\ Rows /\ RowsInv /\ DialogueComplete /\ Drafts /\ SendingFits /\ Silenced
  BY DEF ConvIInv, FenceInv, CountInv, RowsInv
<1>1. CASE Next
  <2>1. Steps BY <1>1, NextIsSteps
  <2>2. FenceInv' BY <1>0, <2>1, FenceStep
  <2>3. CountInv' BY <1>0, <2>1, CountStep
  <2>4. Pulses' BY <1>0, <2>1, PulsesStep
  <2>5. Drafts' BY <1>0, <2>1, DraftsStep
  <2>6. SendingFits' BY <1>0, <2>1, SendingStep
  <2>7. DialogueComplete' BY <1>0, <2>1, CompleteStep
  <2>8. RowsInv' BY <1>0, <2>1, RowsStep
  <2>9. Silenced' BY <1>0, <2>1, SilencedStep
  <2> QED BY <2>2, <2>3, <2>4, <2>5, <2>6, <2>7, <2>8, <2>9 DEF ConvIInv, FenceInv, CountInv, RowsInv
<1>2. CASE UNCHANGED vars
  <2>1. UNCHANGED <<turn, msg, draft, commit, reset, pulse, active, cancelled, turnMu, note, quiet, actMu>>
    BY <1>2 DEF vars, memory, actors, store
  <2>2. UNCHANGED <<act, now, boot, session, unfinalized, confirmed, visible, dialog, gone, retired>>
    BY <1>2 DEF vars, memory, actors, store
  <2>3. FenceInv' BY <1>0, <2>1 DEF FenceInv, ConvShape, LockHolders, MessagesServed
  <2>4. CountInv' BY <1>0, <2>1, <2>2 DEF CountInv, Clocks, PendingIsExact
  <2>5. Pulses' BY <1>0, <2>1, <2>2 DEF Pulses, Seen
  <2>6. Drafts' /\ SendingFits' BY <1>0, <2>1, <2>2 DEF Drafts, SendingFits, Fits
  <2>7. DialogueComplete' BY <1>0, <2>1, <2>2 DEF DialogueComplete, InDialog
  <2>8. RowsInv' BY <1>0, <2>1, <2>2, RowsAre
  <2>9. Silenced' BY <1>0, <2>1, <2>2, SilencedIs DEF Mute, Idle
  <2> QED BY <2>3, <2>4, <2>5, <2>6, <2>7, <2>8, <2>9 DEF ConvIInv, FenceInv, CountInv, RowsInv
<1> QED BY <1>1, <1>2

LEMMA ConvAlways == Spec => []ConvIInv
<1>1. Init => ConvIInv BY ConvInit
<1>2. ConvIInv /\ [Next]_vars => ConvIInv' BY ConvNext
<1> QED BY <1>1, <1>2, PTL DEF Spec

\* Only the send of a commit makes a pulse visible, and an account that is gone
\* does not come back.
LEMMA VisibleSteps == ASSUME Steps PROVE visible' = visible \/ CommitSends
<1>1. ASSUME NEW m \in Msg, Admit(m) \/ Unusable(m) \/ StartTurn(m) \/ Debounce(m) \/ TurnDropped(m) \/ CompleteActivity(m) PROVE visible' = visible \/ CommitSends BY <1>1 DEF Admit, Unusable, StartTurn, Debounce, TurnDropped, CompleteActivity, memory, actors, store
<1>2. ASSUME NEW m \in Msg, TurnBegins(m) \/ EndTurn(m) \/ TurnReady(m) \/ TurnNotReady(m) PROVE visible' = visible \/ CommitSends BY <1>2 DEF TurnBegins, EndTurn, TurnReady, TurnNotReady, memory, actors, store
<1>3. ASSUME NEW p \in Pulse, CommitLock(p) \/ JournalConfirms(p) PROVE visible' = visible \/ CommitSends BY <1>3 DEF CommitLock, JournalConfirms, memory, actors, store
<1>4. ASSUME NEW id \in Msg \cup {None}, CancelTurn(id) PROVE visible' = visible \/ CommitSends BY <1>4 DEF CancelTurn, memory, actors, store
<1>5. ASSUME DebounceFires \/ DraftRequested \/ DraftLock \/ DraftReads \/ DraftBarred \/ DraftEnds PROVE visible' = visible \/ CommitSends BY <1>5 DEF DebounceFires, DraftRequested, DraftLock, DraftReads, DraftBarred, DraftEnds, memory, actors, store
<1>6. ASSUME CommitChecks \/ CommitRemembers \/ CommitEnds \/ NoteLock \/ NoteChecks \/ NoteDelivers PROVE visible' = visible \/ CommitSends BY <1>6 DEF CommitChecks, CommitRemembers, CommitEnds, NoteLock, NoteChecks, NoteDelivers, memory, actors, store
<1>7. ASSUME ResetAdmitted \/ ResetLock \/ ResetSession \/ ResetEnds \/ QuietAsked \/ QuietStops PROVE visible' = visible \/ CommitSends BY <1>7 DEF ResetAdmitted, ResetLock, ResetSession, ResetEnds, QuietAsked, QuietStops, memory, actors, store
<1>8. ASSUME QuietLock \/ QuietGivesUp \/ QuietRestarts \/ QuietReleases \/ Crash PROVE visible' = visible \/ CommitSends BY <1>8 DEF QuietLock, QuietGivesUp, QuietRestarts, QuietReleases, Crash, memory, actors, store
<1>9. ASSUME NEW m \in Msg, TurnWrites(m) PROVE visible' = visible \/ CommitSends BY <1>9, TurnWritesFrame DEF memory
<1>10. ASSUME CommitSends PROVE visible' = visible \/ CommitSends BY <1>10 DEF CommitSends
<1> QED BY <1>1, <1>2, <1>3, <1>4, <1>5, <1>6, <1>7, <1>8, <1>9, <1>10 DEF Steps

LEMMA GoneSteps == ASSUME Steps PROVE gone => gone'
<1>1. ASSUME NEW m \in Msg, Admit(m) \/ Unusable(m) \/ StartTurn(m) \/ Debounce(m) \/ TurnDropped(m) \/ CompleteActivity(m) PROVE gone => gone' BY <1>1 DEF Admit, Unusable, StartTurn, Debounce, TurnDropped, CompleteActivity, memory, actors, store
<1>2. ASSUME NEW m \in Msg, TurnBegins(m) \/ EndTurn(m) \/ TurnReady(m) \/ TurnNotReady(m) PROVE gone => gone' BY <1>2 DEF TurnBegins, EndTurn, TurnReady, TurnNotReady, memory, actors, store
<1>3. ASSUME NEW p \in Pulse, CommitLock(p) \/ JournalConfirms(p) PROVE gone => gone' BY <1>3 DEF CommitLock, JournalConfirms, memory, actors, store
<1>4. ASSUME NEW id \in Msg \cup {None}, CancelTurn(id) PROVE gone => gone' BY <1>4 DEF CancelTurn, memory, actors, store
<1>5. ASSUME DebounceFires \/ DraftRequested \/ DraftLock \/ DraftReads \/ DraftBarred \/ DraftEnds PROVE gone => gone' BY <1>5 DEF DebounceFires, DraftRequested, DraftLock, DraftReads, DraftBarred, DraftEnds, memory, actors, store
<1>6. ASSUME CommitChecks \/ CommitSends \/ CommitRemembers \/ CommitEnds \/ NoteLock \/ NoteChecks PROVE gone => gone' BY <1>6 DEF CommitChecks, CommitSends, CommitRemembers, CommitEnds, NoteLock, NoteChecks, memory, actors, store
<1>7. ASSUME NoteDelivers \/ ResetAdmitted \/ ResetLock \/ ResetSession \/ ResetEnds \/ QuietAsked PROVE gone => gone' BY <1>7 DEF NoteDelivers, ResetAdmitted, ResetLock, ResetSession, ResetEnds, QuietAsked, memory, actors, store
<1>8. ASSUME QuietStops \/ QuietLock \/ QuietGivesUp \/ QuietReleases \/ Crash PROVE gone => gone' BY <1>8 DEF QuietStops, QuietLock, QuietGivesUp, QuietReleases, Crash, memory, actors, store
<1>9. ASSUME NEW m \in Msg, TurnWrites(m) PROVE gone => gone' BY <1>9, TurnWritesFrame DEF memory
<1>10. ASSUME QuietRestarts PROVE gone => gone' BY <1>10 DEF QuietRestarts
<1> QED BY <1>1, <1>2, <1>3, <1>4, <1>5, <1>6, <1>7, <1>8, <1>9, <1>10 DEF Steps

LEMMA VisibleBySend == ASSUME [Next]_vars PROVE visible' = visible \/ CommitSends
<1>1. CASE Next BY <1>1, NextIsSteps, VisibleSteps
<1>2. CASE UNCHANGED vars BY <1>2 DEF vars
<1> QED BY <1>1, <1>2

LEMMA GoneForGood == ASSUME [Next]_vars, gone PROVE gone'
<1>1. CASE Next BY <1>1, NextIsSteps, GoneSteps
<1>2. CASE UNCHANGED vars BY <1>2 DEF vars, store
<1> QED BY <1>1, <1>2

-----------------------------------------------------------------------------
(* The theorems                                                               *)

\* In every state the activity counter of the gateway is the number of messages
\* admitted at a transport that no turn has retired, plus a /reset that runs: a
\* completion and a rollback never reach the clamp at zero of
\* completeInboundActivity, and none is lost.
THEOREM ConversationIsSound == Spec => []ConversationSound
<1>1. ConvIInv => ConversationSound
  <2> SUFFICES ASSUME ConvIInv PROVE ConversationSound OBVIOUS
  <2>1. FenceInv /\ Clocks /\ PendingIsExact /\ Pulses /\ Rows BY DEF ConvIInv, FenceInv
  <2>2. act \in [ver : Nat, pending : 0..Cardinality(Msg) + 1, last : 0..now]
    <3>1. act.pending = Cardinality(Unserved(msg)) + Asking(reset) /\ Cardinality(Unserved(msg)) \in Nat /\ Asking(reset) \in 0..1
      BY <2>1, CountIs
    <3>2. Unserved(msg) \subseteq Msg /\ IsFiniteSet(Msg) BY NamesAssumption DEF Unserved
    <3>3. Cardinality(Unserved(msg)) <= Cardinality(Msg) /\ Cardinality(Msg) \in Nat BY <3>2, FS_Subset, FS_CardinalityType
    <3>4. act.pending \in 0..Cardinality(Msg) + 1 BY <3>1, <3>3
    <3>5. act \in [ver : Nat, pending : Nat, last : Nat] /\ act.last <= now /\ now \in Nat BY <2>1 DEF Clocks
    <3>6. act.last \in 0..now BY <3>5
    <3> QED BY <3>4, <3>5, <3>6
  <2>3. actMu \in {None, Commit, Note} /\ turnMu \in Holder BY <2>1 DEF FenceInv, LockHolders
  <2>4. active \in Msg \cup {None} /\ cancelled \subseteq Msg BY <2>1 DEF FenceInv, ConvShape
  <2>5. unfinalized \subseteq Pulse /\ confirmed \subseteq visible /\ visible \subseteq Pulse BY <2>1 DEF Pulses
  <2>6. \A m \in Msg : msg[m].ver \in Nat /\ msg[m].lead \in Msg \cup {None} BY <2>1 DEF FenceInv, MessagesServed
  <2>7. \A i \in 1..Len(dialog) : dialog[i].of \in Msg \cup Pulse \cup {Note}
    <3>1. dialog \in Seq(RowType) BY <2>1 DEF Rows
    <3>2. \A i \in 1..Len(dialog) : dialog[i] \in RowType BY <3>1
    <3> QED BY <3>2 DEF RowType
  <2> QED BY <2>1, <2>2, <2>3, <2>4, <2>5, <2>6, <2>7 DEF ConversationSound, TypeOK
<1> QED BY <1>1, ConvAlways, PTL

\* The model, in a turn or in an autonomous draft, never runs on a dialogue that
\* omits a pulse people can see and whose delivery is known: the barrier
\* ensureAutonomousHistoryLocked is passed under the turn lock before it, and no
\* send happens while it runs.
THEOREM DialogueIsComplete == Spec => []DialogueComplete
<1>1. ConvIInv => DialogueComplete BY DEF ConvIInv
<1> QED BY <1>1, ConvAlways, PTL

\* Wherever a stop falls, the question or tool result of the stopped turn is
\* followed by a row of the same turn (persistInterrupted), and half an answer
\* stays on the screen only if the transcript has it (telegramPreview.settle).
THEOREM StopIsRecorded == Spec => []StoppedTurnRecorded
<1>1. ConvIInv => StoppedTurnRecorded BY DEF ConvIInv
<1> QED BY <1>1, ConvAlways, PTL

\* A pulse becomes visible only in the dialogue it was drafted for: the checks of
\* CommitAutonomousTurn, made under both locks, still hold when SendToUserOnce
\* runs, and an equal token means that nobody was admitted since the draft.
THEOREM PulseFits == Spec => PulseFitsDialogue
<1> DEFINE Fit == \A p \in visible' \ visible :
                    LET d == pulse[p].draft IN
                      /\ d.seen = now /\ act.pending = 0
                      /\ pulse[p].session = session /\ d.rows = Len(dialog)
<1>1. ConvIInv /\ [Next]_vars => Fit
  <2> SUFFICES ASSUME ConvIInv, [Next]_vars PROVE Fit OBVIOUS
  <2>1. CASE visible' = visible BY <2>1
  <2>2. CASE CommitSends
    <3>1. commit.pc = "sending" /\ visible' \in {visible, visible \cup {commit.of}} BY <2>2 DEF CommitSends
    <3>2. Fits(commit.of) BY <3>1 DEF ConvIInv, SendingFits
    <3> QED BY <3>1, <3>2 DEF Fits
  <2>3. visible' = visible \/ CommitSends BY VisibleBySend
  <2> QED BY <2>1, <2>2, <2>3
<1> QED BY <1>1, ConvAlways, PTL DEF Spec, PulseFitsDialogue

\* Once an account was reset to its first day no row is written and no pulse goes
\* out for it, whatever waited for the lock (retireConversation), after a crash
\* that forgets the mark too.
THEOREM RetiredStaysSilent == Spec => RetiredIsSilent
<1>1. ConvIInv /\ ConvIInv' /\ [Next]_vars => (gone => UNCHANGED <<dialog, visible>>)
  <2> SUFFICES ASSUME ConvIInv, ConvIInv', [Next]_vars, gone PROVE UNCHANGED <<dialog, visible>> OBVIOUS
  <2>1. Mute BY SilencedIs DEF ConvIInv
  <2>2. gone' BY GoneForGood
  <2>3. Mute' BY <2>2, SilencedIs DEF ConvIInv
  <2>4. ~CommitSends BY <2>1 DEF Mute, CommitSends
  <2> QED BY <2>1, <2>3, <2>4, VisibleBySend DEF Mute
<1>2. ConvIInv /\ [Next]_vars => ConvIInv' BY ConvNext
<1> QED BY <1>1, <1>2, ConvAlways, PTL DEF Spec, RetiredIsSilent

====
