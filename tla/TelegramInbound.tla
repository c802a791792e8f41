--------------------------- MODULE TelegramInbound ---------------------------
(***************************************************************************)
(* A Telegram update on its way in: the long poller and its cursor, the    *)
(* bot registry that is reconciled with the host's rows, the two channels, *)
(* the dispatch loop, the reading of attachments between admission and the *)
(* debouncer, and the drain at shutdown (src/internal/transport/telegram:  *)
(* poller.go; src/internal/gateway: gateway_bots.go, gateway.go, drain.go, *)
(* payments.go, voice_inbound.go, telegram_transcription.go).  All rows    *)
(* hold the same Telegram bot: the host may rotate a row's id.             *)
(***************************************************************************)
EXTENDS Integers, Sequences, FiniteSets

CONSTANTS
  BotRows,        \* the host's ids for the bot
  InboundKinds,   \* kinds of update that arrive
  MaxUpdates,     \* bound: updates sent to the bot
  MaxPollers,     \* bound: pollers started in one process
  MaxRestarts,    \* bound: restarts of the process
  BotChannelCap,  \* capacity of a bot's channel
  SharedChannelCap \* capacity of updatesChan

ASSUME InboundConstants ==
  /\ InboundKinds \subseteq {"checkout", "paid", "tap", "empty", "text", "voice", "video", "document", "photo", "guest"}
  /\ MaxUpdates \in Nat /\ MaxPollers \in Nat /\ MaxRestarts \in Nat
  /\ BotChannelCap \in Nat \ {0} /\ SharedChannelCap \in Nat \ {0}

NoBot == "none"

VARIABLES
  ibArrived,  \* kinds of the updates sent so far; an update's id is its position
  ibAcked,    \* Telegram's cursor: updates below it are confirmed and gone
  ibDesired,  \* the row the host lists, or NoBot
  ibReg,      \* the registered row, or NoBot
  ibPipes,    \* pollers started: [row, live, offset, batch, ch]
  ibShared,   \* updatesChan: [row, id] in order
  ibHand,     \* the update handleUpdate is on and how far it is
  ibWaiting,  \* updates handed to the debouncer
  ibTurns,    \* updates whose turn is running
  ibCalls,    \* times each update was dispatched
  ibSilent,   \* admitted updates that ended without a turn
  ibLost,     \* updates discarded with the memory that held them
  ibProc      \* [up, stop: root context cancelled, restarts]

inboundVars == <<ibArrived, ibAcked, ibDesired, ibReg, ibPipes, ibShared, ibHand, ibWaiting, ibTurns, ibCalls,
                 ibSilent, ibLost, ibProc>>

Ids == 1..MaxUpdates
Idle == [id |-> 0, pc |-> ""]

InboundInit ==
  /\ ibArrived = <<>> /\ ibAcked = 1 /\ ibDesired \in BotRows /\ ibReg = NoBot
  /\ ibPipes = <<>> /\ ibShared = <<>> /\ ibHand = Idle /\ ibWaiting = {} /\ ibTurns = {}
  /\ ibCalls = [i \in Ids |-> 0] /\ ibSilent = {} /\ ibLost = {}
  /\ ibProc = [up |-> "up", stop |-> FALSE, restarts |-> 0]
-----------------------------------------------------------------------------
InOf(q) == {q[k] : k \in 1..Len(q)}
InPipe(p) == InOf(ibPipes[p].batch) \cup InOf(ibPipes[p].ch)
InShared == {m.id : m \in InOf(ibShared)}
InMemory == (UNION {InPipe(p) : p \in 1..Len(ibPipes)}) \cup InShared \cup {ibHand.id} \cup ibWaiting \cup ibTurns

Send == /\ Len(ibArrived) < MaxUpdates
        /\ \E k \in InboundKinds : ibArrived' = Append(ibArrived, k)
        /\ UNCHANGED <<ibAcked, ibDesired, ibReg, ibPipes, ibShared, ibHand, ibWaiting, ibTurns, ibCalls, ibSilent, ibLost, ibProc>>

\* The host removes the bot, adds it, or rotates its row.
Rotate == /\ \E r \in BotRows \cup {NoBot} : r # ibDesired /\ ibDesired' = r
          /\ ibProc.up = "up" /\ Len(ibPipes) < MaxPollers
          /\ UNCHANGED <<ibArrived, ibAcked, ibReg, ibPipes, ibShared, ibHand, ibWaiting, ibTurns, ibCalls, ibSilent, ibLost, ibProc>>

\* ReloadBots, first half: a bot no longer listed is unregistered, its poller
\* cancelled.
unregisterBotLocked ==
  /\ ibProc.up = "up" /\ ibReg # NoBot /\ ibReg # ibDesired
  /\ ibReg' = NoBot
  /\ ibPipes' = [p \in 1..Len(ibPipes) |-> IF ibPipes[p].row = ibReg THEN [ibPipes[p] EXCEPT !.live = FALSE] ELSE ibPipes[p]]
  /\ UNCHANGED <<ibArrived, ibAcked, ibDesired, ibShared, ibHand, ibWaiting, ibTurns, ibCalls, ibSilent, ibLost, ibProc>>

\* Second half: a listed bot that is not registered gets a client, a poller with
\* a zero cursor and its goroutines (a failed getMe leaves it to the next
\* reload).  One Telegram bot is registered under one row.
registerBot ==
  /\ ibProc.up = "up" /\ ~ibProc.stop /\ ibReg = NoBot /\ ibDesired # NoBot /\ Len(ibPipes) < MaxPollers
  /\ ibReg' = ibDesired
  /\ ibPipes' = Append(ibPipes, [row |-> ibDesired, live |-> TRUE, offset |-> 0, batch |-> <<>>, ch |-> <<>>])
  /\ UNCHANGED <<ibArrived, ibAcked, ibDesired, ibShared, ibHand, ibWaiting, ibTurns, ibCalls, ibSilent, ibLost, ibProc>>
-----------------------------------------------------------------------------
Larger(a, b) == IF a > b THEN a ELSE b
FetchedFrom(cursor) == [k \in 1..(Len(ibArrived) - cursor + 1) |-> cursor + k - 1]

PolledToFirst(pipe, batch) ==                       \* mutant: the cursor follows one update
  [pipe EXCEPT !.batch = batch, !.offset = IF batch = <<>> THEN @ ELSE batch[1] + 1]

\* Poll: getUpdates confirms everything below the offset and returns the rest;
\* the offset moves past what came back.
Polled(pipe, batch) ==
  [pipe EXCEPT !.batch = batch, !.offset = IF batch = <<>> THEN @ ELSE batch[Len(batch)] + 1]

\* An answer that is lost confirms just the same.
Poll(p) ==
  /\ ibPipes[p].live /\ ~ibProc.stop /\ ibPipes[p].batch = <<>>
  /\ ibAcked' = Larger(ibAcked, ibPipes[p].offset)
  /\ \E got \in {FetchedFrom(Larger(ibAcked, ibPipes[p].offset)), <<>>} :
       ibPipes' = [ibPipes EXCEPT ![p] = Polled(ibPipes[p], got)]
  /\ UNCHANGED <<ibArrived, ibDesired, ibReg, ibShared, ibHand, ibWaiting, ibTurns, ibCalls, ibSilent, ibLost, ibProc>>

\* Poller.Run hands its batch on one by one, and runBotPoller tags each update
\* and forwards it.  Both also watch the context: cancelled, they may still win
\* one more send, or return.
Deliver(p) ==
  /\ ibPipes[p].batch # <<>> /\ Len(ibPipes[p].ch) < BotChannelCap
  /\ ibPipes' = [ibPipes EXCEPT ![p] = [ibPipes[p] EXCEPT !.ch = Append(@, Head(ibPipes[p].batch)), !.batch = Tail(@)]]
  /\ UNCHANGED <<ibArrived, ibAcked, ibDesired, ibReg, ibShared, ibHand, ibWaiting, ibTurns, ibCalls, ibSilent, ibLost, ibProc>>

runBotPoller(p) ==
  /\ ibPipes[p].ch # <<>> /\ Len(ibShared) < SharedChannelCap
  /\ ibShared' = Append(ibShared, [row |-> ibPipes[p].row, id |-> Head(ibPipes[p].ch)])
  /\ ibPipes' = [ibPipes EXCEPT ![p] = [ibPipes[p] EXCEPT !.ch = Tail(@)]]
  /\ UNCHANGED <<ibArrived, ibAcked, ibDesired, ibReg, ibHand, ibWaiting, ibTurns, ibCalls, ibSilent, ibLost, ibProc>>

PollerReturns(p) ==
  /\ ~ibPipes[p].live \/ ibProc.stop
  /\ InPipe(p) # {}
  /\ ibLost' = ibLost \cup InPipe(p)
  /\ ibPipes' = [ibPipes EXCEPT ![p] = [ibPipes[p] EXCEPT !.batch = <<>>, !.ch = <<>>]]
  /\ UNCHANGED <<ibArrived, ibAcked, ibDesired, ibReg, ibShared, ibHand, ibWaiting, ibTurns, ibCalls, ibSilent, ibProc>>
-----------------------------------------------------------------------------
\* Run takes the next update; one tagged with a row that is no longer registered
\* is dropped.
botByID(row) == ibReg = row

Dispatch ==
  /\ ibProc.up = "up" /\ ibHand = Idle /\ ibShared # <<>>
  /\ LET m == Head(ibShared) IN
       IF botByID(m.row)
       THEN /\ ibHand' = [id |-> m.id, pc |-> "routing"] /\ ibCalls' = [ibCalls EXCEPT ![m.id] = @ + 1] /\ UNCHANGED ibLost
       ELSE UNCHANGED <<ibHand, ibCalls>> /\ ibLost' = ibLost \cup {m.id}
  /\ ibShared' = Tail(ibShared)
  /\ UNCHANGED <<ibArrived, ibAcked, ibDesired, ibReg, ibPipes, ibWaiting, ibTurns, ibSilent, ibProc>>

Kind == ibArrived[ibHand.id]
Frame == UNCHANGED <<ibArrived, ibAcked, ibDesired, ibReg, ibPipes, ibShared, ibCalls, ibLost, ibProc>>

\* Payments and button presses are finished where they arrive; a message that
\* says nothing, or that the routing handles or refuses, ends there.
handlePayment == /\ ibHand.pc = "routing" /\ Kind \in {"checkout", "paid", "tap"} /\ ibHand' = Idle
                 /\ Frame /\ UNCHANGED <<ibWaiting, ibTurns, ibSilent>>

\* A guest summons leaves the loop at once and is counted as a turn.
handleGuestMessage == /\ ibHand.pc = "routing" /\ Kind = "guest"
                      /\ ibTurns' = ibTurns \cup {ibHand.id} /\ ibHand' = Idle
                      /\ Frame /\ UNCHANGED <<ibWaiting, ibSilent>>

prepareTelegramInbound ==
  /\ ibHand.pc = "routing" /\ Kind \notin {"checkout", "paid", "tap", "guest"}
  /\ ibHand' \in {Idle} \cup (IF Kind = "empty" THEN {} ELSE {[ibHand EXCEPT !.pc = "admitted"]})
  /\ Frame /\ UNCHANGED <<ibWaiting, ibTurns, ibSilent>>

\* What reading a message's file can put into its turn: TRUE for something, and
\* FALSE for nothing.  A voice message that yields no words and a video that
\* cannot be read leave a notice, and so does a document whose text cannot be
\* extracted, is too large or is of no known kind; a document or photo that cannot
\* be downloaded, or an image document without an image's signature, leaves nothing.
readVoiceIntoTurn == {TRUE}
readVideoIntoTurn == {TRUE}
DownloadFile == {TRUE, FALSE}
readExtractedDocument == {TRUE}
readImageDocument == {TRUE, FALSE}
readDocument == UNION {IF got THEN readExtractedDocument \cup readImageDocument ELSE {FALSE} : got \in DownloadFile}
readPhoto == DownloadFile
Readings == CASE Kind = "voice" -> readVoiceIntoTurn
              [] Kind = "video" -> readVideoIntoTurn
              [] Kind = "document" -> readDocument
              [] Kind = "photo" -> readPhoto
              [] OTHER -> {TRUE}

\* The file is read in the loop, then the message goes to the debouncer, or its
\* admission is rolled back.
ReadAndHandOff ==
  /\ ibHand.pc = "admitted" /\ ibHand' = Idle
  /\ \E some \in Readings :
       IF some THEN ibWaiting' = ibWaiting \cup {ibHand.id} /\ UNCHANGED ibSilent
               ELSE ibSilent' = ibSilent \cup {ibHand.id} /\ UNCHANGED ibWaiting
  /\ Frame /\ UNCHANGED ibTurns

\* The debouncer's timer fires: what it held becomes one turn under the drain
\* guard, and a turn ends.
begin == /\ ibProc.up # "down" /\ ibWaiting # {}
         /\ ibTurns' = ibTurns \cup ibWaiting /\ ibWaiting' = {}
         /\ Frame /\ UNCHANGED <<ibHand, ibSilent>>
TurnEnds == /\ ibProc.up # "down" /\ \E i \in ibTurns : ibTurns' = ibTurns \ {i}
            /\ Frame /\ UNCHANGED <<ibHand, ibWaiting, ibSilent>>
-----------------------------------------------------------------------------
\* Shutdown.  The root context is cancelled; Run notices between two updates,
\* waits for the running turns or the timeout, and returns.
Cancel == /\ ibProc.up = "up" /\ ~ibProc.stop /\ ibProc.restarts < MaxRestarts
          /\ ibProc' = [ibProc EXCEPT !.stop = TRUE]
          /\ UNCHANGED <<ibArrived, ibAcked, ibDesired, ibReg, ibPipes, ibShared, ibHand, ibWaiting, ibTurns, ibCalls, ibSilent, ibLost>>

StopTakingTurns ==
  /\ ibProc.up = "up" /\ ibProc.stop /\ ibHand = Idle
  /\ ibProc' = [ibProc EXCEPT !.up = "draining"]
  /\ UNCHANGED <<ibArrived, ibAcked, ibDesired, ibReg, ibPipes, ibShared, ibHand, ibWaiting, ibTurns, ibCalls, ibSilent, ibLost>>

\* wait: every turn ended, or the timeout passed.
Drained(timeout) == ibTurns = {} \/ timeout

Exit(timeout) ==
  /\ ibProc.up = "draining" /\ Drained(timeout)
  /\ ibProc' = [ibProc EXCEPT !.up = "down"]
  /\ ibLost' = ibLost \cup (InMemory \ {0})
  /\ ibPipes' = <<>> /\ ibShared' = <<>> /\ ibWaiting' = {} /\ ibTurns' = {} /\ ibReg' = NoBot
  /\ UNCHANGED <<ibArrived, ibAcked, ibDesired, ibHand, ibCalls, ibSilent>>

Restart == /\ ibProc.up = "down"
           /\ ibProc' = [up |-> "up", stop |-> FALSE, restarts |-> ibProc.restarts + 1]
           /\ UNCHANGED <<ibArrived, ibAcked, ibDesired, ibReg, ibPipes, ibShared, ibHand, ibWaiting, ibTurns, ibCalls, ibSilent, ibLost>>

InboundNext ==
  \/ Send \/ Rotate \/ unregisterBotLocked \/ registerBot
  \/ \E p \in 1..Len(ibPipes) : Poll(p) \/ Deliver(p) \/ runBotPoller(p) \/ PollerReturns(p)
  \/ Dispatch \/ handlePayment \/ handleGuestMessage \/ prepareTelegramInbound \/ ReadAndHandOff
  \/ begin \/ TurnEnds
  \/ Cancel \/ StopTakingTurns \/ Exit(FALSE) \/ Exit(TRUE) \/ Restart

InboundSpec == InboundInit /\ [][InboundNext]_inboundVars
-----------------------------------------------------------------------------
\* An update Telegram will not deliver again was dispatched, is on its way, or
\* went with memory that a removed bot or a stopped process gave up: no step of
\* the pollers, the channels or the loop loses one by itself.
AckedIsAccounted ==
  \A i \in 1..(ibAcked - 1) : ibCalls[i] > 0 \/ i \in InMemory \cup ibLost
LossNeedsARemoval == ibLost # {} => (Len(ibPipes) > 1 \/ ibReg = NoBot \/ ibProc.stop \/ ibProc.restarts > 0)

\* An update is dispatched twice only after the bot was registered again, in this
\* process or the next: one poller never repeats one.
RepeatNeedsANewPoller ==
  (\E i \in Ids : ibCalls[i] > 1) => Len(ibPipes) > 1 \/ ibProc.restarts > 0 \/ ibProc.up = "down"

\* One live poller per Telegram bot: two would steal each other's updates.
OnePollerPerBot == Cardinality({p \in 1..Len(ibPipes) : ibPipes[p].live}) <= 1

\* A voice or video message that was admitted reaches a turn ("A voice message
\* never leaves the turn empty"); only an unreadable document or photo ends in
\* silence.
AdmittedIsHeard == \A i \in ibSilent : ibArrived[i] \in {"document", "photo"}

\* The way in: no acknowledged update vanishes by itself or is repeated by itself,
\* one poller serves the bot, and an admitted message is heard.
InboundSound ==
  AckedIsAccounted /\ LossNeedsARemoval /\ RepeatNeedsANewPoller /\ OnePollerPerBot /\ AdmittedIsHeard

\* What Run's comment says of a shutdown: updates left in the channel are not
\* acknowledged to Telegram and come back after the restart.
LeftoversComeBack == ibProc.up = "draining" => \A i \in InShared : ibAcked <= i
=============================================================================
