----------------------------- MODULE VoiceTurns -----------------------------
(* One voice connection (internal/transport/ws/server.go, turn_manager.go):   *)
(* the reader, the actor that owns the active and the pending turn, the turn  *)
(* goroutines and the classification of what is said over an answer.          *)
EXTENDS Naturals, Sequences, FiniteSets

CONSTANTS
    MaxFrames,     \* frames the client sends
    FrameCap,      \* capacity of the inbound channel
    ReportCap      \* capacity of the channels that report to the actor

ASSUME VoiceConstants == MaxFrames \in Nat /\ FrameCap \in Nat \ {0} /\ ReportCap \in Nat \ {0}

VARIABLES
    vtMode,      \* "barge" or "legacy": whether barge-in is enabled
    vtConn,      \* "new", "refused", "open", "over"
    vtReading,   \* the reader has not seen the end of the connection
    vtSent,      \* frames sent
    vtFrames,    \* the inbound channel
    vtActive,    \* the turn the actor holds as active, 0 for none
    vtPending,   \* the utterance queued, 0 for none
    vtTurns,     \* turns ever started: utterance and state of the goroutine
    vtHeard,     \* classifications in progress
    vtVerdicts,  \* the channel of finished classifications
    vtDone       \* the channel of finished turns

voiceVars == <<vtMode, vtConn, vtReading, vtSent, vtFrames, vtActive, vtPending, vtTurns, vtHeard,
               vtVerdicts, vtDone>>

FrameTypes == {"speech_start", "cancel", "text", "audio", "unknown"}
Alive(h) == vtTurns[h].state \in {"running", "cancelled"}

-----------------------------------------------------------------------------
(* The connection                                                             *)

\* The shared token first, then the device token, then the legacy rule: a
\* server with neither is open.
Authenticate(shared, devices, token) ==
    IF shared /\ token = "shared" THEN "owner"
    ELSE IF devices THEN (IF token = "device" THEN "device" ELSE "refused")
    ELSE IF shared THEN "refused" ELSE "owner"

HandleWS ==
    /\ vtConn = "new"
    /\ \E shared, devices \in BOOLEAN, token \in {"none", "shared", "device", "other"} :
          vtConn' = IF Authenticate(shared, devices, token) = "refused" THEN "refused" ELSE "open"
    /\ UNCHANGED <<vtMode, vtReading, vtSent, vtFrames, vtActive, vtPending, vtTurns, vtHeard,
                   vtVerdicts, vtDone>>

\* The reader keeps draining while a turn is in flight; without barge-in a
\* frame is read only when the turn before it has ended.
ReadFrame ==
    /\ vtConn = "open" /\ vtReading /\ vtSent < MaxFrames
    /\ IF vtMode = "barge" THEN Len(vtFrames) < FrameCap
       ELSE vtFrames = <<>> /\ \A h \in DOMAIN vtTurns : ~ Alive(h)
    /\ \E type \in FrameTypes : vtFrames' = Append(vtFrames, [type |-> type, utt |-> vtSent + 1])
    /\ vtSent' = vtSent + 1
    /\ UNCHANGED <<vtMode, vtConn, vtReading, vtActive, vtPending, vtTurns, vtHeard, vtVerdicts, vtDone>>

ClientLeaves ==
    /\ vtConn = "open" /\ vtReading /\ vtReading' = FALSE
    /\ UNCHANGED <<vtMode, vtConn, vtSent, vtFrames, vtActive, vtPending, vtTurns, vtHeard,
                   vtVerdicts, vtDone>>

\* Without barge-in: text and audio are answered at once, one after another.
LegacyFrame ==
    /\ vtMode = "legacy" /\ vtConn = "open" /\ vtFrames # <<>>
    /\ vtFrames' = Tail(vtFrames)
    /\ IF Head(vtFrames).type \in {"text", "audio"}
       THEN vtTurns' = Append(vtTurns, [utt |-> Head(vtFrames).utt, state |-> "running"])
       ELSE UNCHANGED vtTurns
    /\ UNCHANGED <<vtMode, vtConn, vtReading, vtSent, vtActive, vtPending, vtHeard, vtVerdicts, vtDone>>

LegacyEnds ==
    /\ vtMode = "legacy" /\ vtConn = "open" /\ ~ vtReading /\ vtFrames = <<>>
    /\ \A h \in DOMAIN vtTurns : ~ Alive(h)
    /\ vtConn' = "over"
    /\ UNCHANGED <<vtMode, vtReading, vtSent, vtFrames, vtActive, vtPending, vtTurns, vtHeard,
                   vtVerdicts, vtDone>>

-----------------------------------------------------------------------------
(* The actor                                                                  *)

StartTurn(u) ==
    /\ vtTurns' = Append(vtTurns, [utt |-> u, state |-> "running"])
    /\ vtActive' = Len(vtTurns) + 1

CancelClears == /\ vtTurns' = [h \in DOMAIN vtTurns |->
                                 IF h = vtActive /\ vtTurns[h].state = "running"
                                 THEN [vtTurns[h] EXCEPT !.state = "cancelled"] ELSE vtTurns[h]]
                /\ vtActive' = 0              \* mutant: the slot is freed before the turn unwound

\* The slot stays taken until the turn has unwound and kept its partial answer.
CancelActive == /\ vtTurns' = [h \in DOMAIN vtTurns |->
                                 IF h = vtActive /\ vtTurns[h].state = "running"
                                 THEN [vtTurns[h] EXCEPT !.state = "cancelled"] ELSE vtTurns[h]]
                /\ UNCHANGED vtActive

\* One frame of the channel.
DispatchFrame ==
    LET f == Head(vtFrames) IN
    /\ vtMode = "barge" /\ vtConn = "open" /\ vtFrames # <<>>
    /\ vtFrames' = Tail(vtFrames)
    /\ CASE f.type = "cancel" /\ vtActive # 0 -> CancelActive /\ UNCHANGED vtHeard
         [] f.type \in {"text", "audio"} /\ vtActive = 0 -> StartTurn(f.utt) /\ UNCHANGED vtHeard
         [] f.type \in {"text", "audio"} /\ vtActive # 0 ->
              /\ vtHeard' = vtHeard \cup {[handle |-> vtActive, utt |-> f.utt, audio |-> f.type = "audio"]}
              /\ UNCHANGED <<vtTurns, vtActive>>
         [] OTHER -> UNCHANGED <<vtHeard, vtTurns, vtActive>>       \* a duck, or an error frame
    /\ UNCHANGED <<vtMode, vtConn, vtReading, vtSent, vtPending, vtVerdicts, vtDone>>

\* Transcription that fails, or hears nothing, reports nothing; a failed
\* classification is unclear.
ClassifyAsync(job) ==
    /\ vtHeard' = vtHeard \ {job}
    /\ \/ job.audio /\ UNCHANGED vtVerdicts
       \/ vtConn = "over" /\ UNCHANGED vtVerdicts
       \/ /\ vtConn = "open" /\ Len(vtVerdicts) < ReportCap
          /\ \E class \in {"interrupt", "backchannel"} :
                vtVerdicts' = Append(vtVerdicts, [handle |-> job.handle, utt |-> job.utt, class |-> class])
    /\ UNCHANGED <<vtMode, vtConn, vtReading, vtSent, vtFrames, vtActive, vtPending, vtTurns, vtDone>>

\* A verdict about a turn that ended opens a turn of its own, or is queued; an
\* interruption cancels and is queued; anything else changes nothing.
OnInterjection ==
    LET v == Head(vtVerdicts) IN
    /\ vtConn = "open" /\ vtVerdicts # <<>> /\ vtVerdicts' = Tail(vtVerdicts)
    /\ CASE vtActive # v.handle /\ vtActive = 0 -> StartTurn(v.utt) /\ UNCHANGED <<vtPending>>
         [] vtActive # v.handle /\ vtActive # 0 ->
              vtPending' = v.utt /\ UNCHANGED <<vtTurns, vtActive>>
         [] vtActive = v.handle /\ v.class = "interrupt" ->
              CancelActive /\ vtPending' = v.utt
         [] OTHER -> UNCHANGED <<vtPending, vtTurns, vtActive>>
    /\ UNCHANGED <<vtMode, vtConn, vtReading, vtSent, vtFrames, vtHeard, vtDone>>

\* The active slot is freed and what is queued starts.
OnTurnDone ==
    LET active == IF vtActive = Head(vtDone) THEN 0 ELSE vtActive IN
    /\ vtConn = "open" /\ vtDone # <<>> /\ vtDone' = Tail(vtDone)
    /\ IF active = 0 /\ vtPending # 0 THEN StartTurn(vtPending) /\ vtPending' = 0
       ELSE vtActive' = active /\ UNCHANGED <<vtPending, vtTurns>>
    /\ UNCHANGED <<vtMode, vtConn, vtReading, vtSent, vtFrames, vtHeard, vtVerdicts>>

LeavesTurn == UNCHANGED vtTurns      \* mutant: the loop returns without cancelling
StopsTurn == vtTurns' = [h \in DOMAIN vtTurns |-> IF h = vtActive /\ vtTurns[h].state = "running"
                                                  THEN [vtTurns[h] EXCEPT !.state = "cancelled"] ELSE vtTurns[h]]

\* The channel is closed and drained: the active turn is cancelled and the loop
\* returns; with it the connection's context ends.
RunReturns ==
    /\ vtMode = "barge" /\ vtConn = "open" /\ ~ vtReading /\ vtFrames = <<>>
    /\ StopsTurn /\ vtConn' = "over"
    /\ UNCHANGED <<vtMode, vtReading, vtSent, vtFrames, vtActive, vtPending, vtHeard, vtVerdicts, vtDone>>

\* The gateway's turn ends, with its answer or cancelled, and its goroutine
\* reports it, unless nobody listens any more.
TurnUnwinds(h) ==
    /\ Alive(h)
    /\ \/ vtMode = "barge" /\ vtConn = "open" /\ Len(vtDone) < ReportCap /\ vtDone' = Append(vtDone, h)
       \/ (vtMode = "legacy" \/ vtConn = "over") /\ UNCHANGED vtDone
    /\ vtTurns' = [vtTurns EXCEPT ![h].state = "ended"]
    /\ UNCHANGED <<vtMode, vtConn, vtReading, vtSent, vtFrames, vtActive, vtPending, vtHeard, vtVerdicts>>

VoiceInit ==
    /\ vtMode \in {"barge", "legacy"} /\ vtConn = "new" /\ vtReading = TRUE /\ vtSent = 0 /\ vtFrames = <<>>
    /\ vtActive = 0 /\ vtPending = 0 /\ vtTurns = <<>> /\ vtHeard = {} /\ vtVerdicts = <<>> /\ vtDone = <<>>

VoiceNext ==
    \/ HandleWS \/ ReadFrame \/ ClientLeaves \/ LegacyFrame \/ LegacyEnds
    \/ DispatchFrame \/ OnInterjection \/ OnTurnDone \/ RunReturns
    \/ \E job \in vtHeard : ClassifyAsync(job)
    \/ \E h \in DOMAIN vtTurns : TurnUnwinds(h)

VoiceSpec == VoiceInit /\ [][VoiceNext]_voiceVars

-----------------------------------------------------------------------------
(* Properties                                                                 *)

\* A turn starts only when the one before it has unwound: an interruption never
\* reads a session that still misses the interrupted reply.
SerialTurns == \A g, h \in DOMAIN vtTurns : Alive(g) /\ Alive(h) => g = h

\* A queued utterance has a turn, or the report of one, that will start it.
PendingWillStart ==
    vtPending # 0 /\ vtConn = "open" => vtActive # 0 /\ (Alive(vtActive) \/ vtActive \in {vtDone[i] : i \in DOMAIN vtDone})

\* No utterance opens two turns, whichever of the paths it took.
AnsweredOnce == \A g, h \in DOMAIN vtTurns : vtTurns[g].utt = vtTurns[h].utt => g = h

\* A connection that is over leaves no turn running to its end.
NothingLeftRunning == vtConn = "over" => \A h \in DOMAIN vtTurns : vtTurns[h].state # "running"

\* What the actor owes a voice connection.
VoiceSound == SerialTurns /\ PendingWillStart /\ AnsweredOnce /\ NothingLeftRunning
=============================================================================
