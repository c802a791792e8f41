--------------------------- MODULE TelegramDelivery ---------------------------
(***************************************************************************)
(* Putting a text into a Telegram chat: splitting, rich and plain forms,   *)
(* retries and fallbacks, the one-request sends whose failure has to say   *)
(* whether the message can exist, the guest answer that is one inline      *)
(* message, and the bot's send allowance (src/internal/transport/telegram: *)
(* client.go, delivery.go, prepared.go, guest.go, limiter.go;              *)
(* src/internal/gateway: gateway_bots.go, gateway_direct.go, guest.go).    *)
(* One delivery is followed request by request: Telegram may take it,      *)
(* refuse it, or take it and lose the answer.                              *)
(***************************************************************************)
EXTENDS Integers, Sequences, FiniteSets, Tally

CONSTANTS
  DeliveryTexts, \* texts: sequences over {"c", "n"}, a character or a line break
  PlainCap,      \* maxTelegramMessageLength, in characters
  RichCap,       \* maxTelegramRichChunkLength
  Attempts,      \* finalDeliveryAttempts
  MaxLost,       \* bound: requests that act although their answer is lost
  SendBurst,     \* sendBurst of the bot's allowance
  BulkReserve    \* bulkReserve

ASSUME DeliveryConstants ==
  /\ PlainCap \in Nat \ {0} /\ RichCap \in Nat /\ PlainCap <= RichCap
  /\ Attempts \in Nat \ {0} /\ MaxLost \in Nat
  /\ BulkReserve \in Nat /\ SendBurst \in Nat /\ BulkReserve < SendBurst
  /\ DeliveryTexts \subseteq Seq({"c", "n"})

VARIABLES
  tgOp,      \* the delivery under way, its text and whether it needs rich rendering
  tgJobs,    \* the requests still to make, each with what follows its failure
  tgTry,     \* requests made for the first job, is it now literal text, did the last chain succeed?
  tgChat,    \* the messages of the chat, oldest first
  tgResult,  \* what the caller was told: "", "ok", "err", "notsent" or "unknown"
  tgLost,    \* answers lost so far
  tgGuest,   \* the guest sink: [pc, shown, buf, delivered, media, staged]
  tgBucket   \* the allowance: [tokens, pausedUntil > now?, talked: has a conversation send drawn on it since it was whole?]

deliveryVars == <<tgOp, tgJobs, tgTry, tgChat, tgResult, tgLost, tgGuest, tgBucket>>
-----------------------------------------------------------------------------
\* splitMessage: pieces of at most cap characters, cut after a blank line, else
\* after a line break, else at the limit; a break in the first quarter is no cut.
CutAt(t, from, cap) ==
  LET breaks == {i \in (cap \div 4 + 1)..cap : t[from + i] = "n"}
      blanks == {i \in breaks : i >= 2 /\ t[from + i - 1] = "n"}
      Latest(S) == CHOOSE i \in S : \A j \in S : j <= i
  IN  IF blanks # {} THEN Latest(blanks) ELSE IF breaks # {} THEN Latest(breaks) ELSE cap

Consumed(t, from, hi, cap) == IF hi - from <= cap THEN hi ELSE from + CutAt(t, from, cap)

splitMessage(t, lo, hi, cap) ==
  LET end[n \in 0..(hi - lo + 1)] == IF n = 0 THEN lo - 1 ELSE Consumed(t, end[n - 1], hi, cap)
      rounds == CHOOSE n \in 0..(hi - lo + 1) : end[n] = hi /\ \A m \in 0..(n - 1) : end[m] # hi
  IN  [i \in 1..rounds |-> <<end[i - 1] + 1, end[i]>>]

Whole == <<1, Len(tgOp.text)>>
Chunks == splitMessage(tgOp.text, 1, Len(tgOp.text), RichCap)
Short == ~tgOp.rich /\ Len(tgOp.text) <= PlainCap

\* A request: what it does with which piece, inside which chunk, under
\* retryTelegram or once, and what follows when it fails.
Job(do, piece, chunk, retry, fail) == [do |-> do, piece |-> piece, chunk |-> chunk, retry |-> retry, fail |-> fail]
PlainParts(chunk, retry, fail) ==
  LET ps == splitMessage(tgOp.text, chunk[1], chunk[2], PlainCap)
  IN  [i \in 1..Len(ps) |-> Job("sendPlain", ps[i], chunk, retry, fail)]

SendLong == IF Len(tgOp.text) <= PlainCap THEN <<Job("sendPlain", Whole, Whole, FALSE, "err")>>
                                          ELSE PlainParts(Whole, FALSE, "err")

\* finalizeLegacyPreview: the preview becomes the first part, the rest follows.
finalizeLegacyPreview(chunk, fail) ==
  LET ps == PlainParts(chunk, TRUE, fail)
  IN  [i \in 1..Len(ps) |-> IF i = 1 THEN [ps[1] EXCEPT !.do = "editPlain"] ELSE ps[i]]

sendRichWithFallback(chunk) == <<Job("sendRich", chunk, chunk, TRUE, "plain")>>

RichSends(from) == [i \in 1..(Len(Chunks) - from + 1) |-> sendRichWithFallback(Chunks[from + i - 1])[1]]

SendRichLong == IF Short THEN SendLong ELSE RichSends(1)

FinalizeResponse ==
  IF Short THEN IF tgOp.preview THEN finalizeLegacyPreview(Whole, "err") ELSE SendLong
  ELSE IF tgOp.preview /\ Chunks # <<>>
         THEN <<Job("editRich", Chunks[1], Chunks[1], TRUE, "legacy")>> \o RichSends(2)
         ELSE RichSends(1)

\* sendLongOnce: one rich message, or the parts.
sendLongOnce == IF Len(tgOp.text) <= RichCap THEN <<Job("sendRich", Whole, Whole, FALSE, "longonce")>>
                                             ELSE PlainParts(Whole, FALSE, "part")
OnceForm ==
  IF Len(tgOp.text) > PlainCap THEN sendLongOnce
  ELSE <<Job(IF tgOp.rich THEN "sendRich" ELSE "sendPlain", Whole, Whole, FALSE, "part")>>

\* SendToUserOnce: with the report button when there is one, else its form.
SendToUserOnce == IF tgOp.preview THEN <<Job("sendKeyboard", Whole, Whole, FALSE, "kb")>> ELSE OnceForm

\* SendPrepared is exactly one request, and SendDirect is one SendPrepared.
SendPrepared == Job("sendPrepared", Whole, Whole, FALSE, "direct")
SendDirect == << SendPrepared >>

\* sendFile, under SendPhoto, SendDocument and SendVoice: one upload; a body
\* that names no message is still a delivered file.
sendFile == <<Job("sendFile", Whole, Whole, FALSE, "err")>>

\* A guest answer is an edit of the one inline message.  FinalizeInlineResponse:
\* plain when it fits, else rich, and a refused rich form falls back to a cut text.
InlineEdit(text, media, fail) ==
  [do |-> "inline", piece |-> Whole, chunk |-> Whole, retry |-> TRUE, fail |-> fail,
   shown |-> [text |-> text, media |-> media]]
FinalizeInlineResponse(text) ==
  InlineEdit(text, 0, IF text = "noanswer" \/ (~tgOp.rich /\ Len(tgOp.text) <= PlainCap) THEN "err" ELSE "cut")

\* FinalizeInlineWithMedia: one file under a caption, or a rich message with the
\* files; refused, the first file with the text cut to a caption.
FinalizeInlineWithMedia(text, media) ==
  << IF media = 0 THEN FinalizeInlineResponse(text)
     ELSE InlineEdit(text, media, IF media = 1 /\ Len(tgOp.text) <= PlainCap THEN "err" ELSE "cut") >>
-----------------------------------------------------------------------------
Preview == <<0, 0>>
Fresh(won) == [made |-> 0, literal |-> FALSE, won |-> won]
FullBucket == [tokens |-> SendBurst, paused |-> FALSE, talked |-> FALSE]
GuestIdle == [pc |-> "", shown |-> [text |-> "", media |-> 0], buf |-> "", delivered |-> FALSE, media |-> 0, staged |-> 0]

DeliveryInit ==
  /\ tgOp \in [kind : {"finalize", "richlong", "once", "direct", "file", "guest"}, text : DeliveryTexts,
               rich : BOOLEAN, preview : BOOLEAN]
  /\ tgOp.text = <<>> => tgOp.kind \in {"finalize", "richlong"} /\ ~tgOp.rich
  /\ tgOp.kind \in {"guest", "file"} => ~tgOp.preview
  /\ \/ tgOp.kind = "finalize" /\ tgJobs = FinalizeResponse
     \/ tgOp.kind = "richlong" /\ tgJobs = SendRichLong
     \/ tgOp.kind = "once" /\ tgJobs = SendToUserOnce
     \/ tgOp.kind = "direct" /\ tgJobs = SendDirect
     \/ tgOp.kind = "file" /\ tgJobs = sendFile
     \/ tgOp.kind = "guest" /\ tgJobs = <<>>
  /\ tgTry = Fresh(FALSE)
  /\ tgChat = IF tgOp.kind = "finalize" /\ tgOp.preview THEN << Preview >> ELSE <<>>
  /\ tgResult = (IF tgJobs = <<>> /\ tgOp.kind # "guest" THEN "ok" ELSE "") /\ tgLost = 0
  /\ tgGuest = [GuestIdle EXCEPT !.pc = IF tgOp.kind = "guest" THEN "summons" ELSE ""]
  /\ tgBucket = FullBucket
-----------------------------------------------------------------------------
\* The allowance.  take: a conversation send needs one token, a bulk send one
\* above the reserve and no pause; pause holds bulk sends only.
Refilled == [tgBucket EXCEPT !.tokens = IF @ < SendBurst THEN @ + 1 ELSE @,
                             !.talked = @ /\ tgBucket.tokens + 1 < SendBurst]
Taken(bulk) == [tgBucket EXCEPT !.tokens = @ - 1, !.talked = @ \/ ~bulk]
MayTakeAlike(bulk) == tgBucket.tokens >= 1        \* mutant: a mailing spends the reserve
MayTake(bulk) ==
  IF bulk THEN ~tgBucket.paused /\ tgBucket.tokens >= BulkReserve + 1 ELSE tgBucket.tokens >= 1

Refill == /\ tgBucket.tokens < SendBurst \/ tgBucket.paused
          /\ \E p \in {FALSE, tgBucket.paused} : tgBucket' = [Refilled EXCEPT !.paused = p]
          /\ UNCHANGED <<tgOp, tgJobs, tgTry, tgChat, tgResult, tgLost, tgGuest>>

\* A mailing of the same bot takes from the same allowance.
BulkSend == /\ MayTake(TRUE) /\ tgBucket' = Taken(TRUE)
            /\ UNCHANGED <<tgOp, tgJobs, tgTry, tgChat, tgResult, tgLost, tgGuest>>
-----------------------------------------------------------------------------
\* What a request leaves in the chat.
Edits == {"editRich", "editPlain"}
Acted(job) ==
  \/ job.do = "inline" /\ tgChat' = tgChat /\ tgGuest' = [tgGuest EXCEPT !.shown = job.shown]
  \/ job.do \in Edits /\ tgChat' = [tgChat EXCEPT ![1] = job.piece] /\ UNCHANGED tgGuest
  \/ job.do \notin Edits \cup {"inline"} /\ tgChat' = Append(tgChat, job.piece) /\ UNCHANGED tgGuest
NotActed == UNCHANGED <<tgChat, tgGuest>>

\* The answers Telegram or the network gives to a request.
\*   ok: done; noid: done, the answer names no message; lost: done, no answer;
\*   dropped: written, not done; unsent: never left; parse: the markup was
\*   refused; bad: refused; flood: 429; down: a 5xx or 408, done or not;
\*   same: an edit to what is already there.
Sound(job) == job.piece[1] <= job.piece[2]
Answers(job) ==
  (IF Sound(job) THEN {"ok", "lost", "down"} ELSE {}) \cup {"dropped", "unsent", "bad", "flood"}
    \cup (IF job.do \in {"sendPlain", "editPlain", "inline"} /\ ~tgTry.literal THEN {"parse"} ELSE {})
    \cup (IF job.do \in {"sendRich", "sendPlain", "sendKeyboard", "sendFile"} /\ Sound(job) THEN {"noid"} ELSE {})
    \cup (IF \/ job.do \in Edits /\ tgChat[1] = job.piece
             \/ job.do = "inline" /\ tgGuest.shown = job.shown THEN {"same"} ELSE {})

Retryable == {"lost", "dropped", "unsent", "flood", "down"}   \* isRetryableTelegramError
Rejected == {"bad", "parse"}                                  \* explicitTelegramRejection, no 429

Finished(result) == tgJobs' = <<>> /\ tgResult' = result /\ tgTry' = Fresh(FALSE)
Continue(jobs) == /\ tgJobs' = jobs /\ tgTry' = Fresh(jobs = <<>>)
                  /\ tgResult' = IF jobs = <<>> /\ tgOp.kind # "guest" THEN "ok" ELSE tgResult

\* The jobs of later chunks: what is left when a chunk falls back.
Later(job) == LET from == {i \in 1..Len(tgJobs) : tgJobs[i].chunk # job.chunk}
              IN  IF from = {} THEN <<>>
                  ELSE SubSeq(tgJobs, CHOOSE i \in from : \A j \in from : i <= j, Len(tgJobs))

\* What the error says of the message: explicitTelegramRejection for a
\* notification, classifyDirectFailure for a direct message.
NotificationOutcome(answer) == IF answer \in Rejected \cup {"flood"} THEN "notsent" ELSE "unknown"
classifyDirectFailure(answer) == IF answer \in Rejected \cup {"flood", "unsent"} THEN "notsent" ELSE "unknown"

Failed(job, answer) ==
  \/ job.fail = "legacy" /\ Continue(finalizeLegacyPreview(job.chunk, "fresh") \o Later(job))
  \/ job.fail = "fresh" /\ Continue(sendRichWithFallback(job.chunk) \o Later(job))
  \/ job.fail = "plain" /\ Continue(PlainParts(job.chunk, TRUE, "err") \o Later(job))
  \/ job.fail = "kb" /\ IF answer \in Rejected THEN Continue(OnceForm) ELSE Finished(NotificationOutcome(answer))
  \/ /\ job.fail = "longonce"
     /\ IF answer \in Rejected THEN Continue(PlainParts(Whole, FALSE, "part")) ELSE Finished(NotificationOutcome(answer))
  \/ job.fail = "part" /\ Finished(IF job.piece[1] = 1 THEN NotificationOutcome(answer) ELSE "unknown")
  \/ job.fail = "direct" /\ Finished(classifyDirectFailure(answer))
  \/ /\ job.fail = "cut"
     /\ Continue(<<[job EXCEPT !.fail = "err",
                               !.shown = [text |-> "cut", media |-> IF job.shown.media = 0 THEN 0 ELSE 1]]>>)
  \/ job.fail = "err" /\ Finished(IF tgOp.kind = "guest" THEN "" ELSE "err")

\* What an answer means for the request: its text goes again as it is, the next
\* one is due, it may exist without a name, or it is made again.
Literal(job, answer) == answer = "parse" /\ job.do # "sendKeyboard"
Through(job, answer) == answer \in {"ok", "same"} \/ (answer = "noid" /\ job.do # "sendRich" /\ tgOp.kind # "once")
Nameless(job, answer) == answer = "noid" /\ tgOp.kind = "once"
Again(job, answer) == answer \in Retryable /\ job.retry /\ tgTry.made + 1 < Attempts

\* retryTelegram around one request.
Answered(job, answer) ==
  \/ Literal(job, answer) /\ tgTry' = [tgTry EXCEPT !.literal = TRUE] /\ UNCHANGED <<tgJobs, tgResult>>
  \/ Through(job, answer) /\ Continue(Tail(tgJobs))
  \/ /\ Nameless(job, answer)
     /\ IF Len(tgJobs) = 1 /\ job.piece[1] = 1 THEN Finished("unknown") ELSE Continue(Tail(tgJobs))
  \/ /\ Again(job, answer)
     /\ tgTry' = [Fresh(FALSE) EXCEPT !.made = tgTry.made + 1] /\ UNCHANGED <<tgJobs, tgResult>>
  \/ /\ ~(Literal(job, answer) \/ Through(job, answer) \/ Nameless(job, answer) \/ Again(job, answer))
     /\ Failed(job, answer)

\* A flood answer pauses the bot's mailings, but an upload does not read it.
Pauses(job, answer) == answer = "flood" /\ job.do # "sendFile"

\* resolveUserBot, resolveNotificationBot, a bot that is not running, a keyboard
\* that cannot be built: the send ends before its first request.
Unrouted ==
  /\ tgOp.kind \in {"once", "direct", "richlong", "file"} /\ tgJobs # <<>> /\ tgTry = Fresh(FALSE)
  /\ tgChat = <<>> /\ tgLost = 0 /\ tgResult = "" /\ tgBucket = FullBucket
  /\ Finished(IF tgOp.kind \in {"once", "direct"} THEN "notsent" ELSE "err")
  /\ UNCHANGED <<tgOp, tgChat, tgLost, tgGuest, tgBucket>>

\* postJSON and its kin: a paced request.
Request ==
  /\ tgJobs # <<>> /\ tgResult = "" /\ MayTake(FALSE)
  /\ LET job == Head(tgJobs) IN \E answer \in Answers(job) :
       /\ Answered(job, answer)
       /\ \/ answer \in {"ok", "noid"} /\ Acted(job) /\ UNCHANGED tgLost
          \/ answer \in {"lost", "down"} /\ tgLost < MaxLost /\ Acted(job) /\ tgLost' = tgLost + 1
          \/ answer \notin {"ok", "noid", "lost"} /\ NotActed /\ UNCHANGED tgLost
       /\ tgBucket' = [Taken(FALSE) EXCEPT !.paused = @ \/ Pauses(job, answer)]
  /\ UNCHANGED tgOp
-----------------------------------------------------------------------------
\* The guest sink.
GuestFrame == UNCHANGED <<tgOp, tgTry, tgChat, tgLost, tgBucket>>

\* admitGuest: a caller the bot does not know or will not serve is answered in
\* one message or not at all, and gets no turn.
admitGuest ==
  /\ tgGuest.pc = "summons"
  /\ \/ tgGuest' = [tgGuest EXCEPT !.pc = "open"] /\ UNCHANGED tgResult
     \/ \E s \in {"", "refusal"} : tgGuest' = [tgGuest EXCEPT !.pc = "end", !.shown.text = s] /\ tgResult' = "err"
  /\ GuestFrame /\ UNCHANGED tgJobs

\* open answers the summons with the placeholder.
open ==
  /\ tgGuest.pc = "open"
  /\ \/ tgGuest' = [tgGuest EXCEPT !.pc = "turn", !.shown.text = "placeholder"] /\ UNCHANGED tgResult
     \/ \* unanswered, or answered with the identifier lost
        \E s \in {"", "placeholder"} : tgGuest' = [tgGuest EXCEPT !.pc = "end", !.shown.text = s] /\ tgResult' = "err"
  /\ GuestFrame /\ UNCHANGED tgJobs

\* SendTextDelta: one edit at most per interval, its failure is not reported.
SendTextDelta ==
  /\ tgGuest.pc = "turn" /\ tgJobs = <<>>
  /\ \E s \in {tgGuest.shown.text} \cup (IF tgGuest.delivered THEN {} ELSE {"partial"}) :
       tgGuest' = [tgGuest EXCEPT !.buf = "partial", !.shown.text = s]
  /\ GuestFrame /\ UNCHANGED <<tgJobs, tgResult>>

\* UploadForInline: the upload leaves a copy in the private chat, with or without
\* a file id to show for it.
UploadForInline == {[tgGuest EXCEPT !.media = @ + 1, !.staged = @ + 1], [tgGuest EXCEPT !.staged = @ + 1]}

SendAttachment ==
  /\ tgGuest.pc = "turn" /\ tgJobs = <<>> /\ tgGuest.staged < 2 /\ ~tgGuest.delivered
  /\ tgGuest' \in UploadForInline
  /\ GuestFrame /\ UNCHANGED <<tgJobs, tgResult>>

\* SendFinalText (and SendText), and what its finalizing left.
SendFinalText ==
  /\ tgGuest.pc = "turn" /\ tgJobs = <<>>
  /\ tgJobs' = FinalizeInlineWithMedia("final", tgGuest.media)
  /\ tgGuest' = [tgGuest EXCEPT !.pc = "final"]
  /\ GuestFrame /\ UNCHANGED tgResult

FinalWritten ==
  /\ tgGuest.pc = "final" /\ tgJobs = <<>>
  /\ tgGuest' = [tgGuest EXCEPT !.pc = "turn", !.delivered = @ \/ tgTry.won]
  /\ GuestFrame /\ UNCHANGED <<tgJobs, tgResult>>

\* settle: a turn that delivered nothing keeps what streamed, or says so; the
\* copies made for file ids are deleted, each best effort.
settle ==
  /\ tgGuest.pc = "turn" /\ tgJobs = <<>>
  /\ tgJobs' = IF tgGuest.delivered THEN <<>>
               ELSE FinalizeInlineWithMedia(IF tgGuest.buf = "" /\ tgGuest.media = 0 THEN "noanswer" ELSE "final", tgGuest.media)
  /\ tgGuest' = [tgGuest EXCEPT !.pc = "settled"]
  /\ GuestFrame /\ UNCHANGED tgResult

CleanUp ==
  /\ tgGuest.pc = "settled" /\ tgJobs = <<>>
  /\ \E kept \in 0..tgGuest.staged : tgGuest' = [tgGuest EXCEPT !.pc = "end", !.staged = kept]
  /\ tgResult' = "ok"
  /\ GuestFrame /\ UNCHANGED tgJobs

DeliveryNext ==
  \/ Unrouted \/ Request \/ Refill \/ BulkSend
  \/ admitGuest \/ open \/ SendTextDelta \/ SendAttachment \/ SendFinalText \/ FinalWritten \/ settle \/ CleanUp

DeliverySpec == DeliveryInit /\ [][DeliveryNext]_deliveryVars
-----------------------------------------------------------------------------
\* splitMessage loses nothing, repeats nothing and keeps every piece within the
\* limit, for both limits.
SplitIsExact ==
  \A cap \in {PlainCap, RichCap} :
    LET ps == splitMessage(tgOp.text, 1, Len(tgOp.text), cap) IN
    /\ \A i \in 1..Len(ps) : ps[i][1] <= ps[i][2] /\ ps[i][2] - ps[i][1] < cap
    /\ \A i \in 1..Len(ps) : ps[i][1] = IF i = 1 THEN 1 ELSE ps[i - 1][2] + 1
    /\ IF ps = <<>> THEN tgOp.text = <<>> ELSE ps[Len(ps)][2] = Len(tgOp.text)

\* The characters a reader finds, in the order of the chat.
Pieces == KeepAt(tgChat, {i \in 1..Len(tgChat) : tgChat[i] # Preview})
Readable(k) == \E i \in 1..Len(Pieces) : Pieces[i][1] <= k /\ k <= Pieces[i][2]
InOrder == \A k \in 1..(Len(tgOp.text) - 1) :
             \E i, j \in 1..Len(Pieces) : /\ i <= j /\ Pieces[i][1] <= k /\ k <= Pieces[i][2]
                                          /\ Pieces[j][1] <= k + 1 /\ k + 1 <= Pieces[j][2]

\* A final delivery that reports success has the whole reply in the chat, in
\* order, whatever was refused, retried or fell back on the way
\* ("this method must still deliver the complete reply").
DeliveredWhole ==
  (tgResult = "ok" /\ tgOp.kind \in {"finalize", "richlong"}) =>
    InOrder /\ \A k \in 1..Len(tgOp.text) : Readable(k)

\* A send that reports the message was not sent left nothing in the chat, so
\* that its caller may send again; one that reports success is there once.
NotSentIsAbsent ==
  tgOp.kind \in {"once", "direct", "file"} =>
    /\ tgResult = "notsent" => tgChat = <<>>
    /\ tgResult = "ok" => \A k \in 1..Len(tgOp.text) :
                            Cardinality({i \in 1..Len(tgChat) : tgChat[i][1] <= k /\ k <= tgChat[i][2]}) = 1

\* A mailing never takes the part of the allowance kept for conversation.
BulkSpares == tgBucket.tokens < BulkReserve => tgBucket.talked

\* A guest answer that was delivered is not replaced by a streamed draft or a
\* notice, and a turn that could still write never leaves the placeholder.
GuestAnswerKept ==
  /\ tgGuest.delivered => tgGuest.shown.text \in {"final", "cut"}
  /\ (tgGuest.pc = "end" /\ tgResult = "ok" /\ tgTry.won) => tgGuest.shown.text # "placeholder"

\* The delivery guarantees together.
DeliverySound == SplitIsExact /\ DeliveredWhole /\ NotSentIsAbsent /\ BulkSpares /\ GuestAnswerKept
=============================================================================
