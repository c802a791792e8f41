---------------------------- MODULE TelegramDialog ----------------------------
(***************************************************************************)
(* What the gateway does with a Telegram text or button tap before it is a *)
(* conversation turn: the persistent keyboard, deep links, the signup and  *)
(* persona wizard, host commands and their open questions                  *)
(* (src/internal/gateway: gateway.go, bot_onboarding.go, menu.go,          *)
(* private_commands.go, deeplink_*.go).  One person writes to one bot from *)
(* a private chat and from a group.  The wizard row is kept by the host    *)
(* (BotOnboarding); caches and keyboard state are lost with the process.   *)
(* Gateway.Run handles one update at a time, so the steps of an update are *)
(* separate actions only because the process may stop between them.        *)
(***************************************************************************)
EXTENDS Integers

CONSTANTS
  MaxAccounts,   \* bound: accounts created for the person
  MaxStoreFaults,\* bound: failed calls of the host's store
  OfferAfter,    \* OnboardingFlow.OfferPersonaAfterTurns
  TagCap         \* OnboardingFlow.TagCap

ASSUME TagCapAssumption == TagCap \in Nat

TdChats == {"private", "group"}

\* Texts by what the dispatchers tell apart.  "start_src" carries a campaign,
\* "start_errand" names a host command, "prompt" is a prompt shortcut, "foreign"
\* a command addressed to another bot, "bad" a text no name can be, "key_..." a
\* key of the persistent keyboard, "composed" the answer to a keyboard question.
Starts == {"start", "start_src", "start_errand"}
Commands == Starts \cup {"login", "link", "skip", "persona", "host", "menu", "reset", "prompt"}
Keys == {"key_ask", "key_text", "key_node", "key_back", "key_close"}
TdTexts == Commands \cup Keys \cup {"foreign", "hello", "bad"}
Slashed(t) == t \in Commands \cup {"foreign"}

VARIABLES
  tdMode,     \* OnboardingFlow.Mode: "instant" or "wizard"
  tdRow,      \* the person's bot_onboarding_state row: [step, data]
  tdOwn,      \* the account the person owns (0: none) and the accounts created so far
  tdPersona,  \* its persona: named, voiced, how many traits
  tdLink,     \* the host's routing: chat -> account (0: unpaired)
  tdCache,    \* g.users: chat -> account of the cached UserState (0: none)
  tdBoard,    \* the keyboard of a chat: is one of its questions open?
  tdMsg,      \* the update being handled
  tdPc,       \* how far it got
  tdOut,      \* what became of the latest update
  tdGhost     \* [asked, offers, faults]: the chat whose question is open, offers sent, store faults

dialogVars == <<tdMode, tdRow, tdOwn, tdPersona, tdLink, tdCache, tdBoard, tdMsg, tdPc, tdOut, tdGhost>>

NoData == [name |-> FALSE, voice |-> FALSE, tags |-> 0, edit |-> FALSE, turns |-> 0, chat |-> ""]
NoRow == [step |-> "", data |-> NoData]
DefaultPersona == [name |-> TRUE, voice |-> TRUE, tags |-> 0]
WizardSteps == {"ask_name", "ask_voice", "ask_traits", "ask_description", "confirm"}
NoPersona == [name |-> FALSE, voice |-> FALSE, tags |-> 0]

DialogInit ==
  /\ tdMode \in {"instant", "wizard"}
  /\ tdRow = NoRow
  /\ tdOwn = [account |-> 0, created |-> 0]
  /\ tdPersona = NoPersona
  /\ tdLink = [c \in TdChats |-> 0] /\ tdCache = [c \in TdChats |-> 0]
  /\ tdBoard = [c \in TdChats |-> FALSE]
  /\ tdPc = "idle" /\ tdOut = "none"
  /\ tdMsg = [chat |-> "private", text |-> "hello"]
  /\ tdGhost = [asked |-> "", offers |-> 0, faults |-> 0]
-----------------------------------------------------------------------------
\* AdvanceStep and ClearState of the host's store: they commit or they fail.
Stored(row, ghost) == tdRow' = row /\ tdGhost' = ghost
StoreFails == /\ tdGhost.faults < MaxStoreFaults
              /\ tdRow' = tdRow /\ tdGhost' = [tdGhost EXCEPT !.faults = @ + 1]
Stepped(step, data) == Stored([step |-> step, data |-> data], tdGhost)
Cleared == Stored(NoRow, tdGhost)
RowKept == UNCHANGED <<tdRow, tdGhost>>

NoMsg == [chat |-> "private", text |-> "hello"]
Becomes(pc, text) == tdPc' = pc /\ tdMsg' = [tdMsg EXCEPT !.text = text] /\ UNCHANGED tdOut
Goto(pc) == Becomes(pc, tdMsg.text)
RunHost(why) == tdPc' = "host" /\ tdOut' = why /\ UNCHANGED tdMsg
Done(out) == tdPc' = "idle" /\ tdOut' = out /\ tdMsg' = NoMsg
AccountKept == UNCHANGED <<tdOwn, tdPersona, tdLink>>

awaitAnywhere(c) == tdRow.step = "await"           \* mutant: any chat may answer

\* awaitAskedIn: an open question belongs to the chat it was asked in.
awaitAskedIn(c) == tdRow.step = "await" /\ tdRow.data.chat = c

\* A message arrives.
Receive(c, t) ==
  /\ tdPc = "idle"
  /\ tdMsg' = [chat |-> c, text |-> t] /\ tdPc' = "keys" /\ tdOut' = "none"
  /\ AccountKept /\ RowKept /\ UNCHANGED <<tdMode, tdCache, tdBoard>>

\* endAwaitedReply, first in handleUpdate: pressing a key or typing a command is
\* not answering the question, so the question ends.
endAwaitedReply ==
  /\ tdPc = "keys"
  /\ IF tdMsg.text \in Commands \cup Keys /\ awaitAskedIn(tdMsg.chat) THEN Cleared \/ StoreFails ELSE RowKept
  /\ Goto("tap")
  /\ AccountKept /\ UNCHANGED <<tdMode, tdCache, tdBoard>>

\* A key or a command handled this far is not the person's answer any more.
AnswerEnds == tdGhost' = [tdGhost EXCEPT !.asked =
                            IF @ = tdMsg.chat /\ tdMsg.text \in Commands \cup Keys THEN "" ELSE @]

\* showKeyboard: the screen is recorded once Telegram has it, and an open
\* keyboard question ends with it.
Shown(board, c) == [board EXCEPT ![c] = FALSE]
showKeyboard(c) == tdBoard' \in {tdBoard, Shown(tdBoard, c)}

\* handleKeyboardTap: close, a question to ask, words to say, or another screen
\* (Back goes to the parent of the screen on show).
handleKeyboardTap ==
  LET c == tdMsg.chat IN
  /\ tdPc = "tap" /\ tdMsg.text \in Keys /\ AnswerEnds
  /\ CASE tdMsg.text = "key_close" -> tdBoard' = Shown(tdBoard, c) /\ Done("handled")
       [] tdMsg.text = "key_ask" -> /\ \E sent \in BOOLEAN : tdBoard' = [tdBoard EXCEPT ![c] = sent]
                                    /\ Done("handled")
       [] tdMsg.text = "key_text" -> /\ tdBoard' = [tdBoard EXCEPT ![c] = FALSE]
                                     /\ Becomes("front", "hello")
       [] tdMsg.text = "key_node" -> showKeyboard(c) /\ Done("handled")
       [] OTHER -> showKeyboard(c) /\ Done("handled")
  /\ AccountKept /\ UNCHANGED <<tdMode, tdRow, tdCache>>

\* answerKeyboardAsk, then expandCommandPrompt: an open keyboard question takes
\* the next plain text unless it is too old; a shortcut becomes its question.
answerKeyboardAsk ==
  LET c == tdMsg.chat IN
  /\ tdPc = "tap" /\ tdMsg.text \notin Keys /\ AnswerEnds
  /\ tdBoard' = [tdBoard EXCEPT ![c] = FALSE]
  /\ \/ tdBoard[c] /\ ~Slashed(tdMsg.text) /\ Becomes("front", "composed")
     \/ Becomes("front", IF tdMsg.text = "prompt" THEN "hello" ELSE tdMsg.text)
  /\ AccountKept /\ UNCHANGED <<tdMode, tdRow, tdCache>>

\* shouldProcessGroupMessage: a group text that names nobody is not ours.
shouldProcessGroupMessage ==
  /\ tdPc = "front" /\ tdMsg.chat = "group" /\ ~Slashed(tdMsg.text)
  /\ Done("handled")
  /\ AccountKept /\ UNCHANGED <<tdMode, tdRow, tdCache, tdBoard, tdGhost>>

\* maybeRunDeeplinkLogin answers and changes nothing here.
maybeRunDeeplinkLogin ==
  /\ tdPc = "front" /\ tdMsg.text = "login"
  /\ Done("handled")
  /\ AccountKept /\ UNCHANGED <<tdMode, tdRow, tdCache, tdBoard, tdGhost>>

\* maybeRunDeeplinkLink: the host may pair the chat with an account made on the
\* web.  The state dropped afterwards is the legacy key of the chat.
LegacyKeyDropped == tdCache
maybeRunDeeplinkLink ==
  /\ tdPc = "front" /\ tdMsg.text = "link"
  /\ \/ /\ tdOwn.created < MaxAccounts
        /\ tdOwn' = [account |-> tdOwn.created + 1, created |-> tdOwn.created + 1]
        /\ tdLink' = [tdLink EXCEPT ![tdMsg.chat] = tdOwn.created + 1]
        /\ tdPersona' = DefaultPersona
        /\ tdGhost' = [tdGhost EXCEPT !.offers = 0]
     \/ AccountKept /\ UNCHANGED tdGhost
  /\ tdCache' = LegacyKeyDropped
  /\ Done("handled")
  /\ UNCHANGED <<tdMode, tdRow, tdBoard>>

ToOnboarding ==
  /\ tdPc = "front" /\ tdMsg.text \notin {"login", "link"}
  /\ Goto("onboard")
  /\ AccountKept /\ UNCHANGED <<tdMode, tdRow, tdCache, tdBoard, tdGhost>>
-----------------------------------------------------------------------------
\* maybeRunBotOnboarding.  The row as this chat sees it, and whether the chat is
\* known: by the cache, else by the host's routing.
SeenRow == IF tdRow.step = "await" /\ ~awaitAskedIn(tdMsg.chat) THEN NoRow ELSE tdRow
Onboarded == tdCache[tdMsg.chat] # 0 \/ tdLink[tdMsg.chat] # 0
OnboardFrame == UNCHANGED <<tdMode, tdCache>>

\* A failed GetState leaves the message to the rest of the path.
OnboardUnread ==
  /\ tdPc = "onboard" /\ StoreFails /\ Goto("resolve")
  /\ OnboardFrame /\ AccountKept /\ UNCHANGED tdBoard

\* A known chat: /start greets with the keyboard, whatever it carries.
GreetKnown ==
  /\ tdPc = "onboard" /\ Onboarded /\ tdMsg.text \in Starts
  /\ showKeyboard(tdMsg.chat) /\ Done("greeted")
  /\ OnboardFrame /\ AccountKept /\ RowKept

\* onboardingStartEdit: the wizard again, with the edit marker, over whatever
\* the row held.
onboardingStartEdit ==
  \/ Stepped("ask_name", [NoData EXCEPT !.edit = TRUE])
  \/ StoreFails

PersonaCommand ==
  /\ tdPc = "onboard" /\ Onboarded /\ tdMsg.text = "persona"
  /\ onboardingStartEdit /\ Done("handled")
  /\ OnboardFrame /\ AccountKept /\ UNCHANGED tdBoard

\* The answer to a host command's question: the row is cleared first (a failure
\* is only logged), then the command runs with the text.
AwaitedAnswer ==
  /\ tdPc = "onboard" /\ Onboarded /\ tdMsg.text \notin Starts \cup {"persona"}
  /\ SeenRow.step = "await"
  /\ \/ Stored(NoRow, [tdGhost EXCEPT !.asked = IF @ = tdMsg.chat THEN "" ELSE @])
     \/ StoreFails
  /\ RunHost("answer")
  /\ tdCache' = [tdCache EXCEPT ![tdMsg.chat] = IF @ = 0 THEN tdLink[tdMsg.chat] ELSE @]
  /\ AccountKept /\ UNCHANGED <<tdMode, tdBoard>>

\* onboardingTickOffer: the message still goes on; at the threshold the row is
\* retired first, then the offer is sent.
onboardingTickOffer ==
  LET turns == tdRow.data.turns + 1 IN
  /\ tdPc = "onboard" /\ Onboarded /\ tdMsg.text \notin Starts \cup {"persona"}
  /\ SeenRow.step = "offer_pending"
  /\ \/ turns < OfferAfter /\ Stepped("offer_pending", [tdRow.data EXCEPT !.turns = turns])
     \/ /\ turns >= OfferAfter
        /\ Stored(NoRow, [tdGhost EXCEPT !.offers = @ + 1])
     \/ StoreFails
  /\ Goto("resolve") /\ OnboardFrame /\ AccountKept /\ UNCHANGED tdBoard

\* An ordinary message of a known chat.
NoWizard ==
  /\ tdPc = "onboard" /\ Onboarded /\ tdMsg.text \notin Starts \cup {"persona"}
  /\ SeenRow.step = ""
  /\ Goto("resolve") /\ OnboardFrame /\ AccountKept /\ RowKept /\ UNCHANGED tdBoard

\* Past the known chats' own cases: an edit run, or a chat nobody knows.
Wizarding == ~Onboarded \/ (tdMsg.text \notin Starts \cup {"persona"} /\ SeenRow.step \in WizardSteps)

\* A wizard left from another mode is discarded in instant mode.
DiscardLeftover ==
  /\ tdPc = "onboard" /\ ~Onboarded /\ SeenRow.step # "" /\ tdMode = "instant"
  /\ \/ Cleared /\ Goto("onboard")
     \/ StoreFails /\ Goto("resolve")
  /\ OnboardFrame /\ AccountKept /\ UNCHANGED tdBoard

\* Stale rows of unknown chats are settled before the wizard goes on.
Live == Wizarding /\ ~(~Onboarded /\ SeenRow.step # "" /\ tdMode = "instant")

\* A command that is not the wizard's leaves the wizard, and still runs.
Interrupts == tdMsg.text \in Commands \ (Starts \cup {"skip", "persona"})
InterruptWizard ==
  /\ tdPc = "onboard" /\ Live /\ SeenRow.step \notin {"", "await"} /\ Interrupts
  /\ Cleared \/ StoreFails
  /\ Goto("resolve") /\ OnboardFrame /\ AccountKept /\ UNCHANGED tdBoard

\* CompleteOnboarding of the host: a new account paired with this chat, or the
\* one the person has (paired or not), or a failure.
Mint(persona) ==
  /\ tdOwn.account = 0 /\ tdOwn.created < MaxAccounts
  /\ tdOwn' = [account |-> tdOwn.created + 1, created |-> tdOwn.created + 1]
  /\ tdPersona' = persona
  /\ tdLink' = [tdLink EXCEPT ![tdMsg.chat] = tdOwn.created + 1]
AlreadyDone ==
  /\ tdOwn.account # 0
  /\ tdLink' \in {tdLink, [tdLink EXCEPT ![tdMsg.chat] = tdOwn.account]}
  /\ UNCHANGED <<tdOwn, tdPersona>>

\* invalidateTelegramUser: both keys of the chat.
invalidateTelegramUser(c) == tdCache' = [tdCache EXCEPT ![c] = 0]

\* onboardingInstant: an account with the default persona.  /start is consumed
\* and welcomed, any other text goes on as the first turn; an errand runs.
onboardingInstant ==
  LET t == tdMsg.text
  IN
  /\ tdPc = "onboard" /\ Live /\ SeenRow.step = "" /\ tdMode = "instant"
  /\ \/ /\ Mint(DefaultPersona) /\ invalidateTelegramUser(tdMsg.chat)
        /\ \/ Stored([step |-> "offer_pending", data |-> NoData], [tdGhost EXCEPT !.offers = 0])
           \/ StoreFails
        /\ IF t \in Starts
             THEN /\ showKeyboard(tdMsg.chat)
                  /\ IF t = "start_errand" THEN RunHost("errand") ELSE Done("handled")
             ELSE Goto("resolve") /\ UNCHANGED tdBoard
     \/ /\ AlreadyDone /\ invalidateTelegramUser(tdMsg.chat) /\ RowKept /\ UNCHANGED tdBoard
        /\ IF t = "start_errand" /\ tdLink'[tdMsg.chat] # 0 THEN RunHost("errand") ELSE Done("handled")
     \/ /\ StoreFails /\ AccountKept /\ UNCHANGED <<tdBoard, tdCache>>
        /\ IF t \in Starts THEN Done("handled") ELSE Goto("resolve")
  /\ UNCHANGED tdMode

\* onboardingStart: only /start opens the wizard.
onboardingStart ==
  /\ tdPc = "onboard" /\ Live /\ SeenRow.step = "" /\ tdMode = "wizard"
  /\ IF tdMsg.text \in Starts
       THEN \/ /\ Stepped("ask_name", NoData)
               /\ Done("handled")
            \/ StoreFails /\ Goto("resolve")
       ELSE RowKept /\ Goto("resolve")
  /\ OnboardFrame /\ AccountKept /\ UNCHANGED tdBoard

\* onboardingReissue: the prompt of the step again.
onboardingReissue == Done("handled") /\ RowKept

InFlow(step) ==
  tdPc = "onboard" /\ Live /\ SeenRow.step = step /\ tdMsg.text \notin Starts /\ ~Interrupts

ReissueStep ==
  /\ tdPc = "onboard" /\ Live /\ SeenRow.step \in WizardSteps /\ ~Interrupts
  /\ tdMsg.text \in Starts \/ SeenRow.step \in {"ask_voice", "ask_traits", "confirm"}
  /\ onboardingReissue
  /\ OnboardFrame /\ AccountKept /\ UNCHANGED tdBoard

\* onboardingHandleName: no command and no unusable name.
onboardingHandleName ==
  /\ InFlow("ask_name")
  /\ \/ /\ Slashed(tdMsg.text) \/ tdMsg.text = "bad"
        /\ RowKept /\ Done("handled")
     \/ /\ ~Slashed(tdMsg.text) /\ tdMsg.text # "bad"
        /\ \/ Stepped("ask_voice", [tdRow.data EXCEPT !.name = TRUE]) /\ Done("handled")
           \/ StoreFails /\ Goto("resolve")
  /\ OnboardFrame /\ AccountKept /\ UNCHANGED tdBoard

\* onboardingHandleDescription: any text is one, /skip leaves it empty.
onboardingHandleDescription ==
  /\ InFlow("ask_description")
  /\ \/ /\ Stepped("confirm", tdRow.data)
        /\ Done("handled")
     \/ StoreFails /\ Goto("resolve")
  /\ OnboardFrame /\ AccountKept /\ UNCHANGED tdBoard

\* A row no step of the wizard owns is wiped.
DeadRow ==
  /\ tdPc = "onboard" /\ Live /\ SeenRow.step \in {"await", "offer_pending"}
  /\ ~(SeenRow.step = "offer_pending" /\ Interrupts)
  /\ \/ tdMsg.text \in Starts /\ RowKept
     \/ tdMsg.text \notin Starts /\ (Cleared \/ StoreFails)
  /\ Goto("resolve") /\ OnboardFrame /\ AccountKept /\ UNCHANGED tdBoard
-----------------------------------------------------------------------------
\* getOrInitTelegramUser or replyUnpaired.
getOrInitTelegramUser ==
  LET c == tdMsg.chat IN
  /\ tdPc = "resolve"
  /\ IF tdCache[c] = 0 /\ tdLink[c] = 0
       THEN Done("handled") /\ UNCHANGED tdCache
       ELSE /\ tdCache' = [tdCache EXCEPT ![c] = IF @ = 0 THEN tdLink[c] ELSE @]
            /\ Goto("dispatch")
  /\ AccountKept /\ RowKept /\ UNCHANGED <<tdMode, tdBoard>>

\* maybeRunHostCommand, the execution policy, /reset, else the message is a turn
\* of the conversation.
maybeRunHostCommand ==
  /\ tdPc = "dispatch"
  /\ \/ tdMsg.text = "menu" /\ showKeyboard(tdMsg.chat) /\ Done("handled")
     \/ tdMsg.text \in {"host", "start_errand"} /\ RunHost("command") /\ UNCHANGED tdBoard
     \/ /\ tdMsg.text \notin {"menu", "host", "start_errand"} /\ UNCHANGED tdBoard
        /\ \/ Done("handled")
           \/ Done("handled")
  /\ AccountKept /\ RowKept /\ UNCHANGED <<tdMode, tdCache>>

\* settleAwaitedReply: the answer's question is parked before it is shown; an
\* answer without one ends the question open in this chat.
settleAwaitedReply(asks) ==
  LET c == tdMsg.chat IN
  IF asks
    THEN /\ tdBoard' = [tdBoard EXCEPT ![c] = FALSE]
         /\ \/ Stored([step |-> "await", data |-> [NoData EXCEPT !.chat = c]], [tdGhost EXCEPT !.asked = c])
            \/ StoreFails
    ELSE /\ UNCHANGED tdBoard
         /\ IF awaitAskedIn(c) THEN \/ Stored(NoRow, [tdGhost EXCEPT !.asked = IF @ = c THEN "" ELSE @])
                                    \/ StoreFails
                               ELSE RowKept

\* forgetTelegramAccount: every chat cached for the account.
forgetTelegramAccount ==
  /\ tdCache' = [c \in TdChats |-> 0]
  /\ tdBoard' = [c \in TdChats |-> IF tdCache[c] = 0 THEN tdBoard[c] ELSE FALSE]

\* greetAsNew: what the person's first /start would have done.
greetAsNew == Becomes("onboard", "start")

\* execHostCommand: the handler fails, answers, or resets the account to its
\* first day, after which every chat of it is forgotten and met as a newcomer.
execHostCommand ==
  /\ tdPc = "host"
  /\ \/ Done(tdOut) /\ RowKept /\ AccountKept /\ UNCHANGED <<tdCache, tdBoard>>
     \/ /\ \E asks \in BOOLEAN : settleAwaitedReply(asks)
        /\ Done(tdOut) /\ AccountKept /\ UNCHANGED tdCache
     \/ /\ tdOwn' = [tdOwn EXCEPT !.account = 0] /\ tdPersona' = NoPersona
        /\ tdLink' = [c \in TdChats |-> 0] /\ forgetTelegramAccount
        /\ IF awaitAskedIn(tdMsg.chat) THEN Stored(NoRow, [tdGhost EXCEPT !.asked = ""]) ELSE RowKept
        /\ greetAsNew
  /\ UNCHANGED tdMode
-----------------------------------------------------------------------------
\* maybeRunBotOnboardingCallback: a tap in the private chat, on a keyboard that
\* is or was on the screen; a tap its step no longer expects is stale.
WizardTap(step) == tdPc = "idle" /\ tdRow.step = step
LateTap == tdPc = "idle" /\ tdOwn.created > 0
TapFrame == UNCHANGED <<tdMode, tdCache, tdBoard>>

onboardingHandleVoice ==
  /\ WizardTap("ask_voice")
  /\ \/ Stepped("ask_traits", [tdRow.data EXCEPT !.voice = TRUE, !.tags = 0])
     \/ StoreFails
  /\ Done("handled") /\ TapFrame /\ AccountKept

\* onboardingToggleTrait: a trait over the cap is ignored.
ToggledUncapped(n) == {m \in {n - 1, n + 1} : m >= 0}      \* mutant: any number of traits
Toggled(n) == {m \in {n - 1, n + 1} : m \in 0..TagCap}
onboardingToggleTrait ==
  /\ WizardTap("ask_traits")
  /\ (\E n \in Toggled(tdRow.data.tags) : Stepped("ask_traits", [tdRow.data EXCEPT !.tags = n])) \/ StoreFails
  /\ Done("handled") /\ TapFrame /\ AccountKept

onboardingHandleTraitsDone ==
  /\ WizardTap("ask_traits")
  /\ Stepped("ask_description", tdRow.data) \/ StoreFails
  /\ Done("handled") /\ TapFrame /\ AccountKept

onboardingConfirmBack ==
  /\ WizardTap("confirm")
  /\ Stepped("ask_description", tdRow.data) \/ StoreFails
  /\ Done("handled") /\ TapFrame /\ AccountKept

Collected == [name |-> tdRow.data.name, voice |-> tdRow.data.voice, tags |-> tdRow.data.tags]

\* personaFinalize: the answers replace the persona of the account the person
\* owns; without one the run ends, a failure leaves it at confirm.
personaFinalize ==
  /\ UNCHANGED <<tdOwn, tdLink>>
  /\ IF tdOwn.account = 0
       THEN Cleared /\ UNCHANGED <<tdPersona, tdCache>>
       ELSE \/ /\ tdPersona' = Collected
               /\ Cleared \/ StoreFails
               /\ invalidateTelegramUser("private")
            \/ StoreFails /\ UNCHANGED <<tdPersona, tdCache>>

\* onboardingFinalize: the account is made from the answers; ClearState comes
\* after it, and its failure is only logged.
onboardingFinalize ==
  /\ WizardTap("confirm")
  /\ CASE tdRow.data.edit -> personaFinalize
       [] OTHER ->
            \/ /\ tdOwn.account = 0 /\ tdOwn.created < MaxAccounts
               /\ tdOwn' = [account |-> tdOwn.created + 1, created |-> tdOwn.created + 1]
               /\ tdPersona' = Collected /\ tdLink' = [tdLink EXCEPT !["private"] = tdOwn.created + 1]
               /\ Stored(NoRow, [tdGhost EXCEPT !.offers = 0]) \/ StoreFails
               /\ invalidateTelegramUser("private")
            \/ /\ tdOwn.account # 0 /\ AccountKept
               /\ Cleared \/ StoreFails
               /\ UNCHANGED tdCache
            \/ StoreFails /\ AccountKept /\ UNCHANGED tdCache
  /\ Done("handled") /\ UNCHANGED <<tdMode, tdBoard>>

\* onboardingHandleSeed: the keyboard is stripped (best effort), then the seed
\* is shown, or said as if the person had typed it.
onboardingHandleSeed ==
  /\ LateTap
  /\ \/ Done("handled")
     \/ Goto("keys")
  /\ AccountKept /\ RowKept /\ UNCHANGED <<tdMode, tdCache, tdBoard>>

\* The offer's buttons: set up now, or later.
OfferTap ==
  /\ LateTap
  /\ onboardingStartEdit \/ RowKept
  /\ Done("handled") /\ TapFrame /\ AccountKept

\* A refusal's button runs a host command for a chat that is still cached.
HostTap ==
  /\ LateTap
  /\ IF tdCache["private"] = 0 THEN Done("handled") ELSE RunHost("command")
  /\ TapFrame /\ AccountKept /\ RowKept

\* The process restarts, perhaps with another mode: caches and keyboards go.
Redeploy ==
  /\ Done("none")
  /\ tdMode' \in {"instant", "wizard"}
  /\ tdCache' = [c \in TdChats |-> 0]
  /\ tdBoard' = [c \in TdChats |-> FALSE]
  /\ AccountKept /\ RowKept /\ TRUE

DialogNext ==
  \/ \E c \in TdChats, t \in TdTexts : Receive(c, t)
  \/ endAwaitedReply \/ handleKeyboardTap \/ answerKeyboardAsk
  \/ shouldProcessGroupMessage \/ maybeRunDeeplinkLogin \/ maybeRunDeeplinkLink \/ ToOnboarding
  \/ OnboardUnread \/ GreetKnown \/ PersonaCommand \/ AwaitedAnswer \/ onboardingTickOffer \/ NoWizard
  \/ DiscardLeftover \/ InterruptWizard \/ onboardingInstant \/ onboardingStart \/ ReissueStep
  \/ onboardingHandleName \/ onboardingHandleDescription \/ DeadRow
  \/ getOrInitTelegramUser \/ maybeRunHostCommand \/ execHostCommand
  \/ onboardingHandleVoice \/ onboardingToggleTrait \/ onboardingHandleTraitsDone
  \/ onboardingConfirmBack \/ onboardingFinalize \/ onboardingHandleSeed \/ OfferTap \/ HostTap
  \/ Redeploy

DialogSpec == DialogInit /\ [][DialogNext]_dialogVars
-----------------------------------------------------------------------------
\* An account made in the chat always has a name a person may give, a voice of
\* the palette and no more traits than the cap, however the steps of its wizard
\* were reached, repeated, interrupted or tapped late.
PersonaComplete ==
  tdPersona # NoPersona =>
    tdPersona.name /\ tdPersona.voice /\ tdPersona.tags <= TagCap

\* The persona offer is made once per account.
OfferedOnce == tdGhost.offers <= 1

\* The guarantees of the wizard together (bot_onboarding.go).
DialogSound == PersonaComplete /\ OfferedOnce

\* While the store answers, a text reaches a host command as an answer only in
\* the chat whose question is still open: no key, command or later answer came
\* between (endAwaitedReply, settleAwaitedReply); and a run that edits a persona
\* never creates an account (isEditRun).
AnswersAndEdits ==
  [][/\ (tdOut' = "answer" /\ tdPc' = "host" /\ tdPc = "onboard" /\ tdGhost'.faults = 0) => tdGhost.asked = tdMsg.chat
     /\ (tdRow.data.edit /\ tdRow'.data.edit) => tdOwn'.created = tdOwn.created \/ tdPc = "front"]_dialogVars
=============================================================================
